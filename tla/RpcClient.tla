------------------------------ MODULE RpcClient ------------------------------
(***************************************************************************)
(* SolanaClient (src/solana/client.rs): RPC calls that retry and reconnect, *)
(* and the callers that depend on them: main, which starts the event       *)
(* service before it serves, the status handler, and the listener.         *)
(*                                                                         *)
(* The RpcClient sits behind a tokio RwLock.  The lock is fair: requests   *)
(* wait in one queue, and a reader waits behind a writer that came before. *)
(* execute_with_retry holds its read guard until the end of the iteration, *)
(* and reconnect, which it calls under that guard, replaces the client     *)
(* under the write lock.                                                   *)
(***************************************************************************)
EXTENDS Naturals, Sequences, FiniteSets

CONSTANTS
  Main,        (* the task that starts the service and then serves        *)
  Others,      (* the other tasks that call the client                    *)
  Recovering,  (* when an unhealthy node may become healthy again:        *)
               (* "anytime", or only "betweenProbes" of retrying calls     *)
  MaxAttempts, (* max_reconnect_attempts, 10 in the code                  *)
  MaxCalls     (* bound: calls begun by the other tasks                   *)

ASSUME RpcAssumption ==
  /\ Main \notin Others
  /\ Recovering \in {"anytime", "betweenProbes"}
  /\ MaxAttempts \in Nat \ {0} /\ MaxCalls \in Nat

Callers == {Main} \cup Others

VARIABLES
  up,                \* is the RPC node healthy?
  boot,              \* main: starting the service, starting the listener, serving
  phase, op, attempts, \* each caller: where its call is, which call, failed attempts
  readers, queue,    \* the client's lock: who holds a read guard, who waits
  generation,        \* how often the client was replaced
  connection_state, reconnect_attempts, \* as reported
  total, failed, succeeded, calls \* requests made, failed, succeeded; calls begun

lockVars == <<readers, queue>>
statVars == <<connection_state, reconnect_attempts, total, failed, succeeded>>
callVars == <<phase, op, attempts>>
vars == <<up, boot, callVars, lockVars, generation, statVars, calls>>

-----------------------------------------------------------------------------
Phases == {"idle", "count", "wait", "operate", "reconnect", "probe", "waitWrite", "backoff"}

(* A health check fails while the node is unhealthy; fetching a transaction *)
(* turns every RPC error into an empty answer; force_reconnect reconnects   *)
(* without a guard.                                                        *)
Ops == {"health", "fetch", "force"}

Init ==
  /\ up \in BOOLEAN /\ boot = "service"
  /\ phase = [c \in Callers |-> "idle"]
  /\ op = [c \in Callers |-> "health"]
  /\ attempts = [c \in Callers |-> 0]
  /\ readers = {} /\ queue = <<>> /\ generation = 0
  /\ connection_state = "Connected" /\ reconnect_attempts = 0
  /\ total = 0 /\ failed = 0 /\ succeeded = 0 /\ calls = 0

Goto(c, ph) == phase' = [phase EXCEPT ![c] = ph]

(* main checks the connection once in EventService::start and, if that went *)
(* well, once more in the listener's start; either way it then serves.      *)
Return(c, ok) ==
  /\ Goto(c, "idle")
  /\ boot' = IF c # Main THEN boot
             ELSE IF ok /\ boot = "service" THEN "listener" ELSE "serving"

-----------------------------------------------------------------------------
(* The node *)
NodeFails == up /\ up' = FALSE
             /\ UNCHANGED <<boot, callVars, lockVars, generation, statVars, calls>>
NodeRecovers ==
  /\ ~up /\ up' = TRUE
  /\ \/ Recovering = "anytime"
     \/ \A c \in Callers : op[c] = "force" \/ phase[c] \notin {"reconnect", "probe"}
  /\ UNCHANGED <<boot, callVars, lockVars, generation, statVars, calls>>

-----------------------------------------------------------------------------
(* Faulty variants (named ..Faulty..) are not part of the specification: each *)
(* is a slip a property must notice.  Here: the attempts of the last call   *)
(* still count.                                                            *)
BeginFaulty(c, o) ==
  /\ phase[c] = "idle"
  /\ op' = [op EXCEPT ![c] = o]
  /\ Goto(c, IF o = "force" THEN "reconnect" ELSE "count")
  /\ UNCHANGED <<up, boot, attempts, lockVars, generation, statVars>>
Begin(c, o) ==
  /\ phase[c] = "idle"
  /\ op' = [op EXCEPT ![c] = o]
  /\ attempts' = [attempts EXCEPT ![c] = 0]
  /\ Goto(c, IF o = "force" THEN "reconnect" ELSE "count")
  /\ UNCHANGED <<up, boot, lockVars, generation, statVars>>

(* main's two checks *)
StartFaulty ==   \* main waits for a listener nobody starts
  boot = "service" /\ Begin(Main, "health") /\ UNCHANGED calls
Start == boot # "serving" /\ Begin(Main, "health") /\ UNCHANGED calls

(* Requests and fetches come once the server runs. *)
Call(c, o) ==
  /\ boot = "serving" /\ calls < MaxCalls
  /\ Begin(c, o)
  /\ calls' = calls + 1

Count(c) ==
  /\ phase[c] = "count"
  /\ total' = total + 1
  /\ queue' = Append(queue, [who |-> c, mode |-> "read"])
  /\ Goto(c, "wait")
  /\ UNCHANGED <<up, boot, op, attempts, readers, generation, connection_state,
                 reconnect_attempts, failed, succeeded, calls>>

GrantRead ==
  /\ queue # <<>> /\ Head(queue).mode = "read"
  /\ readers' = readers \cup {Head(queue).who}
  /\ queue' = Tail(queue)
  /\ Goto(Head(queue).who, "operate")
  /\ UNCHANGED <<up, boot, op, attempts, generation, statVars, calls>>

(* A fetch turns the node's errors into an answer without a transaction;   *)
(* that the node's own signature does not parse, or its answer does not    *)
(* turn into JSON, is left out.                                            *)
Succeeds(c) == op[c] = "fetch" \/ up

OperateOk(c) ==
  /\ phase[c] = "operate" /\ Succeeds(c)
  /\ connection_state' = "Connected" /\ reconnect_attempts' = 0
  /\ succeeded' = succeeded + 1
  /\ readers' = readers \ {c}
  /\ Return(c, TRUE)
  /\ UNCHANGED <<up, op, attempts, queue, generation, total, failed, calls>>

OperateErrFaultyLimit(c) ==   \* one attempt too many
  /\ phase[c] = "operate" /\ ~Succeeds(c)
  /\ failed' = failed + 1 /\ connection_state' = "Disconnected"
  /\ attempts' = [attempts EXCEPT ![c] = @ + 1]
  /\ IF attempts[c] + 1 > MaxAttempts
       THEN readers' = readers \ {c} /\ Return(c, FALSE)
       ELSE Goto(c, "reconnect") /\ UNCHANGED <<readers, boot>>
  /\ UNCHANGED <<up, op, queue, generation, reconnect_attempts, total, succeeded, calls>>
OperateErrFaultyCount(c) ==   \* only the last failure of a call is counted
  /\ phase[c] = "operate" /\ ~Succeeds(c)
  /\ connection_state' = "Disconnected"
  /\ attempts' = [attempts EXCEPT ![c] = @ + 1]
  /\ IF attempts[c] + 1 >= MaxAttempts
       THEN failed' = failed + 1 /\ readers' = readers \ {c} /\ Return(c, FALSE)
       ELSE Goto(c, "reconnect") /\ UNCHANGED <<failed, readers, boot>>
  /\ UNCHANGED <<up, op, queue, generation, reconnect_attempts, total, succeeded, calls>>
OperateErrFaultyGuard(c) ==   \* who gives up keeps the guard
  /\ phase[c] = "operate" /\ ~Succeeds(c)
  /\ failed' = failed + 1 /\ connection_state' = "Disconnected"
  /\ attempts' = [attempts EXCEPT ![c] = @ + 1]
  /\ IF attempts[c] + 1 >= MaxAttempts
       THEN Return(c, FALSE) ELSE Goto(c, "reconnect") /\ UNCHANGED boot
  /\ UNCHANGED <<up, op, lockVars, generation, reconnect_attempts, total, succeeded, calls>>
OperateErr(c) ==
  /\ phase[c] = "operate" /\ ~Succeeds(c)
  /\ failed' = failed + 1 /\ connection_state' = "Disconnected"
  /\ attempts' = [attempts EXCEPT ![c] = @ + 1]
  /\ IF attempts[c] + 1 >= MaxAttempts
       THEN readers' = readers \ {c} /\ Return(c, FALSE)
       ELSE Goto(c, "reconnect") /\ UNCHANGED <<readers, boot>>
  /\ UNCHANGED <<up, op, queue, generation, reconnect_attempts, total, succeeded, calls>>

(* reconnect: only force_reconnect calls it without a read guard. *)
Reconnect(c) ==
  /\ phase[c] = "reconnect"
  /\ connection_state' = "Reconnecting"
  /\ reconnect_attempts' = reconnect_attempts + 1
  /\ Goto(c, "probe")
  /\ UNCHANGED <<up, boot, op, attempts, lockVars, generation, total, failed, succeeded, calls>>

ProbeOk(c) ==
  /\ phase[c] = "probe" /\ up
  /\ queue' = Append(queue, [who |-> c, mode |-> "write"])
  /\ Goto(c, "waitWrite")
  /\ UNCHANGED <<up, boot, op, attempts, readers, generation, statVars, calls>>

ProbeErr(c) ==
  /\ phase[c] = "probe" /\ ~up
  /\ connection_state' = "Disconnected"
  /\ Goto(c, IF op[c] = "force" THEN "idle" ELSE "backoff")
  /\ UNCHANGED <<up, boot, op, attempts, lockVars, generation, reconnect_attempts, total,
                 failed, succeeded, calls>>

(* The writer at the head of the queue replaces the client as soon as no    *)
(* guard is held; a retrying call then drops its own guard and tries again. *)
Replace ==
  LET c == Head(queue).who
  IN /\ queue # <<>> /\ Head(queue).mode = "write" /\ readers = {}
     /\ generation' = generation + 1
     /\ queue' = Tail(queue)
     /\ connection_state' = "Connected"
     /\ Goto(c, IF op[c] = "force" THEN "idle" ELSE "count")
     /\ UNCHANGED <<up, boot, op, attempts, readers, reconnect_attempts, total, failed,
                    succeeded, calls>>

(* The sleep is over; the guard is dropped at the end of the iteration. *)
RetryFaulty(c) ==   \* the guard outlives the iteration
  /\ phase[c] = "backoff"
  /\ Goto(c, "count")
  /\ UNCHANGED <<up, boot, op, attempts, lockVars, generation, statVars, calls>>
Retry(c) ==
  /\ phase[c] = "backoff"
  /\ readers' = readers \ {c}
  /\ Goto(c, "count")
  /\ UNCHANGED <<up, boot, op, attempts, queue, generation, statVars, calls>>

Step(c) ==
  \/ Count(c) \/ OperateOk(c) \/ OperateErr(c) \/ Reconnect(c)
  \/ ProbeOk(c) \/ ProbeErr(c) \/ Retry(c)

Next ==
  \/ NodeFails \/ NodeRecovers
  \/ Start
  \/ \E c \in Others, o \in Ops : Call(c, o)
  \/ \E c \in Callers : Step(c)
  \/ GrantRead \/ Replace

Spec == Init /\ [][Next]_vars

(* Tasks get to run, the lock is granted in turn, sleeps end, and main goes *)
(* on with the start.                                                      *)
FairSpec ==
  /\ Spec
  /\ WF_vars(Start) /\ WF_vars(GrantRead) /\ WF_vars(Replace)
  /\ \A c \in Callers : WF_vars(Step(c))

-----------------------------------------------------------------------------
(* Types of every variable. *)
TypeOK ==
  /\ up \in BOOLEAN /\ boot \in {"service", "listener", "serving"}
  /\ phase \in [Callers -> Phases] /\ op \in [Callers -> Ops]
  /\ attempts \in [Callers -> 0..MaxAttempts]
  /\ readers \subseteq Callers
  /\ queue \in Seq([who : Callers, mode : {"read", "write"}])
  /\ generation \in Nat
  /\ connection_state \in {"Connected", "Disconnected", "Reconnecting"}
  /\ reconnect_attempts \in Nat
  /\ total \in Nat /\ failed \in Nat /\ succeeded \in Nat /\ calls \in 0..MaxCalls

(* A read guard is held exactly from the grant to the end of the iteration, *)
(* and a caller waits in the queue once, for what its phase says.          *)
LockDiscipline ==
  /\ readers = {c \in Callers :
       \/ phase[c] \in {"operate", "backoff"}
       \/ op[c] # "force" /\ phase[c] \in {"reconnect", "probe", "waitWrite"}}
  /\ \A c \in Callers : \A m \in {"read", "write"} :
       Cardinality({i \in 1..Len(queue) : queue[i] = [who |-> c, mode |-> m]})
         = (IF phase[c] = (IF m = "read" THEN "wait" ELSE "waitWrite") THEN 1 ELSE 0)

(* Every request counted has succeeded, failed or is on its way, though the *)
(* counters are updated under locks of their own.                          *)
RequestsAccounted ==
  total = succeeded + failed + Cardinality({c \in Callers : phase[c] \in {"wait", "operate"}})

(* A call that is under way has an attempt left: it gives up with the       *)
(* MaxAttempts-th failure of its own, whatever earlier or other calls did.  *)
AttemptsBounded == \A c \in Callers : phase[c] # "idle" => attempts[c] < MaxAttempts

(* Every call returns, with a result or an error. *)
EveryCallReturns == \A c \in Callers : phase[c] # "idle" ~> phase[c] = "idle"

(* Whether or not the RPC node answers, the server comes up: a failed start *)
(* of the event service is logged and the server goes on without it.       *)
ServerComesUp == <>(boot = "serving")

(* A retrying call that has asked for the write lock asks for ever. *)
Stuck == \E c \in Callers : phase[c] = "waitWrite" /\ op[c] # "force"
StuckForEver == [][Stuck => Stuck']_vars
=============================================================================
