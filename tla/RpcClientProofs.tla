--------------------------- MODULE RpcClientProofs ---------------------------
(* Theorems of RpcClient for every value of its constants. *)
EXTENDS RpcClient, TLAPS, FiniteSetTheorems, SequenceTheorems

Waiting == {"wait", "waitWrite"}
WaitsFor(mode) == IF mode = "read" THEN "wait" ELSE "waitWrite"

(* The queue holds each waiting caller once, for what its phase says.      *)
QueueInOrder ==
  /\ \A i \in 1..Len(queue) : phase[queue[i].who] = WaitsFor(queue[i].mode)
  /\ \A i, j \in 1..Len(queue) : queue[i].who = queue[j].who => i = j
  /\ \A c \in Callers :
       phase[c] \in Waiting => \E i \in 1..Len(queue) : queue[i].who = c

Holds(c) == \/ phase[c] \in {"operate", "backoff"}
            \/ op[c] # "force" /\ phase[c] \in {"reconnect", "probe", "waitWrite"}

GuardsInOrder == readers = {c \in Callers : Holds(c)}

(* TypeOK bounds attempts, which needs AttemptsBounded; a grant starts the *)
(* caller at the head of the queue, so that needs QueueInOrder.            *)
IInv == TypeOK /\ QueueInOrder /\ AttemptsBounded

Entry == [who : Callers, mode : {"read", "write"}]

-----------------------------------------------------------------------------
(* The three things a step does to phases and queue: a caller not in the    *)
(* queue goes on, a caller joins the queue, the head of the queue leaves.  *)

LEMMA GoOn ==
  ASSUME IInv, NEW c \in Callers, NEW ph \in Phases \ Waiting,
         phase[c] \notin Waiting, Goto(c, ph), queue' = queue
  PROVE  QueueInOrder'
<1>1. phase \in [Callers -> Phases]  BY DEF IInv, TypeOK
<1>2. \A d \in Callers : phase'[d] = IF d = c THEN ph ELSE phase[d]
  BY <1>1 DEF Goto
<1>3. queue \in Seq(Entry)  BY DEF IInv, TypeOK, Entry
<1>4. \A i \in 1..Len(queue) : queue[i] \in Entry /\ queue[i].who # c
  <2>. TAKE i \in 1..Len(queue)
  <2>1. queue[i] \in Entry  BY <1>3
  <2>2. phase[queue[i].who] = WaitsFor(queue[i].mode)  BY DEF IInv, QueueInOrder
  <2>. QED  BY <2>1, <2>2 DEF Entry, Waiting, WaitsFor
<1>5. \A i \in 1..Len(queue) : phase'[queue[i].who] = phase[queue[i].who]
  BY <1>2, <1>4 DEF Entry
<1>6. \A d \in Callers : phase'[d] \in Waiting => phase[d] \in Waiting
  BY <1>2
<1>. QED  BY <1>5, <1>6 DEF IInv, QueueInOrder

LEMMA Join ==
  ASSUME IInv, NEW c \in Callers, NEW m \in {"read", "write"}, phase[c] \notin Waiting,
         Goto(c, WaitsFor(m)), queue' = Append(queue, [who |-> c, mode |-> m])
  PROVE  QueueInOrder' /\ queue' \in Seq(Entry)
<1>. DEFINE e == [who |-> c, mode |-> m]
<1>1. queue \in Seq(Entry) /\ e \in Entry  BY DEF IInv, TypeOK, Entry
<1>2. /\ queue' \in Seq(Entry) /\ Len(queue') = Len(queue) + 1
      /\ \A i \in 1..Len(queue) : queue'[i] = queue[i]
      /\ queue'[Len(queue) + 1] = e
  BY <1>1, AppendProperties
<1>3. \A i \in 1..Len(queue) : queue[i] \in Entry  BY <1>1
<1>4. \A d \in Callers : phase'[d] = IF d = c THEN WaitsFor(m) ELSE phase[d]
  BY DEF IInv, TypeOK, Goto
<1>5. \A i \in 1..Len(queue) : queue[i].who # c
  BY <1>3 DEF IInv, QueueInOrder, Entry, Waiting, WaitsFor
<1>6. Len(queue) \in Nat  BY <1>1
<1>7. \A i \in 1..Len(queue') : i \in 1..Len(queue) \/ i = Len(queue) + 1
  BY <1>2, <1>6
<1>8. ASSUME NEW i \in 1..Len(queue')
      PROVE  phase'[queue'[i].who] = WaitsFor(queue'[i].mode)
  <2>1. CASE i \in 1..Len(queue)
    BY <1>2, <1>3, <1>4, <1>5, <2>1 DEF IInv, QueueInOrder, Entry
  <2>2. CASE i = Len(queue) + 1  BY <1>2, <1>4, <2>2
  <2>. QED  BY <1>7, <2>1, <2>2
<1>9. \A i, j \in 1..Len(queue') : queue'[i].who = queue'[j].who => i = j
  BY <1>2, <1>3, <1>5, <1>7 DEF IInv, QueueInOrder
<1>10. ASSUME NEW d \in Callers, phase'[d] \in Waiting
       PROVE  \E i \in 1..Len(queue') : queue'[i].who = d
  <2>1. CASE d = c  BY <1>2, <1>6, <2>1
  <2>2. CASE d # c
    <3>1. PICK i \in 1..Len(queue) : queue[i].who = d
      BY <1>4, <1>10, <2>2 DEF IInv, QueueInOrder
    <3>. QED  BY <1>2, <1>6, <3>1
  <2>. QED  BY <2>1, <2>2
<1>. QED  BY <1>2, <1>8, <1>9, <1>10 DEF QueueInOrder

LEMMA Leave ==
  ASSUME IInv, queue # <<>>, NEW ph \in Phases \ Waiting,
         Goto(Head(queue).who, ph), queue' = Tail(queue)
  PROVE  QueueInOrder' /\ queue' \in Seq(Entry)
<1>. DEFINE c == Head(queue).who
<1>1. queue \in Seq(Entry)  BY DEF IInv, TypeOK, Entry
<1>2. /\ Head(queue) = queue[1] /\ queue' \in Seq(Entry)
      /\ Len(queue') = Len(queue) - 1
      /\ \A i \in 1..Len(queue') : queue'[i] = queue[i + 1]
  BY <1>1, HeadTailProperties
<1>3. Len(queue) \in Nat /\ Len(queue) >= 1  BY <1>1, EmptySeq
<1>4. \A i \in 1..Len(queue) : queue[i] \in Entry  BY <1>1
<1>5. c \in Callers /\ c = queue[1].who  BY <1>2, <1>4 DEF Entry
<1>6. \A d \in Callers : phase'[d] = IF d = c THEN ph ELSE phase[d]
  BY <1>5 DEF IInv, TypeOK, Goto
<1>7. \A i \in 1..Len(queue') : i + 1 \in 1..Len(queue) /\ i + 1 # 1
  BY <1>2, <1>3
<1>8. \A i \in 1..Len(queue') : queue'[i].who \in Callers /\ queue'[i].who # c
  BY <1>2, <1>3, <1>4, <1>5, <1>7 DEF IInv, QueueInOrder, Entry
<1>9. \A i \in 1..Len(queue') : phase'[queue'[i].who] = WaitsFor(queue'[i].mode)
  BY <1>2, <1>6, <1>7, <1>8 DEF IInv, QueueInOrder
<1>10. \A i, j \in 1..Len(queue') : queue'[i].who = queue'[j].who => i = j
  BY <1>2, <1>7 DEF IInv, QueueInOrder
<1>11. ASSUME NEW d \in Callers, phase'[d] \in Waiting
       PROVE  \E i \in 1..Len(queue') : queue'[i].who = d
  <2>1. d # c /\ phase[d] \in Waiting  BY <1>5, <1>6, <1>11
  <2>2. PICK i \in 1..Len(queue) : queue[i].who = d
    BY <2>1 DEF IInv, QueueInOrder
  <2>3. i # 1  BY <1>5, <2>1, <2>2
  <2>4. i - 1 \in 1..Len(queue') /\ (i - 1) + 1 = i  BY <1>2, <1>3, <2>3
  <2>5. queue'[i - 1] = queue[i]  BY <1>2, <2>4
  <2>. QED  BY <2>2, <2>4, <2>5
<1>. QED  BY <1>2, <1>9, <1>10, <1>11 DEF QueueInOrder

(* The head of the queue is a caller that waits for what its entry says.   *)
LEMMA HeadWaits ==
  ASSUME IInv, queue # <<>>
  PROVE  /\ Head(queue) \in Entry /\ Head(queue).who \in Callers
         /\ phase[Head(queue).who] = WaitsFor(Head(queue).mode)
         /\ phase[Head(queue).who] \in Waiting
<1>1. queue \in Seq(Entry)  BY DEF IInv, TypeOK, Entry
<1>2. Head(queue) = queue[1] /\ Len(queue) \in Nat /\ Len(queue) >= 1
  BY <1>1, HeadTailProperties, EmptySeq
<1>3. queue[1] \in Entry  BY <1>1, <1>2
<1>. QED  BY <1>2, <1>3 DEF IInv, QueueInOrder, Entry, Waiting, WaitsFor

-----------------------------------------------------------------------------
(* Steps *)

LEMMA BeginKeeps ==
  ASSUME IInv, NEW c \in Callers, NEW o \in Ops, Begin(c, o), calls' \in 0..MaxCalls
  PROVE  IInv'
<1>. USE DEF lockVars, statVars, callVars, Phases, Waiting
<1>1. QueueInOrder'  BY GoOn DEF Begin
<1>2. TypeOK'  BY RpcAssumption DEF Begin, IInv, TypeOK, Goto
<1>3. AttemptsBounded'  BY RpcAssumption DEF Begin, IInv, TypeOK, AttemptsBounded, Goto
<1>. QED  BY <1>1, <1>2, <1>3 DEF IInv

LEMMA StepKeeps ==
  ASSUME IInv, NEW c \in Callers, Step(c)
  PROVE  IInv'
<1>. USE RpcAssumption DEF lockVars, statVars, callVars
<1>1. CASE Count(c)
  <2>1. Goto(c, WaitsFor("read"))  BY <1>1 DEF Count, WaitsFor
  <2>2. QueueInOrder' /\ queue' \in Seq(Entry)
    BY <1>1, <2>1, Join DEF Count, Waiting
  <2>3. TypeOK'  BY <1>1, <2>2 DEF Count, IInv, TypeOK, Goto, Phases, Entry
  <2>4. AttemptsBounded'  BY <1>1 DEF Count, IInv, TypeOK, AttemptsBounded, Goto
  <2>. QED  BY <2>2, <2>3, <2>4 DEF IInv
<1>2. CASE OperateOk(c)
  <2>1. QueueInOrder'  BY <1>2, GoOn DEF OperateOk, Return, Waiting, Phases
  <2>2. TypeOK'  BY <1>2 DEF OperateOk, Return, IInv, TypeOK, Goto, Phases
  <2>3. AttemptsBounded'
    BY <1>2 DEF OperateOk, Return, IInv, TypeOK, AttemptsBounded, Goto
  <2>. QED  BY <2>1, <2>2, <2>3 DEF IInv
<1>3. CASE OperateErr(c)
  <2>1. attempts[c] \in Nat /\ attempts[c] < MaxAttempts
    BY <1>3 DEF OperateErr, IInv, TypeOK, AttemptsBounded
  <2>2. CASE attempts[c] + 1 >= MaxAttempts
    <3>1. QueueInOrder'  BY <1>3, <2>2, GoOn DEF OperateErr, Return, Waiting, Phases
    <3>2. TypeOK'  BY <1>3, <2>1, <2>2 DEF OperateErr, Return, IInv, TypeOK, Goto, Phases
    <3>3. AttemptsBounded'
      BY <1>3, <2>2 DEF OperateErr, Return, IInv, TypeOK, AttemptsBounded, Goto
    <3>. QED  BY <3>1, <3>2, <3>3 DEF IInv
  <2>3. CASE ~(attempts[c] + 1 >= MaxAttempts)
    <3>1. QueueInOrder'  BY <1>3, <2>3, GoOn DEF OperateErr, Waiting, Phases
    <3>2. attempts[c] + 1 \in 0..MaxAttempts /\ failed + 1 \in Nat
      BY <2>1, <2>3 DEF IInv, TypeOK
    <3>3. attempts' \in [Callers -> 0..MaxAttempts] /\ failed' \in Nat
      BY <1>3, <3>2 DEF OperateErr, IInv, TypeOK
    <3>4. phase' \in [Callers -> Phases]
      BY <1>3, <2>3 DEF OperateErr, IInv, TypeOK, Goto, Phases
    <3>5. TypeOK'  BY <1>3, <2>3, <3>3, <3>4 DEF OperateErr, IInv, TypeOK
    <3>6. AttemptsBounded'
      BY <1>3, <2>1, <2>3 DEF OperateErr, IInv, TypeOK, AttemptsBounded, Goto
    <3>. QED  BY <3>1, <3>5, <3>6 DEF IInv
  <2>. QED  BY <2>2, <2>3
<1>4. CASE Reconnect(c)
  <2>1. QueueInOrder'  BY <1>4, GoOn DEF Reconnect, Waiting, Phases
  <2>2. TypeOK'  BY <1>4 DEF Reconnect, IInv, TypeOK, Goto, Phases
  <2>3. AttemptsBounded'  BY <1>4 DEF Reconnect, IInv, TypeOK, AttemptsBounded, Goto
  <2>. QED  BY <2>1, <2>2, <2>3 DEF IInv
<1>5. CASE ProbeOk(c)
  <2>1. Goto(c, WaitsFor("write"))  BY <1>5 DEF ProbeOk, WaitsFor
  <2>2. QueueInOrder' /\ queue' \in Seq(Entry)
    BY <1>5, <2>1, Join DEF ProbeOk, Waiting
  <2>3. TypeOK'  BY <1>5, <2>2 DEF ProbeOk, IInv, TypeOK, Goto, Phases, Entry
  <2>4. AttemptsBounded'  BY <1>5 DEF ProbeOk, IInv, TypeOK, AttemptsBounded, Goto
  <2>. QED  BY <2>2, <2>3, <2>4 DEF IInv
<1>6. CASE ProbeErr(c)
  <2>1. QueueInOrder'  BY <1>6, GoOn DEF ProbeErr, Waiting, Phases
  <2>2. TypeOK'  BY <1>6 DEF ProbeErr, IInv, TypeOK, Goto, Phases
  <2>3. AttemptsBounded'  BY <1>6 DEF ProbeErr, IInv, TypeOK, AttemptsBounded, Goto
  <2>. QED  BY <2>1, <2>2, <2>3 DEF IInv
<1>7. CASE Retry(c)
  <2>1. QueueInOrder'  BY <1>7, GoOn DEF Retry, Waiting, Phases
  <2>2. TypeOK'  BY <1>7 DEF Retry, IInv, TypeOK, Goto, Phases
  <2>3. AttemptsBounded'  BY <1>7 DEF Retry, IInv, TypeOK, AttemptsBounded, Goto
  <2>. QED  BY <2>1, <2>2, <2>3 DEF IInv
<1>. QED  BY <1>1, <1>2, <1>3, <1>4, <1>5, <1>6, <1>7 DEF Step

LEMMA LockKeeps ==
  ASSUME IInv, GrantRead \/ Replace
  PROVE  IInv'
<1>. DEFINE c == Head(queue).who
<1>. USE DEF lockVars, statVars, callVars
<1>1. queue # <<>>  BY DEF GrantRead, Replace
<1>2. c \in Callers /\ phase[c] \in Waiting  BY <1>1, HeadWaits
<1>3. attempts[c] < MaxAttempts
  BY <1>2 DEF IInv, AttemptsBounded, Waiting
<1>4. CASE GrantRead
  <2>1. QueueInOrder' /\ queue' \in Seq(Entry)
    BY <1>1, <1>4, Leave DEF GrantRead, Waiting, Phases
  <2>2. TypeOK'  BY <1>2, <1>4, <2>1 DEF GrantRead, IInv, TypeOK, Goto, Phases, Entry
  <2>3. AttemptsBounded'
    BY <1>2, <1>3, <1>4 DEF GrantRead, IInv, TypeOK, AttemptsBounded, Goto
  <2>. QED  BY <2>1, <2>2, <2>3 DEF IInv
<1>5. CASE Replace
  <2>1. QueueInOrder' /\ queue' \in Seq(Entry)
    <3>. DEFINE ph == IF op[c] = "force" THEN "idle" ELSE "count"
    <3>1. ph \in Phases \ Waiting  BY DEF Phases, Waiting
    <3>2. Goto(c, ph) /\ queue' = Tail(queue)  BY <1>5 DEF Replace
    <3>. QED  BY <1>1, <3>1, <3>2, Leave
  <2>2. TypeOK'  BY <1>2, <1>5, <2>1 DEF Replace, IInv, TypeOK, Goto, Phases, Entry
  <2>3. AttemptsBounded'
    BY <1>2, <1>3, <1>5 DEF Replace, IInv, TypeOK, AttemptsBounded, Goto
  <2>. QED  BY <2>1, <2>2, <2>3 DEF IInv
<1>. QED  BY <1>4, <1>5

LEMMA NextKeeps ==
  ASSUME IInv, [Next]_vars
  PROVE  IInv'
<1>. USE DEF lockVars, statVars, callVars
<1>1. CASE NodeFails \/ NodeRecovers
  BY <1>1 DEF NodeFails, NodeRecovers, IInv, TypeOK, QueueInOrder, AttemptsBounded
<1>2. CASE Start
  BY <1>2, BeginKeeps DEF Start, Callers, Ops, IInv, TypeOK
<1>3. ASSUME NEW c \in Others, NEW o \in Ops, Call(c, o) PROVE IInv'
  <2>1. calls' \in 0..MaxCalls  BY <1>3, RpcAssumption DEF Call, IInv, TypeOK
  <2>. QED  BY <1>3, <2>1, BeginKeeps DEF Call, Callers
<1>4. ASSUME NEW c \in Callers, Step(c) PROVE IInv'
  BY <1>4, StepKeeps
<1>5. CASE GrantRead \/ Replace  BY <1>5, LockKeeps
<1>6. CASE UNCHANGED vars
  BY <1>6 DEF vars, IInv, TypeOK, QueueInOrder, AttemptsBounded
<1>. QED  BY <1>1, <1>2, <1>3, <1>4, <1>5, <1>6 DEF Next

LEMMA InitKeeps == Init => IInv
BY RpcAssumption DEF Init, IInv, TypeOK, QueueInOrder, AttemptsBounded, Phases, Ops, Waiting

LEMMA Inductive == Spec => []IInv
<1>1. IInv /\ [Next]_vars => IInv'  BY NextKeeps
<1>. QED  BY <1>1, InitKeeps, PTL DEF Spec

(* Every variable keeps its type. *)
THEOREM TypeCorrect == Spec => []TypeOK
<1>1. IInv => TypeOK  BY DEF IInv
<1>. QED  BY <1>1, Inductive, PTL

(* However many callers share the client, a call has at most MaxAttempts    *)
(* failures: execute_with_retry gives up by itself.                        *)
THEOREM CallsGiveUp == Spec => []AttemptsBounded
<1>1. IInv => AttemptsBounded  BY DEF IInv
<1>. QED  BY <1>1, Inductive, PTL
-----------------------------------------------------------------------------
(* The read guards.  A forced reconnect never asks for one. *)

Guards ==
  /\ GuardsInOrder
  /\ \A c \in Callers :
       op[c] = "force" => phase[c] \in {"idle", "reconnect", "probe", "waitWrite"}

LEMMA GuardsStep ==
  ASSUME IInv, Guards, NEW c \in Callers, Step(c)
  PROVE  Guards'
<1>. USE DEF lockVars, statVars, callVars, Guards, GuardsInOrder, Holds, Goto
<1>1. /\ phase \in [Callers -> Phases] /\ op \in [Callers -> Ops]
      /\ readers \subseteq Callers
  BY DEF IInv, TypeOK
<1>2. CASE Count(c)  BY <1>1, <1>2 DEF Count
<1>3. CASE OperateOk(c)  BY <1>1, <1>3 DEF OperateOk, Return
<1>4. CASE OperateErr(c)
  <2>1. op' = op /\ op[c] # "force"  BY <1>4 DEF OperateErr
  <2>2. CASE attempts[c] + 1 >= MaxAttempts
    BY <1>1, <1>4, <2>1, <2>2 DEF OperateErr, Return
  <2>3. CASE ~(attempts[c] + 1 >= MaxAttempts)
    BY <1>1, <1>4, <2>1, <2>3 DEF OperateErr
  <2>. QED  BY <2>2, <2>3
<1>5. CASE Reconnect(c)  BY <1>1, <1>5 DEF Reconnect
<1>6. CASE ProbeOk(c)  BY <1>1, <1>6 DEF ProbeOk
<1>7. CASE ProbeErr(c)  BY <1>1, <1>7 DEF ProbeErr
<1>8. CASE Retry(c)  BY <1>1, <1>8 DEF Retry
<1>. QED  BY <1>2, <1>3, <1>4, <1>5, <1>6, <1>7, <1>8 DEF Step

LEMMA GuardsNext ==
  ASSUME IInv, Guards, [Next]_vars
  PROVE  Guards'
<1>. USE DEF lockVars, statVars, callVars
<1>1. /\ phase \in [Callers -> Phases] /\ op \in [Callers -> Ops]
      /\ readers \subseteq Callers
  BY DEF IInv, TypeOK
<1>2. CASE NodeFails \/ NodeRecovers
  BY <1>2 DEF NodeFails, NodeRecovers, Guards, GuardsInOrder, Holds
<1>3. ASSUME NEW c \in Callers, NEW o \in Ops, Begin(c, o) PROVE Guards'
  BY <1>1, <1>3 DEF Begin, Guards, GuardsInOrder, Holds, Goto
<1>4. CASE Start  BY <1>3, <1>4 DEF Start, Callers, Ops
<1>5. ASSUME NEW c \in Others, NEW o \in Ops, Call(c, o) PROVE Guards'
  BY <1>3, <1>5 DEF Call, Callers
<1>6. ASSUME NEW c \in Callers, Step(c) PROVE Guards'
  BY <1>6, GuardsStep
<1>7. CASE GrantRead
  <2>. DEFINE c == Head(queue).who
  <2>1. c \in Callers /\ phase[c] = "wait"
    BY <1>7, HeadWaits DEF GrantRead, WaitsFor
  <2>. QED  BY <1>1, <1>7, <2>1 DEF GrantRead, Guards, GuardsInOrder, Holds, Goto
<1>8. CASE Replace
  <2>. DEFINE c == Head(queue).who
  <2>1. c \in Callers /\ phase[c] = "waitWrite" /\ readers = {}
    BY <1>8, HeadWaits DEF Replace, WaitsFor
  <2>2. op[c] = "force"  BY <2>1 DEF Guards, GuardsInOrder, Holds
  <2>. QED  BY <1>1, <1>8, <2>1, <2>2 DEF Replace, Guards, GuardsInOrder, Holds, Goto
<1>9. CASE UNCHANGED vars
  BY <1>9 DEF vars, Guards, GuardsInOrder, Holds
<1>. QED  BY <1>2, <1>4, <1>5, <1>6, <1>7, <1>8, <1>9 DEF Next

LEMMA GuardsInductive == Spec => [](IInv /\ Guards)
<1>1. Init => Guards  BY DEF Init, Guards, GuardsInOrder, Holds
<1>2. IInv /\ Guards /\ [Next]_vars => Guards'  BY GuardsNext
<1>. QED  BY <1>1, <1>2, Inductive, PTL DEF Spec

(* One entry of the queue for who waits, none for who does not. *)
LEMMA EntriesCounted ==
  ASSUME IInv, NEW c \in Callers, NEW m \in {"read", "write"}
  PROVE  Cardinality({i \in 1..Len(queue) : queue[i] = [who |-> c, mode |-> m]})
           = (IF phase[c] = (IF m = "read" THEN "wait" ELSE "waitWrite") THEN 1 ELSE 0)
<1>. DEFINE N == {i \in 1..Len(queue) : queue[i] = [who |-> c, mode |-> m]}
<1>1. queue \in Seq(Entry)  BY DEF IInv, TypeOK, Entry
<1>2. \A i \in 1..Len(queue) : queue[i] \in Entry  BY <1>1
<1>3. CASE phase[c] = WaitsFor(m)
  <2>1. phase[c] \in Waiting  BY <1>3 DEF WaitsFor, Waiting
  <2>2. PICK i \in 1..Len(queue) : queue[i].who = c
    BY <2>1 DEF IInv, QueueInOrder
  <2>3. queue[i].mode = m
    BY <1>2, <1>3, <2>2 DEF IInv, QueueInOrder, WaitsFor, Entry
  <2>4. queue[i] = [who |-> c, mode |-> m]  BY <1>2, <2>2, <2>3 DEF Entry
  <2>5. N = {i}  BY <2>2, <2>4 DEF IInv, QueueInOrder
  <2>6. Cardinality(N) = 1  BY <2>5, FS_Singleton
  <2>. QED  BY <1>3, <2>6 DEF WaitsFor
<1>4. CASE phase[c] # WaitsFor(m)
  <2>1. N = {}  BY <1>4 DEF IInv, QueueInOrder
  <2>2. Cardinality(N) = 0  BY <2>1, FS_EmptySet
  <2>. QED  BY <1>4, <2>2 DEF WaitsFor
<1>. QED  BY <1>3, <1>4

(* The read guards held and the entries of the queue are those the phases   *)
(* of the callers call for.                                                *)
THEOREM LockInOrder == Spec => []LockDiscipline
<1>1. IInv /\ Guards => LockDiscipline
  BY EntriesCounted DEF Guards, GuardsInOrder, Holds, LockDiscipline
<1>. QED  BY <1>1, GuardsInductive, PTL

-----------------------------------------------------------------------------
(* The counters *)

UnderWay == {c \in Callers : phase[c] \in {"wait", "operate"}}

(* Counting a request puts its caller under way, an answer counts and takes *)
(* it off again, and a grant leaves it there.                              *)
LEMMA AccountsStep ==
  ASSUME IInv, Guards, RequestsAccounted, IsFiniteSet(Callers), [Next]_vars
  PROVE  RequestsAccounted'
<1>. USE DEF lockVars, statVars, callVars
<1>1. /\ phase \in [Callers -> Phases] /\ total \in Nat /\ failed \in Nat /\ succeeded \in Nat
      /\ total = succeeded + failed + Cardinality(UnderWay)
  BY DEF IInv, TypeOK, RequestsAccounted, UnderWay
<1>2. IsFiniteSet(UnderWay) /\ Cardinality(UnderWay) \in Nat
  BY FS_Subset, FS_CardinalityType DEF UnderWay
<1>3. ASSUME UNCHANGED <<total, failed, succeeded>>, UnderWay' = UnderWay
      PROVE  RequestsAccounted'
  BY <1>1, <1>3 DEF RequestsAccounted, UnderWay
<1>4. ASSUME NEW c \in Callers, NEW ph \in Phases, Goto(c, ph)
      PROVE  UnderWay' = IF ph \in {"wait", "operate"} THEN UnderWay \cup {c}
                                                        ELSE UnderWay \ {c}
  BY <1>1, <1>4 DEF Goto, UnderWay
<1>5. ASSUME NEW c \in Callers, NEW o \in Ops, Begin(c, o) PROVE RequestsAccounted'
  <2>1. \E ph \in Phases \ {"wait", "operate"} : Goto(c, ph)  BY <1>5 DEF Begin, Phases
  <2>2. c \notin UnderWay  BY <1>5 DEF Begin, UnderWay
  <2>. QED  BY <1>3, <1>4, <1>5, <2>1, <2>2 DEF Begin
<1>6. ASSUME NEW c \in Callers, Count(c) PROVE RequestsAccounted'
  <2>1. c \notin UnderWay /\ UnderWay' = UnderWay \cup {c}
    BY <1>4, <1>6 DEF Count, UnderWay, Phases
  <2>2. Cardinality(UnderWay') = Cardinality(UnderWay) + 1
    BY <1>2, <2>1, FS_AddElement
  <2>. QED  BY <1>1, <1>2, <1>6, <2>2 DEF Count, RequestsAccounted, UnderWay
<1>7. ASSUME NEW c \in Callers, OperateOk(c) \/ OperateErr(c) PROVE RequestsAccounted'
  <2>1. c \in UnderWay  BY <1>7 DEF OperateOk, OperateErr, UnderWay
  <2>2. \E ph \in Phases \ {"wait", "operate"} : Goto(c, ph)
    BY <1>7 DEF OperateOk, OperateErr, Return, Phases
  <2>3. UnderWay' = UnderWay \ {c}  BY <1>4, <2>2
  <2>4. Cardinality(UnderWay') = Cardinality(UnderWay) - 1
    BY <1>2, <2>1, <2>3, FS_RemoveElement
  <2>5. /\ total' = total
        /\ \/ succeeded' = succeeded + 1 /\ failed' = failed
           \/ succeeded' = succeeded /\ failed' = failed + 1
    <3>1. CASE OperateOk(c)  BY <3>1 DEF OperateOk
    <3>2. CASE OperateErr(c)  BY <3>2 DEF OperateErr
    <3>. QED  BY <1>7, <3>1, <3>2
  <2>6. total' = succeeded' + failed' + Cardinality(UnderWay')
    BY <1>1, <1>2, <2>4, <2>5
  <2>. QED  BY <2>6 DEF RequestsAccounted, UnderWay
<1>8. ASSUME NEW c \in Callers, Reconnect(c) \/ ProbeOk(c) \/ ProbeErr(c) \/ Retry(c)
      PROVE  RequestsAccounted'
  <2>1. c \notin UnderWay
    BY <1>8 DEF Reconnect, ProbeOk, ProbeErr, Retry, UnderWay
  <2>2. \E ph \in Phases \ {"wait", "operate"} : Goto(c, ph)
    BY <1>8 DEF Reconnect, ProbeOk, ProbeErr, Retry, Phases
  <2>3. UNCHANGED <<total, failed, succeeded>>
    BY <1>8 DEF Reconnect, ProbeOk, ProbeErr, Retry
  <2>. QED  BY <1>3, <1>4, <2>1, <2>2, <2>3
<1>9. CASE GrantRead
  <2>1. Head(queue).who \in Callers /\ Head(queue).who \in UnderWay
    BY <1>9, HeadWaits DEF GrantRead, WaitsFor, UnderWay
  <2>. QED  BY <1>3, <1>4, <1>9, <2>1 DEF GrantRead, Phases
<1>10. CASE Replace
  <2>. DEFINE ph == IF op[Head(queue).who] = "force" THEN "idle" ELSE "count"
  <2>1. Head(queue).who \in Callers /\ Head(queue).who \notin UnderWay
    BY <1>10, HeadWaits DEF Replace, WaitsFor, UnderWay
  <2>2. ph \in Phases \ {"wait", "operate"} /\ Goto(Head(queue).who, ph)
    BY <1>10 DEF Replace, Phases
  <2>. QED  BY <1>3, <1>4, <1>10, <2>1, <2>2 DEF Replace
<1>11. CASE NodeFails \/ NodeRecovers \/ UNCHANGED vars
  BY <1>3, <1>11 DEF NodeFails, NodeRecovers, vars, UnderWay
<1>12. CASE Start  BY <1>5, <1>12 DEF Start, Callers, Ops
<1>13. ASSUME NEW c \in Others, NEW o \in Ops, Call(c, o) PROVE RequestsAccounted'
  BY <1>5, <1>13 DEF Call, Callers
<1>. QED  BY <1>6, <1>7, <1>8, <1>9, <1>10, <1>11, <1>12, <1>13 DEF Next, Step

(* For any finite number of callers no request is lost from the statistics  *)
(* and none counted twice, though each counter is updated by itself.       *)
THEOREM StatisticsAddUp == IsFiniteSet(Callers) => (Spec => []RequestsAccounted)
<1>. SUFFICES ASSUME IsFiniteSet(Callers) PROVE Spec => []RequestsAccounted
  OBVIOUS
<1>1. Init => RequestsAccounted
  <2>. SUFFICES ASSUME Init PROVE RequestsAccounted
    OBVIOUS
  <2>1. UnderWay = {}  BY DEF Init, UnderWay
  <2>. QED  BY <2>1, FS_EmptySet DEF Init, RequestsAccounted, UnderWay
<1>2. IInv /\ Guards /\ RequestsAccounted /\ [Next]_vars => RequestsAccounted'
  BY AccountsStep
<1>. QED  BY <1>1, <1>2, GuardsInductive, PTL DEF Spec

(* A retrying call that asks for the write lock waits behind its own read   *)
(* guard: whatever the node, the other callers and the scheduler do, it     *)
(* waits for ever.  No fairness can help it.                               *)
THEOREM DeadlockIsFinal == Spec => StuckForEver
<1>1. IInv /\ Guards /\ Stuck /\ [Next]_vars => Stuck'
  <2>. SUFFICES ASSUME IInv, Guards, Stuck, [Next]_vars PROVE Stuck'
    OBVIOUS
  <2>. USE DEF lockVars, statVars, callVars
  <2>1. PICK c \in Callers : phase[c] = "waitWrite" /\ op[c] # "force"
    BY DEF Stuck
  <2>2. c \in readers  BY <2>1 DEF Guards, GuardsInOrder, Holds
  <2>3. SUFFICES phase'[c] = "waitWrite" /\ op'[c] = op[c]
    BY <2>1, <2>3 DEF Stuck
  <2>4. phase \in [Callers -> Phases] /\ op \in [Callers -> Ops]
    BY DEF IInv, TypeOK
  <2>5. ASSUME NEW d \in Callers, NEW o \in Ops, Begin(d, o)
        PROVE  phase'[c] = "waitWrite" /\ op'[c] = op[c]
    BY <2>1, <2>4, <2>5 DEF Begin, Goto
  <2>6. CASE Start  BY <2>5, <2>6 DEF Start, Callers, Ops
  <2>7. ASSUME NEW d \in Others, NEW o \in Ops, Call(d, o)
        PROVE  phase'[c] = "waitWrite" /\ op'[c] = op[c]
    BY <2>5, <2>7 DEF Call, Callers
  <2>8. ASSUME NEW d \in Callers, Step(d)
        PROVE  phase'[c] = "waitWrite" /\ op'[c] = op[c]
    <3>1. phase[d] # "waitWrite" /\ op' = op
      BY <2>8 DEF Step, Count, OperateOk, OperateErr, Reconnect, ProbeOk, ProbeErr, Retry
    <3>2. \E ph \in Phases : Goto(d, ph)
      BY <2>8 DEF Step, Count, OperateOk, OperateErr, Reconnect, ProbeOk, ProbeErr, Retry,
                  Return, Phases
    <3>. QED  BY <2>1, <2>4, <3>1, <3>2 DEF Goto
  <2>9. CASE GrantRead
    <3>1. Head(queue).who \in Callers /\ phase[Head(queue).who] = "wait"
      BY <2>9, HeadWaits DEF GrantRead, WaitsFor
    <3>. QED  BY <2>1, <2>4, <2>9, <3>1 DEF GrantRead, Goto
  <2>10. CASE Replace  BY <2>2, <2>10 DEF Replace
  <2>11. CASE NodeFails \/ NodeRecovers \/ UNCHANGED vars
    BY <2>1, <2>11 DEF NodeFails, NodeRecovers, vars
  <2>. QED  BY <2>6, <2>7, <2>8, <2>9, <2>10, <2>11 DEF Next
<1>2. IInv /\ Guards /\ [Next]_vars => (Stuck => Stuck')  BY <1>1
<1>. QED  BY <1>2, GuardsInductive, PTL DEF Spec, StuckForEver
=============================================================================
