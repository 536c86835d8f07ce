---------------------------- MODULE Subscriptions ----------------------------
(***************************************************************************)
(* The subscriptions of the K-line push service                            *)
(* (src/services/kline_socket.rs): SubscriptionManager, the Socket.IO      *)
(* handlers that change it, and the clean-up task.                         *)
(*                                                                         *)
(* Every handler spawns a task and returns, so the tasks of one socket run *)
(* in any order and interleave wherever they release the manager's lock.   *)
(* A task goes through steps, each one hold of the lock or one call of the *)
(* Socket.IO engine:                                                       *)
(*   connect:     register                                                 *)
(*   subscribe:   touch, add, join, confirm                                *)
(*   unsubscribe: remove, leave                                            *)
(*   history:     touch                                                    *)
(*   disconnect:  forget                                                   *)
(* The manager holds three descriptions of who listens to what: the set in *)
(* the client's record (subs, count), the index by mint and interval       *)
(* (mint_subscribers) and the reverse index (client_subscriptions).  The   *)
(* engine's rooms are a fourth, and the one broadcasts go by.              *)
(***************************************************************************)
EXTENDS Naturals, FiniteSets

CONSTANTS
  Sockets,     (* the sockets, one for each connection ever made          *)
  Keys,        (* mint:interval keys clients name                         *)
  Accepted,    (* those validate_subscribe_request accepts                *)
  Splittable,  (* those that split(':') takes back into mint and interval *)
  Limit,       (* the literal 100 of add_subscription                     *)
  Pipelined,   (* may a client send a request before the last is answered? *)
  Expiring,    (* may a client stay silent past connection_timeout?       *)
  MaxRequests  (* bound: requests sent                                    *)

ASSUME SubscriptionsAssumption ==
  /\ Accepted \subseteq Keys /\ Splittable \subseteq Keys
  /\ Limit \in Nat \ {0} /\ MaxRequests \in Nat
  /\ Pipelined \in BOOLEAN /\ Expiring \in BOOLEAN

VARIABLES
  \* the engine: connection state of each socket, members of each room
  socket, rooms,
  \* the tasks spawned and not over, and the requests sent so far
  tasks, sent,
  \* SubscriptionManager.connections: who is in it, each record's set and
  \* count, and whose last_activity is past the timeout
  registered, subs, count, expired,
  \* the index by mint and interval, and the reverse index
  mint_subscribers, client_subscriptions,
  \* the clean-up task: the clients it found inactive
  doomed,
  \* the subscriptions a client has been told it holds
  confirmed

engineVars  == <<socket, rooms>>
indexVars   == <<mint_subscribers, client_subscriptions>>
managerVars == <<registered, subs, count, expired, indexVars>>
vars == <<engineVars, tasks, sent, managerVars, doomed, confirmed>>

-----------------------------------------------------------------------------
Steps == {"register", "touch", "add", "join", "confirm", "remove", "leave",
          "touchOnly", "forget"}
NoKey == "none"
Keyless == {"register", "touchOnly", "forget"}
Task == {t \in [sock : Sockets, step : Steps, key : Keys \cup {NoKey}, id : Nat] :
           t.step \notin Keyless => t.key \in Keys}

Init ==
  /\ socket = [s \in Sockets |-> "new"] /\ rooms = {}
  /\ tasks = {} /\ sent = 0
  /\ registered = {} /\ expired = {}
  /\ subs = [s \in Sockets |-> {}] /\ count = [s \in Sockets |-> 0]
  /\ mint_subscribers = {}
  /\ client_subscriptions = [s \in Sockets |-> {}]
  /\ doomed = {}
  /\ confirmed = {}

-----------------------------------------------------------------------------
(* The manager.  Definitions named ..Faulty.. are variants with a slip that a *)
(* property must notice; they are not part of the specification.           *)

(* A client that is not there is refused, and so is one at the limit, also *)
(* when it asks for a key it already holds.                                *)
CanAdd(s) == s \in registered /\ count[s] < Limit

AddSubscription(s, k) ==
  /\ expired' = expired \ {s}
  /\ IF k \in subs[s]
       THEN UNCHANGED <<subs, count, indexVars>>
       ELSE /\ subs' = [subs EXCEPT ![s] = @ \cup {k}]
            /\ count' = [count EXCEPT ![s] = @ + 1]
            /\ mint_subscribers' = mint_subscribers \cup {<<k, s>>}
            /\ client_subscriptions' = [client_subscriptions EXCEPT ![s] = @ \cup {k}]
  /\ UNCHANGED registered

(* The index is pruned of sets left empty: a set of pairs holds none. *)
RemoveSubscriptionFaulty(s, k) ==   \* the count drops for a key not held
  /\ expired' = expired \ {s}
  /\ subs' = [subs EXCEPT ![s] = @ \ {k}]
  /\ count' = [count EXCEPT ![s] = IF @ > 0 THEN @ - 1 ELSE @]
  /\ mint_subscribers' = mint_subscribers \ {<<k, s>>}
  /\ client_subscriptions' = [client_subscriptions EXCEPT ![s] = @ \ {k}]
  /\ UNCHANGED registered
RemoveSubscription(s, k) ==
  /\ expired' = expired \ {s}
  /\ subs' = [subs EXCEPT ![s] = @ \ {k}]
  /\ count' = [count EXCEPT ![s] = IF k \in subs[s] /\ @ > 0 THEN @ - 1 ELSE @]
  /\ mint_subscribers' = mint_subscribers \ {<<k, s>>}
  /\ client_subscriptions' = [client_subscriptions EXCEPT ![s] = @ \ {k}]
  /\ UNCHANGED registered

(* remove_client finds the index entries to drop by splitting the keys of  *)
(* the reverse index.                                                      *)
RemoveClientsFaultyClock(D) ==   \* the activity of a removed client is kept
  /\ registered' = registered \ D
  /\ expired' = expired
  /\ subs' = [s \in Sockets |-> IF s \in D THEN {} ELSE subs[s]]
  /\ count' = [s \in Sockets |-> IF s \in D THEN 0 ELSE count[s]]
  /\ mint_subscribers' =
       {e \in mint_subscribers :
          ~(e[2] \in D /\ e[1] \in client_subscriptions[e[2]] /\ e[1] \in Splittable)}
  /\ client_subscriptions' =
       [s \in Sockets |-> IF s \in D THEN {} ELSE client_subscriptions[s]]
RemoveClientsFaultyIndex(D) ==   \* the index is cleared after the reverse index
  /\ registered' = registered \ D
  /\ expired' = expired \ D
  /\ subs' = [s \in Sockets |-> IF s \in D THEN {} ELSE subs[s]]
  /\ count' = [s \in Sockets |-> IF s \in D THEN 0 ELSE count[s]]
  /\ client_subscriptions' =
       [s \in Sockets |-> IF s \in D THEN {} ELSE client_subscriptions[s]]
  /\ mint_subscribers' =
       {e \in mint_subscribers : ~(e[2] \in D /\ e[1] \in client_subscriptions'[e[2]])}
RemoveClients(D) ==
  /\ registered' = registered \ D
  /\ expired' = expired \ D
  /\ subs' = [s \in Sockets |-> IF s \in D THEN {} ELSE subs[s]]
  /\ count' = [s \in Sockets |-> IF s \in D THEN 0 ELSE count[s]]
  /\ mint_subscribers' =
       {e \in mint_subscribers :
          ~(e[2] \in D /\ e[1] \in client_subscriptions[e[2]] /\ e[1] \in Splittable)}
  /\ client_subscriptions' =
       [s \in Sockets |-> IF s \in D THEN {} ELSE client_subscriptions[s]]

-----------------------------------------------------------------------------
(* The clients.  Each request is a message that spawns a task. *)

Spawn(s, step, k) ==
  tasks' = tasks \cup {[sock |-> s, step |-> step, key |-> k,
                         id |-> IF Pipelined THEN sent ELSE 0]}

Goto(t, step) == tasks' = (tasks \ {t}) \cup {[t EXCEPT !.step = step]}
End(t) == tasks' = tasks \ {t}

Connect(s) ==
  /\ socket[s] = "new"
  /\ socket' = [socket EXCEPT ![s] = "open"]
  /\ Spawn(s, "register", NoKey)
  /\ UNCHANGED <<rooms, sent, managerVars, doomed, confirmed>>

Answered(s) ==
  socket[s] = "open" /\ ~\E t \in tasks : t.sock = s /\ t.step \notin {"register", "forget"}

Request(s) ==
  /\ socket[s] = "open"
  /\ sent < MaxRequests /\ sent' = sent + 1
  /\ Pipelined \/ Answered(s)

Subscribe(s, k) ==
  /\ Request(s)
  /\ Spawn(s, "touch", k)
  /\ UNCHANGED <<engineVars, managerVars, doomed, confirmed>>

Unsubscribe(s, k) ==
  /\ Request(s)
  /\ Spawn(s, "remove", k)
  /\ confirmed' = confirmed \ {<<k, s>>}
  /\ UNCHANGED <<engineVars, managerVars, doomed>>

History(s) ==
  /\ Request(s)
  /\ Spawn(s, "touchOnly", NoKey)
  /\ UNCHANGED <<engineVars, managerVars, doomed, confirmed>>

(* The engine takes a closed socket out of its rooms. *)
Disconnect(s) ==
  /\ socket[s] = "open"
  /\ socket' = [socket EXCEPT ![s] = "closed"]
  /\ rooms' = {r \in rooms : r[2] # s}
  /\ confirmed' = {c \in confirmed : c[2] # s}
  /\ Spawn(s, "forget", NoKey)
  /\ UNCHANGED <<sent, managerVars, doomed>>

-----------------------------------------------------------------------------
(* The tasks *)

Register(t) ==
  /\ t.step = "register"
  /\ registered' = registered \cup {t.sock}
  /\ expired' = expired \ {t.sock}
  /\ subs' = [subs EXCEPT ![t.sock] = {}]
  /\ count' = [count EXCEPT ![t.sock] = 0]
  /\ End(t)
  /\ UNCHANGED <<engineVars, sent, indexVars, doomed, confirmed>>

(* update_activity, then the request is validated. *)
Touch(t) ==
  /\ t.step \in {"touch", "touchOnly"}
  /\ expired' = expired \ {t.sock}
  /\ IF t.step = "touch" /\ t.key \in Accepted THEN Goto(t, "add") ELSE End(t)
  /\ UNCHANGED <<engineVars, sent, registered, subs, count, indexVars, doomed, confirmed>>

AddFaulty(t) ==   \* the room is never joined
  /\ t.step = "add"
  /\ IF CanAdd(t.sock)
       THEN AddSubscription(t.sock, t.key) /\ Goto(t, "confirm")
       ELSE End(t) /\ UNCHANGED managerVars
  /\ UNCHANGED <<engineVars, sent, doomed, confirmed>>
Add(t) ==
  /\ t.step = "add"
  /\ IF CanAdd(t.sock)
       THEN AddSubscription(t.sock, t.key) /\ Goto(t, "join")
       ELSE End(t) /\ UNCHANGED managerVars
  /\ UNCHANGED <<engineVars, sent, doomed, confirmed>>

(* Whether a closed socket can still enter a room is the engine's affair. *)
Join(t) ==
  /\ t.step = "join"
  /\ \/ rooms' = rooms \cup {<<t.key, t.sock>>}
     \/ socket[t.sock] = "closed" /\ rooms' = rooms
  /\ Goto(t, "confirm")
  /\ UNCHANGED <<socket, sent, managerVars, doomed, confirmed>>

(* The history is sent, and the client told. *)
Confirm(t) ==
  /\ t.step = "confirm"
  /\ confirmed' = IF socket[t.sock] = "open"
                    THEN confirmed \cup {<<t.key, t.sock>>} ELSE confirmed
  /\ End(t)
  /\ UNCHANGED <<engineVars, sent, managerVars, doomed>>

Remove(t) ==
  /\ t.step = "remove"
  /\ RemoveSubscription(t.sock, t.key)
  /\ Goto(t, "leave")
  /\ UNCHANGED <<engineVars, sent, doomed, confirmed>>

Leave(t) ==
  /\ t.step = "leave"
  /\ rooms' = rooms \ {<<t.key, t.sock>>}
  /\ End(t)
  /\ UNCHANGED <<socket, sent, managerVars, doomed, confirmed>>

Forget(t) ==
  /\ t.step = "forget"
  /\ RemoveClients({t.sock})
  /\ End(t)
  /\ UNCHANGED <<engineVars, sent, doomed, confirmed>>

Run(t) ==
  \/ Register(t) \/ Touch(t) \/ Add(t) \/ Join(t) \/ Confirm(t)
  \/ Remove(t) \/ Leave(t) \/ Forget(t)

-----------------------------------------------------------------------------
(* connection_timeout passes since the last request of a client. *)
Expire(s) ==
  /\ Expiring
  /\ s \in registered \ expired
  /\ expired' = expired \cup {s}
  /\ UNCHANGED <<engineVars, tasks, sent, registered, subs, count, indexVars,
                 doomed, confirmed>>

(* The clean-up task lists the inactive clients under the read lock ...    *)
FindInactiveFaulty ==   \* only clients that hold subscriptions
  /\ doomed = {} /\ {s \in expired : subs[s] # {}} # {}
  /\ doomed' = {s \in expired : subs[s] # {}}
  /\ UNCHANGED <<engineVars, tasks, sent, managerVars, confirmed>>
FindInactive ==
  /\ doomed = {} /\ expired # {}
  /\ doomed' = expired
  /\ UNCHANGED <<engineVars, tasks, sent, managerVars, confirmed>>

(* ... and removes them under the write lock, without looking again. *)
RemoveInactive ==
  /\ doomed # {}
  /\ RemoveClients(doomed)
  /\ doomed' = {}
  /\ UNCHANGED <<engineVars, tasks, sent, confirmed>>

-----------------------------------------------------------------------------
Client ==
  \E s \in Sockets :
    \/ Connect(s) \/ Disconnect(s) \/ History(s)
    \/ \E k \in Keys : Subscribe(s, k) \/ Unsubscribe(s, k)

Next ==
  \/ Client
  \/ \E t \in tasks : Run(t)
  \/ \E s \in Sockets : Expire(s)
  \/ FindInactive \/ RemoveInactive

Spec == Init /\ [][Next]_vars

(* Spawned tasks get to run, the clean-up task wakes every 30 seconds, and  *)
(* time passes.                                                            *)
FairSpec ==
  /\ Spec
  /\ WF_vars(\E t \in tasks : Run(t))
  /\ \A s \in Sockets : WF_vars(Expire(s))
  /\ WF_vars(FindInactive) /\ WF_vars(RemoveInactive)

-----------------------------------------------------------------------------
(* Types of every variable; a client without a record has no set or count. *)
TypeOK ==
  /\ socket \in [Sockets -> {"new", "open", "closed"}]
  /\ rooms \subseteq Keys \X Sockets
  /\ tasks \subseteq Task /\ sent \in 0..MaxRequests
  /\ registered \subseteq Sockets /\ expired \subseteq registered
  /\ subs \in [Sockets -> SUBSET Keys] /\ count \in [Sockets -> Nat]
  /\ mint_subscribers \subseteq Keys \X Sockets
  /\ client_subscriptions \in [Sockets -> SUBSET Keys]
  /\ doomed \subseteq Sockets
  /\ confirmed \subseteq Keys \X Sockets

(* The descriptions of the subscriptions agree at every moment, although    *)
(* the manager's methods update them one after the other: the reverse index *)
(* is the clients' sets, each subscription is in the index, and the index   *)
(* holds nothing else, but for keys with a colon too many.  Validation lets *)
(* them pass (any symbol of 32 to 44 characters), and remove_client, which  *)
(* splits keys at colons, leaves the index entries of these in place.       *)
IndexesAgree ==
  /\ client_subscriptions = subs
  /\ \A s \in Sockets : \A k \in subs[s] : <<k, s>> \in mint_subscribers
  /\ \A e \in mint_subscribers : e[1] \in Splittable => e[1] \in subs[e[2]]

(* The count kept beside a client's set is the size of the set, so the      *)
(* limit on the count limits the set, and who has no record holds nothing. *)
CountExact ==
  \A s \in Sockets :
    /\ count[s] = Cardinality(subs[s]) /\ count[s] <= Limit
    /\ s \notin registered => subs[s] = {}

(* A client that awaits each answer and was told it holds a subscription    *)
(* receives the broadcasts of the key, and so does each subscriber on the   *)
(* books: joining the room is not done under the manager's lock.           *)
SubscribersInRooms ==
  /\ confirmed \subseteq rooms
  /\ \A s \in Sockets : Answered(s) => subs[s] \X {s} \subseteq rooms

(* An open, answered client receives the broadcasts of exactly the keys the *)
(* manager lists for it.                                                   *)
RoomsFollowSubscriptions ==
  \A s \in Sockets : Answered(s) => {r \in rooms : r[2] = s} = subs[s] \X {s}

(* Whatever the order its tasks run in, a client that disconnected is in    *)
(* the end off the books for good, and out of the index but for keys that   *)
(* do not split in two: a task that outlives the removal can put it back,   *)
(* and then the clean-up task must find it.                                *)
ClosedForgotten ==
  \A s \in Sockets :
    socket[s] = "closed" ~>
      []( /\ s \notin registered
          /\ \A e \in mint_subscribers : e[1] \in Splittable => e[2] # s)
=============================================================================
