------------------------- MODULE SubscriptionsProofs -------------------------
(* Theorems of Subscriptions for every value of its constants. *)
EXTENDS Subscriptions, TLAPS, FiniteSetTheorems

-----------------------------------------------------------------------------
(* Type correctness *)

LEMMA SpawnType ==
  ASSUME TypeOK, NEW s \in Sockets, NEW step \in Steps, NEW k \in Keys \cup {NoKey},
         step \in Keyless \/ k \in Keys, Spawn(s, step, k)
  PROVE  tasks' \subseteq Task
<1>1. sent \in Nat  BY SubscriptionsAssumption DEF TypeOK
<1>. QED  BY <1>1 DEF TypeOK, Spawn, Task

LEMMA GotoType ==
  ASSUME TypeOK, NEW t \in tasks, NEW step \in Steps, t.step \notin Keyless,
         Goto(t, step)
  PROVE  tasks' \subseteq Task
<1>1. t \in Task  BY DEF TypeOK
<1>2. [t EXCEPT !.step = step] \in Task  BY <1>1 DEF Task
<1>. QED  BY <1>2 DEF TypeOK, Goto

LEMMA RemoveClientsType ==
  ASSUME TypeOK, NEW D \in SUBSET Sockets, RemoveClients(D)
  PROVE  /\ registered' \subseteq Sockets /\ expired' \subseteq registered'
         /\ subs' \in [Sockets -> SUBSET Keys] /\ count' \in [Sockets -> Nat]
         /\ mint_subscribers' \subseteq Keys \X Sockets
         /\ client_subscriptions' \in [Sockets -> SUBSET Keys]
BY DEF TypeOK, RemoveClients

LEMMA ClientType ==
  ASSUME TypeOK, Client
  PROVE  TypeOK'
<1>. USE DEF engineVars, indexVars, managerVars
<1>1. PICK s \in Sockets :
        \/ Connect(s) \/ Disconnect(s) \/ History(s)
        \/ \E k \in Keys : Subscribe(s, k) \/ Unsubscribe(s, k)
  BY DEF Client
<1>2. sent + 1 \in Nat /\ (Request(s) => sent' \in 0..MaxRequests)
  BY SubscriptionsAssumption DEF TypeOK, Request
<1>3. CASE Connect(s)
  <2>1. tasks' \subseteq Task  BY <1>3, SpawnType DEF Connect, Steps, Keyless
  <2>. QED  BY <1>3, <2>1 DEF Connect, TypeOK
<1>4. CASE Disconnect(s)
  <2>1. tasks' \subseteq Task  BY <1>4, SpawnType DEF Disconnect, Steps, Keyless
  <2>. QED  BY <1>4, <2>1 DEF Disconnect, TypeOK
<1>5. CASE History(s)
  <2>1. tasks' \subseteq Task  BY <1>5, SpawnType DEF History, Steps, Keyless
  <2>. QED  BY <1>2, <1>5, <2>1 DEF History, TypeOK
<1>6. ASSUME NEW k \in Keys, Subscribe(s, k) PROVE TypeOK'
  <2>1. tasks' \subseteq Task  BY <1>6, SpawnType DEF Subscribe, Steps
  <2>. QED  BY <1>2, <1>6, <2>1 DEF Subscribe, TypeOK
<1>7. ASSUME NEW k \in Keys, Unsubscribe(s, k) PROVE TypeOK'
  <2>1. tasks' \subseteq Task  BY <1>7, SpawnType DEF Unsubscribe, Steps
  <2>. QED  BY <1>2, <1>7, <2>1 DEF Unsubscribe, TypeOK
<1>. QED  BY <1>1, <1>3, <1>4, <1>5, <1>6, <1>7

LEMMA RunType ==
  ASSUME TypeOK, NEW t \in tasks, Run(t)
  PROVE  TypeOK'
<1>. USE DEF engineVars, indexVars, managerVars
<1>1. /\ t \in Task /\ t.sock \in Sockets
      /\ t.step \notin Keyless => t.key \in Keys
  BY DEF TypeOK, Task
<1>2. End(t) => tasks' \subseteq Task  BY DEF TypeOK, End
<1>3. CASE Register(t)
  BY <1>1, <1>2, <1>3 DEF Register, TypeOK
<1>4. CASE Touch(t)
  <2>1. tasks' \subseteq Task
    BY <1>2, <1>4, GotoType DEF Touch, Steps, Keyless
  <2>. QED  BY <1>4, <2>1 DEF Touch, TypeOK
<1>5. CASE Add(t)
  <2>1. t.step \notin Keyless /\ t.key \in Keys  BY <1>1, <1>5 DEF Add, Keyless
  <2>2. tasks' \subseteq Task
    BY <1>2, <1>5, <2>1, GotoType DEF Add, Steps
  <2>. QED  BY <1>1, <1>5, <2>1, <2>2 DEF Add, AddSubscription, TypeOK
<1>6. CASE Join(t)
  <2>1. t.step \notin Keyless /\ t.key \in Keys  BY <1>1, <1>6 DEF Join, Keyless
  <2>2. tasks' \subseteq Task  BY <1>6, <2>1, GotoType DEF Join, Steps
  <2>. QED  BY <1>1, <1>6, <2>1, <2>2 DEF Join, TypeOK
<1>7. CASE Confirm(t)
  <2>1. t.key \in Keys  BY <1>1, <1>7 DEF Confirm, Keyless
  <2>. QED  BY <1>1, <1>2, <1>7, <2>1 DEF Confirm, TypeOK
<1>8. CASE Remove(t)
  <2>1. t.step \notin Keyless /\ t.key \in Keys  BY <1>1, <1>8 DEF Remove, Keyless
  <2>2. tasks' \subseteq Task  BY <1>8, <2>1, GotoType DEF Remove, Steps
  <2>3. count' \in [Sockets -> Nat]
    BY <1>1, <1>8 DEF Remove, RemoveSubscription, TypeOK
  <2>. QED  BY <1>1, <1>8, <2>1, <2>2, <2>3 DEF Remove, RemoveSubscription, TypeOK
<1>9. CASE Leave(t)
  BY <1>2, <1>9 DEF Leave, TypeOK
<1>10. CASE Forget(t)
  BY <1>1, <1>2, <1>10, RemoveClientsType DEF Forget, TypeOK
<1>. QED  BY <1>3, <1>4, <1>5, <1>6, <1>7, <1>8, <1>9, <1>10 DEF Run

(* Every variable keeps its type. *)
THEOREM TypeCorrect == Spec => []TypeOK
<1>1. Init => TypeOK
  BY SubscriptionsAssumption DEF Init, TypeOK
<1>2. TypeOK /\ [Next]_vars => TypeOK'
  <2>. SUFFICES ASSUME TypeOK, [Next]_vars PROVE TypeOK'
    OBVIOUS
  <2>. USE DEF engineVars, indexVars, managerVars
  <2>1. CASE Client  BY <2>1, ClientType
  <2>2. ASSUME NEW t \in tasks, Run(t) PROVE TypeOK'
    BY <2>2, RunType
  <2>3. ASSUME NEW s \in Sockets, Expire(s) PROVE TypeOK'
    BY <2>3 DEF Expire, TypeOK
  <2>4. CASE FindInactive  BY <2>4 DEF FindInactive, TypeOK
  <2>5. CASE RemoveInactive
    BY <2>5, RemoveClientsType DEF RemoveInactive, TypeOK
  <2>6. CASE UNCHANGED vars  BY <2>6 DEF vars, TypeOK
  <2>. QED  BY <2>1, <2>2, <2>3, <2>4, <2>5, <2>6 DEF Next
<1>. QED  BY <1>1, <1>2, PTL DEF Spec

-----------------------------------------------------------------------------
(* The books: what AddSubscription, RemoveSubscription and RemoveClients    *)
(* keep in order.                                                          *)
Books ==
  /\ IndexesAgree
  /\ \A s \in Sockets : IsFiniteSet(subs[s])
  /\ CountExact

(* A record is put in place with an empty set, which is only right because  *)
(* each socket registers once; that is what the last three conjuncts say.  *)
IndexInv ==
  /\ Books
  /\ \A t \in tasks : t.step = "register" =>
        t.sock \notin registered /\ socket[t.sock] # "new"
  /\ \A t, u \in tasks : t.step = "register" /\ u.step = "register" /\ t.sock = u.sock
                            => t = u
  /\ \A s \in Sockets : socket[s] = "new" => s \notin registered

LEMMA AddBooks ==
  ASSUME TypeOK, Books, NEW s \in Sockets, NEW k \in Keys, CanAdd(s), AddSubscription(s, k)
  PROVE  Books'
<1>. USE DEF indexVars
<1>1. CASE k \in subs[s]
  BY <1>1 DEF AddSubscription, Books, IndexesAgree, CountExact
<1>2. CASE k \notin subs[s]
  <2>1. /\ subs' = [subs EXCEPT ![s] = @ \cup {k}]
        /\ count' = [count EXCEPT ![s] = @ + 1]
        /\ client_subscriptions' = [client_subscriptions EXCEPT ![s] = @ \cup {k}]
        /\ mint_subscribers' = mint_subscribers \cup {<<k, s>>}
        /\ registered' = registered
    BY <1>2 DEF AddSubscription
  <2>2. IndexesAgree'
    BY <2>1 DEF Books, IndexesAgree, TypeOK
  <2>3. ASSUME NEW r \in Sockets
        PROVE  /\ IsFiniteSet(subs'[r])
               /\ count'[r] = Cardinality(subs'[r]) /\ count'[r] <= Limit
               /\ r \notin registered' => subs'[r] = {}
    <3>1. CASE r = s
      <4>1. subs'[s] = subs[s] \cup {k} /\ count'[s] = count[s] + 1
        BY <2>1 DEF TypeOK
      <4>2. IsFiniteSet(subs[s]) /\ count[s] = Cardinality(subs[s])
        BY DEF Books, CountExact
      <4>3. IsFiniteSet(subs'[s]) /\ Cardinality(subs'[s]) = Cardinality(subs[s]) + 1
        BY <1>2, <4>1, <4>2, FS_AddElement
      <4>4. count[s] < Limit /\ count[s] \in Nat /\ s \in registered'
        BY <2>1 DEF CanAdd, TypeOK
      <4>. QED  BY <3>1, <4>1, <4>2, <4>3, <4>4, SubscriptionsAssumption
    <3>2. CASE r # s
      BY <2>1, <3>2 DEF Books, CountExact, TypeOK
    <3>. QED  BY <3>1, <3>2
  <2>. QED  BY <2>2, <2>3 DEF Books, CountExact
<1>. QED  BY <1>1, <1>2

LEMMA RemoveBooks ==
  ASSUME TypeOK, Books, NEW s \in Sockets, NEW k \in Keys, RemoveSubscription(s, k)
  PROVE  Books'
<1>1. /\ subs' = [subs EXCEPT ![s] = @ \ {k}]
      /\ client_subscriptions' = [client_subscriptions EXCEPT ![s] = @ \ {k}]
      /\ mint_subscribers' = mint_subscribers \ {<<k, s>>}
      /\ registered' = registered
  BY DEF RemoveSubscription
<1>2. IndexesAgree'
  BY <1>1 DEF Books, IndexesAgree, TypeOK
<1>3. ASSUME NEW r \in Sockets
      PROVE  /\ IsFiniteSet(subs'[r])
             /\ count'[r] = Cardinality(subs'[r]) /\ count'[r] <= Limit
             /\ r \notin registered' => subs'[r] = {}
  <2>1. CASE r = s
    <3>1. /\ subs'[s] = subs[s] \ {k}
          /\ count'[s] = IF k \in subs[s] /\ count[s] > 0 THEN count[s] - 1 ELSE count[s]
      BY <1>1 DEF RemoveSubscription, TypeOK
    <3>2. /\ IsFiniteSet(subs[s]) /\ count[s] = Cardinality(subs[s]) /\ count[s] <= Limit
          /\ s \notin registered => subs[s] = {}
      BY DEF Books, CountExact
    <3>3. /\ IsFiniteSet(subs'[s])
          /\ Cardinality(subs'[s]) = IF k \in subs[s] THEN Cardinality(subs[s]) - 1
                                                      ELSE Cardinality(subs[s])
      <4>. DEFINE S == subs[s]
      <4>1. IsFiniteSet(S)  BY <3>2
      <4>. HIDE DEF S
      <4>2. /\ IsFiniteSet(S \ {k})
            /\ Cardinality(S \ {k}) = IF k \in S THEN Cardinality(S) - 1 ELSE Cardinality(S)
        BY <4>1, FS_RemoveElement
      <4>. QED  BY <3>1, <4>2 DEF S
    <3>4. k \in subs[s] => count[s] # 0
      BY <3>2, FS_EmptySet
    <3>5. count[s] \in Nat  BY DEF TypeOK
    <3>. QED  BY <1>1, <2>1, <3>1, <3>2, <3>3, <3>4, <3>5, SubscriptionsAssumption
  <2>2. CASE r # s
    BY <1>1, <2>2 DEF Books, CountExact, RemoveSubscription, TypeOK
  <2>. QED  BY <2>1, <2>2
<1>. QED  BY <1>2, <1>3 DEF Books, CountExact

LEMMA ForgetBooks ==
  ASSUME TypeOK, Books, NEW D \in SUBSET Sockets, RemoveClients(D)
  PROVE  Books'
<1>1. IndexesAgree'
  BY DEF Books, IndexesAgree, RemoveClients, TypeOK
<1>2. ASSUME NEW r \in Sockets
      PROVE  /\ IsFiniteSet(subs'[r])
             /\ count'[r] = Cardinality(subs'[r]) /\ count'[r] <= Limit
             /\ r \notin registered' => subs'[r] = {}
  <2>1. CASE r \in D
    BY <2>1, FS_EmptySet, SubscriptionsAssumption DEF RemoveClients
  <2>2. CASE r \notin D
    BY <2>2 DEF RemoveClients, Books, CountExact
  <2>. QED  BY <2>1, <2>2
<1>. QED  BY <1>1, <1>2 DEF Books, CountExact

(* A step that leaves the books alone or keeps them in order, spawns no     *)
(* second registration and registers nobody.                               *)
LEMMA StepIndex ==
  ASSUME TypeOK, IndexInv, Books', registered' \subseteq registered,
         UNCHANGED socket,
         \A t \in tasks' : t.step = "register" => t \in tasks
  PROVE  IndexInv'
BY DEF IndexInv, Books

LEMMA IndexStep ==
  ASSUME TypeOK, IndexInv, [Next]_vars
  PROVE  IndexInv'
<1>. USE DEF engineVars, indexVars, managerVars
<1>0. Books  BY DEF IndexInv
<1>1. UNCHANGED managerVars => Books'
  BY <1>0 DEF Books, IndexesAgree, CountExact
<1>2. UNCHANGED <<registered, subs, count, indexVars>> => Books'
  BY <1>0 DEF Books, IndexesAgree, CountExact
<1>3. ASSUME NEW s \in Sockets, Connect(s) PROVE IndexInv'
  <2>1. tasks' = tasks \cup {[sock |-> s, step |-> "register", key |-> NoKey,
                             id |-> IF Pipelined THEN sent ELSE 0]}
    BY <1>3 DEF Connect, Spawn
  <2>2. s \notin registered /\ \A t \in tasks : t.step = "register" => t.sock # s
    BY <1>3 DEF Connect, IndexInv
  <2>3. /\ UNCHANGED <<registered, managerVars>>
        /\ socket'[s] = "open" /\ \A r \in Sockets : r # s => socket'[r] = socket[r]
    BY <1>3 DEF Connect, TypeOK
  <2>4. \A t \in tasks : t.sock \in Sockets  BY DEF TypeOK, Task
  <2>5. \A t \in tasks' : t.step = "register" =>
          t.sock \notin registered' /\ socket'[t.sock] # "new"
    BY <2>1, <2>2, <2>3, <2>4 DEF IndexInv
  <2>6. \A t, u \in tasks' : t.step = "register" /\ u.step = "register" /\ t.sock = u.sock
                               => t = u
    BY <2>1, <2>2 DEF IndexInv
  <2>7. \A r \in Sockets : socket'[r] = "new" => r \notin registered'
    BY <2>3 DEF IndexInv
  <2>8. Books'  BY <1>1, <2>3
  <2>. QED  BY <2>5, <2>6, <2>7, <2>8 DEF IndexInv, Books
<1>4. ASSUME NEW s \in Sockets, Disconnect(s) PROVE IndexInv'
  <2>1. \A t \in tasks' : t.step = "register" => t \in tasks
    BY <1>4 DEF Disconnect, Spawn
  <2>2. /\ UNCHANGED managerVars
        /\ \A r \in Sockets : socket'[r] = "new" => socket[r] = "new"
    BY <1>4 DEF Disconnect, TypeOK
  <2>3. \A t \in tasks : t.sock \in Sockets  BY DEF TypeOK, Task
  <2>. QED  BY <1>1, <2>1, <2>2, <2>3 DEF IndexInv, Books
<1>5. ASSUME NEW s \in Sockets, NEW k \in Keys,
             Subscribe(s, k) \/ Unsubscribe(s, k) \/ History(s)
      PROVE  IndexInv'
  <2>1. \A t \in tasks' : t.step = "register" => t \in tasks
    BY <1>5 DEF Subscribe, Unsubscribe, History, Spawn
  <2>. QED  BY <1>1, <1>5, <2>1, StepIndex DEF Subscribe, Unsubscribe, History
<1>6. ASSUME NEW s \in Sockets, History(s) PROVE IndexInv'
  <2>1. \A t \in tasks' : t.step = "register" => t \in tasks
    BY <1>6 DEF History, Spawn
  <2>. QED  BY <1>1, <1>6, <2>1, StepIndex DEF History
<1>7. ASSUME NEW t \in tasks, Register(t) PROVE IndexInv'
  <2>1. t.sock \in Sockets  BY DEF TypeOK, Task
  <2>2. t.sock \notin registered /\ socket[t.sock] # "new"
    BY <1>7 DEF Register, IndexInv
  <2>3. subs[t.sock] = {} /\ count[t.sock] = 0
    BY <2>1, <2>2, FS_EmptySet DEF IndexInv, Books, CountExact
  <2>4. UNCHANGED <<subs, count, indexVars, socket>> /\ registered' = registered \cup {t.sock}
    BY <1>7, <2>3 DEF Register, TypeOK
  <2>5. Books'  BY <1>0, <2>4 DEF Books, IndexesAgree, CountExact
  <2>6. tasks' = tasks \ {t}  BY <1>7 DEF Register, End
  <2>7. \A u \in tasks' : u.step = "register" => u.sock # t.sock
    BY <1>7, <2>6 DEF Register, IndexInv
  <2>. QED  BY <2>2, <2>4, <2>5, <2>6, <2>7 DEF IndexInv, Books
<1>8. ASSUME NEW t \in tasks, NEW step \in Steps \ {"register"},
             Goto(t, step) \/ End(t)
      PROVE  \A u \in tasks' : u.step = "register" => u \in tasks
  <2>1. [t EXCEPT !.step = step].step = step  BY DEF TypeOK, Task
  <2>. QED  BY <1>8, <2>1 DEF Goto, End
<1>9. ASSUME NEW t \in tasks, Touch(t) PROVE IndexInv'
  BY <1>2, <1>8, <1>9, StepIndex DEF Touch, Steps
<1>10. ASSUME NEW t \in tasks, Add(t) PROVE IndexInv'
  <2>1. t.sock \in Sockets /\ t.key \in Keys
    BY <1>10 DEF Add, TypeOK, Task, Keyless
  <2>2. Books' /\ registered' = registered
    BY <1>0, <1>1, <1>10, <2>1, AddBooks DEF Add, AddSubscription
  <2>. QED  BY <1>8, <1>10, <2>2, StepIndex DEF Add, Steps
<1>11. ASSUME NEW t \in tasks, Join(t) \/ Confirm(t) \/ Leave(t) PROVE IndexInv'
  BY <1>1, <1>8, <1>11, StepIndex DEF Join, Confirm, Leave, Steps
<1>12. ASSUME NEW t \in tasks, Remove(t) PROVE IndexInv'
  <2>1. t.sock \in Sockets /\ t.key \in Keys
    BY <1>12 DEF Remove, TypeOK, Task, Keyless
  <2>2. Books' /\ registered' = registered
    BY <1>0, <1>12, <2>1, RemoveBooks DEF Remove, RemoveSubscription
  <2>. QED  BY <1>8, <1>12, <2>2, StepIndex DEF Remove, Steps
<1>13. ASSUME NEW t \in tasks, Forget(t) PROVE IndexInv'
  <2>1. {t.sock} \in SUBSET Sockets  BY DEF TypeOK, Task
  <2>2. Books' /\ registered' \subseteq registered
    BY <1>0, <1>13, <2>1, ForgetBooks DEF Forget, RemoveClients
  <2>. QED  BY <1>8, <1>13, <2>2, StepIndex DEF Forget, Steps
<1>14. CASE RemoveInactive
  <2>1. doomed \in SUBSET Sockets  BY DEF TypeOK
  <2>2. Books' /\ registered' \subseteq registered
    BY <1>0, <1>14, <2>1, ForgetBooks DEF RemoveInactive, RemoveClients
  <2>. QED  BY <1>14, <2>2, StepIndex DEF RemoveInactive
<1>15. CASE (\E s \in Sockets : Expire(s)) \/ FindInactive
  BY <1>2, <1>15, StepIndex DEF Expire, FindInactive
<1>16. CASE UNCHANGED vars
  BY <1>1, <1>16, StepIndex DEF vars
<1>. QED
  BY <1>3, <1>4, <1>5, <1>6, <1>7, <1>9, <1>10, <1>11, <1>12, <1>13, <1>14, <1>15, <1>16
  DEF Next, Client, Run

(* The descriptions of the subscriptions agree, keys that do not split in   *)
(* two included, and the count is exact and within the limit, for any      *)
(* number of sockets, any keys and any order of the tasks.                 *)
THEOREM BooksInOrder == Spec => [](IndexesAgree /\ CountExact)
<1>1. Init => IndexInv
  BY FS_EmptySet, SubscriptionsAssumption DEF Init, IndexInv, Books, IndexesAgree, CountExact
<1>2. TypeOK /\ IndexInv /\ [Next]_vars => IndexInv'
  BY IndexStep
<1>3. IndexInv => IndexesAgree /\ CountExact  BY DEF IndexInv, Books
<1>. QED  BY <1>1, <1>2, <1>3, TypeCorrect, PTL DEF Spec

-----------------------------------------------------------------------------
(* The rooms *)

(* A client that awaits each answer has one request under way at most.     *)
Serves(t) == t.step \notin {"register", "forget"}

(* What connects the books with the rooms between the steps of a request:  *)
(* a key is on the books and its room not yet joined only while the task   *)
(* that is to join it is there, and a room that is to be left is off the   *)
(* books and not confirmed.                                                *)
RoomInv ==
  /\ \A t, u \in tasks : Serves(t) /\ Serves(u) /\ t.sock = u.sock => t = u
  /\ \A s \in Sockets : socket[s] = "new" => /\ subs[s] = {}
                                             /\ \A t \in tasks : t.sock # s
  /\ confirmed \subseteq rooms
  /\ \A t \in tasks : t.step = "confirm" /\ socket[t.sock] = "open"
                        => <<t.key, t.sock>> \in rooms
  /\ \A t \in tasks : t.step \in {"remove", "leave"} => <<t.key, t.sock>> \notin confirmed
  /\ \A t \in tasks : t.step = "leave" => t.key \notin subs[t.sock]
  /\ \A s \in Sockets : \A k \in subs[s] :
       socket[s] = "open" => \/ <<k, s>> \in rooms
                             \/ \E t \in tasks : t.sock = s /\ t.key = k /\ t.step = "join"

(* A client sends a request. *)
LEMMA RequestRooms ==
  ASSUME TypeOK, RoomInv, NEW s \in Sockets, Answered(s), NEW t \in Task,
         tasks' = tasks \cup {t}, t.sock = s,
         t.step \in {"touch", "remove", "touchOnly"},
         UNCHANGED <<socket, rooms, subs>>,
         confirmed' = IF t.step = "remove" THEN confirmed \ {<<t.key, s>>} ELSE confirmed
  PROVE  RoomInv'
<1>1. \A u \in tasks : Serves(u) => u.sock # s  BY DEF Answered, Serves
<1>2. socket[s] = "open" /\ confirmed' \subseteq confirmed  BY DEF Answered
<1>3. \A u, v \in tasks' : Serves(u) /\ Serves(v) /\ u.sock = v.sock => u = v
  BY <1>1 DEF RoomInv
<1>4. \A u \in tasks' : u.step \in {"remove", "leave"} => <<u.key, u.sock>> \notin confirmed'
  BY <1>2 DEF RoomInv
<1>5. \A r \in Sockets : socket'[r] = "new" => /\ subs'[r] = {}
                                               /\ \A u \in tasks' : u.sock # r
  BY <1>2 DEF RoomInv
<1>6. /\ confirmed' \subseteq rooms'
      /\ \A u \in tasks' : u.step = "confirm" /\ socket'[u.sock] = "open"
                           => <<u.key, u.sock>> \in rooms'
      /\ \A u \in tasks' : u.step = "leave" => u.key \notin subs'[u.sock]
  BY <1>2 DEF RoomInv
<1>7. \A r \in Sockets : \A k \in subs'[r] :
        socket'[r] = "open" => \/ <<k, r>> \in rooms'
                               \/ \E u \in tasks' : u.sock = r /\ u.key = k /\ u.step = "join"
  BY DEF RoomInv
<1>. QED  BY <1>3, <1>4, <1>5, <1>6, <1>7 DEF RoomInv

(* A task goes on to its next step. *)
LEMMA Goes ==
  ASSUME TypeOK, NEW t \in tasks, NEW step \in Steps, Goto(t, step)
  PROVE  \E n : /\ tasks' = (tasks \ {t}) \cup {n}
                /\ n.sock = t.sock /\ n.key = t.key /\ n.step = step
<1>. DEFINE n == [t EXCEPT !.step = step]
<1>1. t \in [sock : Sockets, step : Steps, key : Keys \cup {NoKey}, id : Nat]
  BY DEF TypeOK, Task
<1>2. n.sock = t.sock /\ n.key = t.key /\ n.step = step
  BY <1>1
<1>3. tasks' = (tasks \ {t}) \cup {n}
  BY DEF Goto
<1>. QED  BY <1>2, <1>3

LEMMA RunRooms ==
  ASSUME TypeOK, RoomInv, NEW t \in tasks, Run(t)
  PROVE  RoomInv'
<1>. USE DEF engineVars, indexVars, managerVars
<1>0. /\ t.sock \in Sockets /\ socket[t.sock] # "new"
      /\ \A u \in tasks : u.sock \in Sockets
      /\ Serves(t) => \A u \in tasks : Serves(u) /\ u.sock = t.sock => u = t
      /\ subs \in [Sockets -> SUBSET Keys]
  BY DEF TypeOK, Task, RoomInv
(* the task ends, the books shrink *)
<1>1. ASSUME End(t), UNCHANGED <<socket, rooms, confirmed>>, t.step # "join",
             \A s \in Sockets : subs'[s] \subseteq subs[s]
      PROVE  RoomInv'
  BY <1>0, <1>1 DEF RoomInv, End
<1>2. CASE Register(t)
  <2>1. \A s \in Sockets : subs'[s] \subseteq subs[s]  BY <1>0, <1>2 DEF Register
  <2>. QED  BY <1>1, <1>2, <2>1 DEF Register
<1>3. CASE Touch(t)
  <2>1. CASE End(t)  BY <1>1, <1>3, <2>1 DEF Touch
  <2>2. CASE Goto(t, "add")
    <3>1. PICK n : /\ tasks' = (tasks \ {t}) \cup {n}
                   /\ n.sock = t.sock /\ n.key = t.key /\ n.step = "add"
      BY <2>2, Goes DEF Steps
    <3>. QED  BY <1>0, <1>3, <3>1 DEF Touch, RoomInv, Serves
  <2>. QED  BY <1>3, <2>1, <2>2 DEF Touch
<1>4. CASE Add(t)
  <2>1. CASE End(t) /\ UNCHANGED managerVars  BY <1>1, <1>4, <2>1 DEF Add
  <2>2. CASE AddSubscription(t.sock, t.key) /\ Goto(t, "join")
    <3>1. PICK n : /\ tasks' = (tasks \ {t}) \cup {n}
                   /\ n.sock = t.sock /\ n.key = t.key /\ n.step = "join"
      BY <2>2, Goes DEF Steps
    <3>2. \A s \in Sockets : subs'[s] \subseteq subs[s] \cup (IF s = t.sock THEN {t.key} ELSE {})
      BY <1>0, <2>2 DEF AddSubscription
    <3>3. UNCHANGED <<socket, rooms, confirmed>> /\ t.step = "add"  BY <1>4 DEF Add
    <3>4. \A u, v \in tasks' : Serves(u) /\ Serves(v) /\ u.sock = v.sock => u = v
      BY <1>0, <3>1, <3>3 DEF RoomInv, Serves
    <3>5. \A s \in Sockets : socket[s] = "new" => /\ subs'[s] = {}
                                                  /\ \A u \in tasks' : u.sock # s
      BY <1>0, <3>1, <3>2 DEF RoomInv
    <3>6. \A u \in tasks' : u.step = "leave" => u.key \notin subs'[u.sock]
      BY <1>0, <3>1, <3>2, <3>3 DEF RoomInv, Serves
    <3>7. \A s \in Sockets : \A k \in subs'[s] :
            socket[s] = "open" => \/ <<k, s>> \in rooms
                                  \/ \E u \in tasks' : u.sock = s /\ u.key = k /\ u.step = "join"
      BY <1>0, <3>1, <3>2, <3>3 DEF RoomInv
    <3>. QED  BY <3>1, <3>3, <3>4, <3>5, <3>6, <3>7 DEF RoomInv
  <2>. QED  BY <1>4, <2>1, <2>2 DEF Add
<1>5. CASE Join(t)
  <2>1. PICK n : /\ tasks' = (tasks \ {t}) \cup {n}
                 /\ n.sock = t.sock /\ n.key = t.key /\ n.step = "confirm"
    BY <1>5, Goes DEF Join, Steps
  <2>2. /\ t.step = "join" /\ rooms \subseteq rooms'
        /\ <<t.key, t.sock>> \in rooms' \/ socket[t.sock] = "closed"
        /\ UNCHANGED <<socket, subs, confirmed>>
    BY <1>5 DEF Join
  <2>3. \A u, v \in tasks' : Serves(u) /\ Serves(v) /\ u.sock = v.sock => u = v
    BY <1>0, <2>1, <2>2 DEF RoomInv, Serves
  <2>4. \A s \in Sockets : \A k \in subs[s] :
          socket[s] = "open" => \/ <<k, s>> \in rooms'
                                \/ \E u \in tasks' : u.sock = s /\ u.key = k /\ u.step = "join"
    BY <1>0, <2>1, <2>2 DEF RoomInv
  <2>. QED  BY <1>0, <2>1, <2>2, <2>3, <2>4 DEF RoomInv
<1>6. CASE Confirm(t)
  <2>1. /\ tasks' = tasks \ {t} /\ t.step = "confirm" /\ UNCHANGED <<socket, subs, rooms>>
        /\ confirmed' \subseteq confirmed \cup {<<t.key, t.sock>>}
        /\ confirmed' \subseteq rooms
    BY <1>6 DEF Confirm, End, RoomInv
  <2>2. \A u \in tasks' : u.step \in {"remove", "leave"} => <<u.key, u.sock>> \notin confirmed'
    BY <1>0, <2>1 DEF RoomInv, Serves
  <2>. QED  BY <1>0, <2>1, <2>2 DEF RoomInv
<1>7. CASE Remove(t)
  <2>1. PICK n : /\ tasks' = (tasks \ {t}) \cup {n}
                 /\ n.sock = t.sock /\ n.key = t.key /\ n.step = "leave"
    BY <1>7, Goes DEF Remove, Steps
  <2>2. /\ t.step = "remove" /\ UNCHANGED <<socket, rooms, confirmed>>
        /\ \A s \in Sockets : subs'[s] \subseteq subs[s]
        /\ t.key \notin subs'[t.sock]
    BY <1>0, <1>7 DEF Remove, RemoveSubscription
  <2>3. \A u, v \in tasks' : Serves(u) /\ Serves(v) /\ u.sock = v.sock => u = v
    BY <1>0, <2>1, <2>2 DEF RoomInv, Serves
  <2>4. \A s \in Sockets : \A k \in subs'[s] :
          socket[s] = "open" => \/ <<k, s>> \in rooms
                                \/ \E u \in tasks' : u.sock = s /\ u.key = k /\ u.step = "join"
    BY <1>0, <2>1, <2>2 DEF RoomInv
  <2>. QED  BY <1>0, <2>1, <2>2, <2>3, <2>4 DEF RoomInv
<1>8. CASE Leave(t)
  <2>1. /\ tasks' = tasks \ {t} /\ t.step = "leave" /\ UNCHANGED <<socket, subs, confirmed>>
        /\ rooms' = rooms \ {<<t.key, t.sock>>}
    BY <1>8 DEF Leave, End
  <2>2. confirmed \subseteq rooms'  BY <2>1 DEF RoomInv
  <2>3. \A u \in tasks' : u.step = "confirm" => u.sock # t.sock
    BY <1>0, <2>1 DEF Serves
  <2>4. \A u \in tasks' : u.step = "confirm" /\ socket[u.sock] = "open"
                            => <<u.key, u.sock>> \in rooms'
    BY <2>1, <2>3 DEF RoomInv
  <2>5. \A s \in Sockets : \A k \in subs[s] :
          socket[s] = "open" => \/ <<k, s>> \in rooms'
                                \/ \E u \in tasks' : u.sock = s /\ u.key = k /\ u.step = "join"
    BY <1>0, <2>1 DEF RoomInv
  <2>. QED  BY <1>0, <2>1, <2>2, <2>4, <2>5 DEF RoomInv
<1>9. CASE Forget(t)
  <2>1. \A s \in Sockets : subs'[s] \subseteq subs[s]
    BY <1>0, <1>9 DEF Forget, RemoveClients
  <2>. QED  BY <1>1, <1>9, <2>1 DEF Forget
<1>. QED  BY <1>2, <1>3, <1>4, <1>5, <1>6, <1>7, <1>8, <1>9 DEF Run

LEMMA RoomStep ==
  ASSUME TypeOK, RoomInv, [Next]_vars, ~Pipelined
  PROVE  RoomInv'
<1>. USE DEF engineVars, indexVars, managerVars
<1>0. sent \in Nat /\ 0 \in Nat  BY SubscriptionsAssumption DEF TypeOK
<1>1. ASSUME UNCHANGED <<socket, rooms, tasks, confirmed>>,
             \A s \in Sockets : subs'[s] \subseteq subs[s]
      PROVE  RoomInv'
  <2>1. \A t \in tasks : t.sock \in Sockets  BY DEF TypeOK, Task
  <2>. QED  BY <1>1, <2>1 DEF RoomInv
<1>2. ASSUME NEW s \in Sockets, Connect(s) PROVE RoomInv'
  <2>. DEFINE n == [sock |-> s, step |-> "register", key |-> NoKey, id |-> 0]
  <2>1. /\ tasks' = tasks \cup {n} /\ socket[s] = "new" /\ socket' = [socket EXCEPT ![s] = "open"]
        /\ UNCHANGED <<rooms, subs, confirmed>>
    BY <1>2 DEF Connect, Spawn
  <2>2. \A r \in Sockets : socket'[r] = IF r = s THEN "open" ELSE socket[r]
    BY <2>1 DEF TypeOK
  <2>3. n.sock = s /\ n.step = "register"  OBVIOUS
  <2>4. subs[s] = {} /\ \A t \in tasks : t.sock # s /\ t.sock \in Sockets
    BY <2>1 DEF RoomInv, TypeOK, Task
  <2>. HIDE DEF n
  <2>. QED  BY <2>1, <2>2, <2>3, <2>4 DEF RoomInv, Serves
<1>3. ASSUME NEW s \in Sockets, NEW k \in Keys \cup {NoKey},
             NEW step \in {"touch", "remove", "touchOnly"}, step # "touchOnly" => k \in Keys,
             Request(s), Spawn(s, step, k), UNCHANGED <<socket, rooms, subs>>,
             confirmed' = IF step = "remove" THEN confirmed \ {<<k, s>>} ELSE confirmed
      PROVE  RoomInv'
  <2>. DEFINE n == [sock |-> s, step |-> step, key |-> k, id |-> 0]
  <2>1. n \in Task /\ n.sock = s /\ n.step = step /\ n.key = k
    BY <1>0, <1>3 DEF Task, Steps, Keyless
  <2>2. tasks' = tasks \cup {n} /\ Answered(s)  BY <1>3 DEF Spawn, Request
  <2>. HIDE DEF n
  <2>. QED  BY <1>3, <2>1, <2>2, RequestRooms
<1>4. ASSUME NEW s \in Sockets, Disconnect(s) PROVE RoomInv'
  <2>. DEFINE n == [sock |-> s, step |-> "forget", key |-> NoKey, id |-> 0]
  <2>1. /\ tasks' = tasks \cup {n} /\ socket[s] = "open" /\ socket' = [socket EXCEPT ![s] = "closed"]
        /\ rooms' = {r \in rooms : r[2] # s} /\ confirmed' = {c \in confirmed : c[2] # s}
        /\ UNCHANGED subs
    BY <1>4 DEF Disconnect, Spawn
  <2>2. \A r \in Sockets : socket'[r] = IF r = s THEN "closed" ELSE socket[r]
    BY <2>1 DEF TypeOK
  <2>3. n.sock = s /\ n.step = "forget"  OBVIOUS
  <2>4. \A t \in tasks : t.sock \in Sockets  BY DEF TypeOK, Task
  <2>. HIDE DEF n
  <2>5. \A t \in tasks' : t.step = "confirm" /\ socket'[t.sock] = "open"
                            => <<t.key, t.sock>> \in rooms'
    BY <2>1, <2>2, <2>3, <2>4 DEF RoomInv
  <2>6. \A r \in Sockets : \A k \in subs[r] :
          socket'[r] = "open" => \/ <<k, r>> \in rooms'
                                 \/ \E t \in tasks' : t.sock = r /\ t.key = k /\ t.step = "join"
    BY <2>1, <2>2, <2>3 DEF RoomInv
  <2>. QED  BY <2>1, <2>2, <2>3, <2>4, <2>5, <2>6 DEF RoomInv, Serves
<1>5. ASSUME NEW s \in Sockets, NEW k \in Keys, Subscribe(s, k) PROVE RoomInv'
  BY <1>3, <1>5 DEF Subscribe
<1>6. ASSUME NEW s \in Sockets, NEW k \in Keys, Unsubscribe(s, k) PROVE RoomInv'
  BY <1>3, <1>6 DEF Unsubscribe
<1>7. ASSUME NEW s \in Sockets, History(s) PROVE RoomInv'
  BY <1>3, <1>7 DEF History
<1>8. ASSUME NEW t \in tasks, Run(t) PROVE RoomInv'  BY <1>8, RunRooms
<1>9. CASE (\E s \in Sockets : Expire(s)) \/ FindInactive \/ UNCHANGED vars
  BY <1>1, <1>9 DEF Expire, FindInactive, vars
<1>10. CASE RemoveInactive
  <2>1. \A s \in Sockets : subs'[s] \subseteq subs[s]
    BY <1>10 DEF RemoveInactive, RemoveClients
  <2>. QED  BY <1>1, <1>10, <2>1 DEF RemoveInactive
<1>. QED
  BY <1>2, <1>4, <1>5, <1>6, <1>7, <1>8, <1>9, <1>10 DEF Next, Client

(* A client that awaits each answer hears, in the room, of every key it was *)
(* told it holds and of every key on its books: for any sockets and keys,  *)
(* although the books and the rooms are changed one after the other, and a *)
(* disconnect or the clean-up may come in between.                         *)
THEOREM SubscribersHear == ~Pipelined => (Spec => []SubscribersInRooms)
<1>. SUFFICES ASSUME ~Pipelined PROVE Spec => []SubscribersInRooms
  OBVIOUS
<1>1. Init => RoomInv  BY DEF Init, RoomInv
<1>2. TypeOK /\ RoomInv /\ [Next]_vars => RoomInv'  BY RoomStep
<1>3. RoomInv => SubscribersInRooms
  BY DEF RoomInv, SubscribersInRooms, Answered
<1>. QED  BY <1>1, <1>2, <1>3, TypeCorrect, PTL DEF Spec
=============================================================================
