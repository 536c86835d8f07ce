-------------------------- MODULE EventStoreProofs --------------------------
(* Theorems of EventStore for every value of its constants. *)
EXTENDS EventStore, TLAPS, SequenceTheorems

-----------------------------------------------------------------------------
(* Type correctness *)

LEMMA StampType ==
  ASSUME slot \in Nat, tx \in Nat, NEW st \in Stamps
  PROVE  st[1] \in Nat /\ st[2] \in Nat
BY DEF Stamps

LEMMA ApplyType ==
  ASSUME NEW d \in Detail, NEW e
  PROVE  ApplyEvent(d, e) \in Detail
<1>1. ASSUME NEW s \in Stats
      PROVE  SatAdd(d.tot[s], IF e.kind \in KindsOf(s) THEN 1 ELSE 0) \in Nat
  <2>1. d.tot[s] \in Nat  BY DEF Detail
  <2>. QED  BY <2>1, StoreAssumption DEF SatAdd
<1>. QED  BY <1>1 DEF ApplyEvent, Detail

LEMMA EmptyType == EmptyDetail \in Detail
BY DEF EmptyDetail, Detail

LEMMA BatchType ==
  ASSUME TypeOK, pc = "prepare"
  PROVE  BatchOf(ev) \in Batch
<1>1. ev \in Event  BY DEF TypeOK
<1>2. TradeRec(ev) \in Trade
  BY <1>1 DEF TradeRec, Trade, Event
<1>3. (IF ev.kind = "tc" /\ ev.mint \notin known THEN {<<ev.slot, ev.mint>>} ELSE {})
        \in SUBSET (Nat \X Mints)
  BY <1>1 DEF Event
<1>4. (IF ev.kind \in {"ls", "pc"} THEN {OrderOf(ev)} ELSE {}) \in SUBSET Order
  BY <1>1 DEF Event, OrderOf, Order
<1>5. ClosedKeys(ev) \in SUBSET (Pdas \X {1, 2})
  BY <1>1 DEF Event, ClosedKeys
<1>6. {<<q.user, ev.pda>> : q \in ClosedOrders(ev)} \in SUBSET (Users \X Pdas)
  <2>1. ASSUME NEW q \in ClosedOrders(ev)
        PROVE  <<q.user, ev.pda>> \in Users \X Pdas
    <3>1. q \in Order /\ <<q.pda, q.otype>> \in ClosedKeys(ev)
      BY DEF TypeOK, ClosedOrders
    <3>2. q.pda = ev.pda  BY <3>1 DEF ClosedKeys
    <3>. QED  BY <3>1, <3>2 DEF Order
  <2>. QED  BY <2>1
<1>7. (IF ev.kind \in UserKinds THEN {UserTxRec(ev)} ELSE {})
        \in SUBSET [user : Users, mint : Mints, slot : Nat, kind : Kinds, sig : Nat]
  BY <1>1 DEF Event, UserTxRec
<1>. QED  BY <1>2, <1>3, <1>4, <1>5, <1>6, <1>7 DEF BatchOf, Batch

LEMMA EmitType ==
  ASSUME TypeOK, NEW e \in Event, Emit(e), created' \subseteq Mints, live' \subseteq Order
  PROVE  TypeOK'
<1>1. e.slot \in Nat /\ e.sig \in Nat  BY DEF Event
<1>2. emitted' \in 0..MaxEvents
  BY StoreAssumption DEF TypeOK, Emit
<1>3. feed' \in Seq(Event) /\ seen' \subseteq Event /\ history' \subseteq Event
  <2>1. feed \in Seq(Event) /\ seen \subseteq Event /\ history \subseteq Event
    BY DEF TypeOK
  <2>2. Append(feed, e) \in Seq(Event)  BY <2>1, AppendProperties
  <2>. QED  BY <2>1, <2>2 DEF Emit, feedVars
<1>4. UNCHANGED <<procVars, tasks, dbVars, faults>> /\ slot' = e.slot /\ tx' = e.sig
  BY DEF Emit
<1>. QED
  BY <1>1, <1>2, <1>3, <1>4 DEF TypeOK, procVars, dbVars, batchedVars

LEMMA ChainType ==
  ASSUME TypeOK, Chain
  PROVE  TypeOK'
<1>1. PICK st \in Stamps :
        \/ \E m \in Mints, u \in Users : CreateMint(m, u, st)
        \/ \E k \in {"bs", "md"}, m \in Mints, u \in Users : TradeMint(k, m, u, st)
        \/ \E p \in Pdas, t \in {1, 2} : OpenOrder(p, t, st)
        \/ \E q \in live : CutOrder(q, st)
        \/ \E q \in live, u \in Users : CloseOrder(q, u, st)
        \/ \E q \in live, u \in Users : LiquidateOrder(q, u, st)
  BY DEF Chain
<1>2. st[1] \in Nat /\ st[2] \in Nat  BY StampType DEF TypeOK
<1>3. created \subseteq Mints /\ live \subseteq Order  BY DEF TypeOK
<1>4. ASSUME NEW m \in Mints, NEW u \in Users, CreateMint(m, u, st)
      PROVE  TypeOK'
  <2>1. Ev("tc", m, u, NoPda, 0, 0, st) \in Event
    BY <1>2 DEF Ev, Event, Kinds
  <2>. QED  BY <1>3, <1>4, <2>1, EmitType DEF CreateMint
<1>5. ASSUME NEW k \in {"bs", "md"}, NEW m \in Mints, NEW u \in Users, TradeMint(k, m, u, st)
      PROVE  TypeOK'
  <2>1. Ev(k, m, u, NoPda, 0, 0, st) \in Event
    BY <1>2 DEF Ev, Event, Kinds
  <2>. QED  BY <1>3, <1>5, <2>1, EmitType DEF TradeMint
<1>6. ASSUME NEW p \in Pdas, NEW t \in {1, 2}, OpenOrder(p, t, st)
      PROVE  TypeOK'
  <2>1. OwnerOf[p] \in Users /\ MintOf[p] \in Mints  BY StoreAssumption
  <2>2. Ev("ls", MintOf[p], OwnerOf[p], p, t, 0, st) \in Event
    BY <1>2, <2>1 DEF Ev, Event, Kinds
  <2>3. [user |-> OwnerOf[p], pda |-> p, otype |-> t, cut |-> 0] \in Order
    BY <2>1 DEF Order
  <2>. QED  BY <1>3, <1>6, <2>2, <2>3, EmitType DEF OpenOrder
<1>7. ASSUME NEW q \in live, CutOrder(q, st)
      PROVE  TypeOK'
  <2>1. q \in Order  BY <1>3
  <2>2. MintOf[q.pda] \in Mints  BY <2>1, StoreAssumption DEF Order
  <2>3. Ev("pc", MintOf[q.pda], q.user, q.pda, q.otype, q.cut + 1, st) \in Event
    BY <1>2, <2>1, <2>2 DEF Ev, Event, Kinds, Order
  <2>4. [q EXCEPT !.cut = @ + 1] \in Order  BY <2>1 DEF Order
  <2>. QED  BY <1>3, <1>7, <2>3, <2>4, EmitType DEF CutOrder
<1>8. ASSUME NEW q \in live, NEW u \in Users, CloseOrder(q, u, st)
      PROVE  TypeOK'
  <2>1. q \in Order  BY <1>3
  <2>2. MintOf[q.pda] \in Mints  BY <2>1, StoreAssumption DEF Order
  <2>3. Ev("fc", MintOf[q.pda], u, q.pda, q.otype, 0, st) \in Event
    BY <1>2, <2>1, <2>2 DEF Ev, Event, Kinds, Order
  <2>. QED  BY <1>3, <1>8, <2>3, EmitType DEF CloseOrder
<1>9. ASSUME NEW q \in live, NEW u \in Users, LiquidateOrder(q, u, st)
      PROVE  TypeOK'
  <2>1. q \in Order  BY <1>3
  <2>2. MintOf[q.pda] \in Mints  BY <2>1, StoreAssumption DEF Order
  <2>3. Ev("fl", MintOf[q.pda], u, q.pda, 0, 0, st) \in Event
    BY <1>2, <2>1, <2>2 DEF Ev, Event, Kinds, Order
  <2>. QED  BY <1>3, <1>9, <2>3, EmitType DEF LiquidateOrder
<1>. QED  BY <1>1, <1>4, <1>5, <1>6, <1>7, <1>8, <1>9

LEMMA StoreType ==
  ASSUME TypeOK, Store
  PROVE  TypeOK'
<1>. USE DEF feedVars, chainVars, procVars, dbVars, batchedVars
<1>1. CASE Receive
  <2>1. Head(feed) \in Event /\ Tail(feed) \in Seq(Event)
    BY <1>1, HeadTailProperties DEF Receive, TypeOK
  <2>. QED  BY <1>1, <2>1 DEF Receive, TypeOK
<1>2. CASE Prepare
  <2>1. batch' \in Batch  BY <1>2, BatchType DEF Prepare
  <2>. QED  BY <1>2, <2>1 DEF Prepare, TypeOK
<1>3. CASE PutCandle
  <2>1. ev \in Event /\ batch \in Batch  BY <1>3 DEF PutCandle, TypeOK
  <2>2. ev.mint \in Mints /\ Intervals[todo] \in IntervalSet
    BY <2>1 DEF TypeOK, Event, Intervals, IntervalSet
  <2>3. candles' \in [Mints -> [IntervalSet -> Nat]]
    BY <1>3, <2>2 DEF PutCandle, TypeOK
  <2>4. todo' \in 1..3
    BY <1>3 DEF PutCandle, TypeOK, Intervals
  <2>. QED  BY <1>3, <2>1, <2>3, <2>4 DEF PutCandle, TypeOK
<1>4. CASE ReadDetail
  <2>1. ev \in Event /\ batch \in Batch  BY <1>4 DEF ReadDetail, TypeOK
  <2>2. details[ev.mint] \in Detail  BY <2>1 DEF TypeOK, Event
  <2>. QED  BY <1>4, <2>1, <2>2 DEF ReadDetail, TypeOK
<1>5. CASE WriteDetail
  <2>1. ev \in Event /\ batch \in Batch /\ ev.mint \in Mints
    BY <1>5 DEF WriteDetail, TypeOK, Event
  <2>2. details' \in [Mints -> Detail] /\ known' \subseteq Mints
    BY <1>5, <2>1, ApplyType DEF WriteDetail, TypeOK
  <2>3. tasks' \subseteq [mint : Mints, phase : {"fetch", "write", "test"},
                         try : 1..MaxRetries, copy : Detail]
    BY <1>5, <2>1, EmptyType, StoreAssumption DEF WriteDetail, SpawnFetch, Task, TypeOK
  <2>. QED  BY <1>5, <2>1, <2>2, <2>3, EmptyType DEF WriteDetail, TypeOK
<1>6. CASE Commit
  <2>1. batch \in Batch  BY <1>6 DEF Commit, TypeOK
  <2>2. trades' \subseteq Trade
    BY <1>6, <2>1 DEF Commit, TypeOK, Batch, WriteTrades
  <2>3. markers' \subseteq Nat \X Mints
    BY <1>6, <2>1 DEF Commit, TypeOK, Batch
  <2>4. orders' \subseteq Order /\ userOrders' \subseteq Order
    BY <1>6, <2>1 DEF Commit, TypeOK, Batch, WriteOrders, WriteUserOrders
  <2>5. userTx' \subseteq [user : Users, mint : Mints, slot : Nat, kind : Kinds, sig : Nat]
    BY <1>6, <2>1 DEF Commit, TypeOK, Batch, WriteUserTx
  <2>. QED  BY <1>6, <2>2, <2>3, <2>4, <2>5, EmptyType DEF Commit, Finish, TypeOK
<1>. QED  BY <1>1, <1>2, <1>3, <1>4, <1>5, <1>6 DEF Store

LEMMA TaskType ==
  ASSUME TypeOK, NEW t \in tasks, UriStep(t) \/ TestIpfsWrite(t)
  PROVE  TypeOK'
<1>. USE DEF feedVars, chainVars, procVars, dbVars, batchedVars
<1>. DEFINE T == [mint : Mints, phase : {"fetch", "write", "test"},
                  try : 1..MaxRetries, copy : Detail]
<1>1. t \in T  BY DEF TypeOK
<1>2. t.mint \in Mints /\ t.try \in 1..MaxRetries /\ t.copy \in Detail  BY <1>1
<1>3. CASE FetchFails(t)
  <2>1. t.try < MaxRetries => [t EXCEPT !.try = @ + 1] \in T
    BY <1>1, StoreAssumption
  <2>. QED  BY <1>3, <2>1 DEF FetchFails, Replace, TypeOK
<1>4. CASE FetchNothing(t)
  BY <1>4 DEF FetchNothing, TypeOK
<1>5. CASE Fetched(t)
  <2>1. Task(t.mint, "write", t.try, details[t.mint]) \in T
    BY <1>2 DEF Task, TypeOK
  <2>. QED  BY <1>5, <2>1 DEF Fetched, Replace, TypeOK
<1>6. CASE WriteUri(t)
  <2>1. [t.copy EXCEPT !.uri = TRUE] \in Detail  BY <1>2 DEF Detail
  <2>. QED  BY <1>2, <1>6, <2>1 DEF WriteUri, TypeOK
<1>7. CASE TestIpfsWrite(t)
  <2>1. [t.copy EXCEPT !.created = TRUE] \in Detail  BY <1>2 DEF Detail
  <2>2. Task(t.mint, "fetch", 1, EmptyDetail) \in T
    BY <1>2, EmptyType, StoreAssumption DEF Task
  <2>. QED  BY <1>2, <1>7, <2>1, <2>2 DEF TestIpfsWrite, Replace, TypeOK
<1>. QED  BY <1>3, <1>4, <1>5, <1>6, <1>7 DEF UriStep

(* Every variable keeps its type. *)
THEOREM TypeCorrect == Spec => []TypeOK
<1>1. Init => TypeOK
  BY EmptyType, StoreAssumption
  DEF Init, TypeOK, Order, Event, NoEvent
<1>2. TypeOK /\ [Next]_vars => TypeOK'
  <2>. SUFFICES ASSUME TypeOK, [Next]_vars PROVE TypeOK'
    OBVIOUS
  <2>. USE DEF feedVars, chainVars, procVars, dbVars, batchedVars
  <2>1. CASE Chain  BY <2>1, ChainType
  <2>2. ASSUME NEW e \in history, Redeliver(e) PROVE TypeOK'
    <3>1. e \in Event  BY DEF TypeOK
    <3>2. feed' \in Seq(Event)  BY <2>2, <3>1, AppendProperties DEF Redeliver, TypeOK
    <3>. QED  BY <2>2, <3>1, <3>2 DEF Redeliver, TypeOK
  <2>3. CASE Store  BY <2>3, StoreType
  <2>4. CASE CandleError
    BY <2>4, StoreAssumption DEF CandleError, TypeOK
  <2>5. CASE StoreError
    BY <2>5, StoreAssumption, EmptyType DEF StoreError, Finish, TypeOK
  <2>6. CASE Crash
    BY <2>6, StoreAssumption, EmptyType DEF Crash, Finish, TypeOK
  <2>7. ASSUME NEW t \in tasks, UriStep(t) \/ TestIpfsWrite(t) PROVE TypeOK'
    BY <2>7, TaskType
  <2>8. ASSUME NEW m \in Mints, TestIpfs(m) PROVE TypeOK'
    BY <2>8, StoreAssumption DEF TestIpfs, Task, TypeOK
  <2>9. ASSUME NEW c \in TestCalls, TestOrder(c[1], c[2]) PROVE TypeOK'
    <3>1. [user |-> c[1], pda |-> c[2], otype |-> 2, cut |-> 0] \in Order
      BY StoreAssumption DEF Order
    <3>2. orders' \subseteq Order /\ userOrders' \subseteq Order
      BY <2>9, <3>1 DEF TestOrder, WriteOrders, WriteUserOrders, TypeOK
    <3>. QED  BY <2>9, <3>2 DEF TestOrder, TypeOK
  <2>10. CASE UNCHANGED vars
    BY <2>10 DEF vars, TypeOK
  <2>. QED
    BY <2>1, <2>2, <2>3, <2>4, <2>5, <2>6, <2>7, <2>8, <2>9, <2>10 DEF Next
<1>. QED  BY <1>1, <1>2, PTL DEF Spec

-----------------------------------------------------------------------------
(* The order indexes *)

(* What the order records owe to the chain and to whoever calls the test   *)
(* endpoint: a test call names an account of its own, which the chain never *)
(* opens, and always the same user for it.                                 *)
OwnTestAccounts == \A c \in TestCalls : c[1] = OwnerOf[c[2]] /\ SidesOf[c[2]] = {}

(* An account is only ever opened on one side: then an account is a key.   *)
OneSide == \A p \in Pdas : \A s, t \in SidesOf[p] : s = t
OneKeyPerAccount == OneSide /\ OwnTestAccounts

(* The strengthening that is inductive also says that orders and the events *)
(* on their way name the owner and a side of their account, and that a     *)
(* batch under way still deletes exactly what is in the database.          *)
ProperOrder(q) ==
  /\ q.user = OwnerOf[q.pda]
  /\ IF q.pda \in TestPdas THEN q.otype = 2 ELSE q.otype \in SidesOf[q.pda]

ProperEvent ==
  {e \in Event :
     /\ e.kind \in {"ls", "pc", "fc", "fl"} => e.pda \notin TestPdas
     /\ e.kind \in {"ls", "pc", "fc"} => e.otype \in SidesOf[e.pda]
     /\ e.kind \in {"ls", "pc"} => e.user = OwnerOf[e.pda]}

BatchInProgress == pc \notin {"idle", "prepare"}

IndexInv ==
  /\ UserOrdersListed
  /\ \A q \in orders \cup live : ProperOrder(q)
  /\ \A q \in live : q.pda \notin TestPdas
  /\ feed \in Seq(ProperEvent) /\ history \subseteq ProperEvent
  /\ pc # "idle" => ev \in ProperEvent
  /\ BatchInProgress => /\ batch.put = BatchOf(ev).put
                        /\ batch.delOr = BatchOf(ev).delOr
                        /\ batch.delUo = BatchOf(ev).delUo

(* What a batch deletes depends on the event and the or: index only. *)
LEMMA SameBatch ==
  ASSUME UNCHANGED <<orders, ev>>
  PROVE  /\ BatchOf(ev)'.put = BatchOf(ev).put
         /\ BatchOf(ev)'.delOr = BatchOf(ev).delOr
         /\ BatchOf(ev)'.delUo = BatchOf(ev).delUo
<1>1. ClosedKeys(ev)' = ClosedKeys(ev)  BY DEF ClosedKeys, OrderAt
<1>2. ClosedOrders(ev)' = ClosedOrders(ev)  BY <1>1 DEF ClosedOrders
<1>. QED  BY <1>1, <1>2 DEF BatchOf

(* A step that touches none of the order records keeps them in step. *)
LEMMA SameIndex ==
  ASSUME IndexInv, UNCHANGED <<orders, userOrders, pc, ev, batch>>,
         feed' \in Seq(ProperEvent), history' \subseteq ProperEvent,
         \A q \in live' : ProperOrder(q) /\ q.pda \notin TestPdas
  PROVE  IndexInv'
<1>1. pc' # "idle" => ev' \in ProperEvent  BY DEF IndexInv
<1>2. BatchInProgress' => /\ batch'.put = BatchOf(ev)'.put
                         /\ batch'.delOr = BatchOf(ev)'.delOr
                         /\ batch'.delUo = BatchOf(ev)'.delUo
  BY SameBatch DEF IndexInv, BatchInProgress
<1>3. ProperEvent' = ProperEvent  BY DEF ProperEvent
<1>4. \A q \in orders' \cup live' : ProperOrder(q)'
  BY DEF IndexInv, ProperOrder
<1>. QED  BY <1>1, <1>2, <1>3, <1>4 DEF IndexInv, UserOrdersListed

LEMMA EmitIndex ==
  ASSUME TypeOK, IndexInv, NEW e \in ProperEvent, Emit(e),
         \A q \in live' : ProperOrder(q) /\ q.pda \notin TestPdas
  PROVE  IndexInv'
<1>1. feed \in Seq(ProperEvent) /\ history \subseteq ProperEvent  BY DEF IndexInv
<1>2. Append(feed, e) \in Seq(ProperEvent)  BY <1>1, AppendProperties
<1>3. feed' \in Seq(ProperEvent) /\ history' \subseteq ProperEvent
  BY <1>1, <1>2 DEF Emit, feedVars
<1>4. UNCHANGED <<pc, ev, batch, orders, userOrders>>
  BY DEF Emit, procVars, dbVars, batchedVars
<1>. QED  BY <1>3, <1>4, SameIndex

LEMMA ChainIndex ==
  ASSUME TypeOK, IndexInv, Chain, OwnTestAccounts
  PROVE  IndexInv'
<1>1. PICK st \in Stamps :
        \/ \E m \in Mints, u \in Users : CreateMint(m, u, st)
        \/ \E k \in {"bs", "md"}, m \in Mints, u \in Users : TradeMint(k, m, u, st)
        \/ \E p \in Pdas, t \in {1, 2} : OpenOrder(p, t, st)
        \/ \E q \in live : CutOrder(q, st)
        \/ \E q \in live, u \in Users : CloseOrder(q, u, st)
        \/ \E q \in live, u \in Users : LiquidateOrder(q, u, st)
  BY DEF Chain
<1>2. st[1] \in Nat /\ st[2] \in Nat  BY StampType DEF TypeOK
<1>3. live \subseteq Order  BY DEF TypeOK
<1>4. \A q \in live : ProperOrder(q) /\ q.pda \notin TestPdas  BY DEF IndexInv
<1>5. ASSUME NEW m \in Mints, NEW u \in Users, CreateMint(m, u, st)
      PROVE  IndexInv'
  <2>1. Ev("tc", m, u, NoPda, 0, 0, st) \in ProperEvent
    BY <1>2 DEF Ev, ProperEvent, Event, Kinds
  <2>. QED  BY <1>4, <1>5, <2>1, EmitIndex DEF CreateMint
<1>6. ASSUME NEW k \in {"bs", "md"}, NEW m \in Mints, NEW u \in Users, TradeMint(k, m, u, st)
      PROVE  IndexInv'
  <2>1. Ev(k, m, u, NoPda, 0, 0, st) \in ProperEvent
    BY <1>2 DEF Ev, ProperEvent, Event, Kinds
  <2>. QED  BY <1>4, <1>6, <2>1, EmitIndex DEF TradeMint
<1>7. ASSUME NEW p \in Pdas, NEW t \in {1, 2}, OpenOrder(p, t, st)
      PROVE  IndexInv'
  <2>1. /\ OwnerOf[p] \in Users /\ MintOf[p] \in Mints /\ t \in SidesOf[p]
        /\ p \notin TestPdas
    BY <1>7, StoreAssumption DEF OpenOrder, OwnTestAccounts, TestPdas
  <2>2. Ev("ls", MintOf[p], OwnerOf[p], p, t, 0, st) \in ProperEvent
    BY <1>2, <2>1 DEF Ev, ProperEvent, Event, Kinds
  <2>3. \A q \in live' : ProperOrder(q) /\ q.pda \notin TestPdas
    BY <1>4, <1>7, <2>1 DEF OpenOrder, ProperOrder
  <2>. QED  BY <1>7, <2>2, <2>3, EmitIndex DEF OpenOrder
<1>8. ASSUME NEW q \in live, CutOrder(q, st)
      PROVE  IndexInv'
  <2>1. q \in Order /\ ProperOrder(q) /\ q.pda \notin TestPdas  BY <1>3, <1>4
  <2>2. MintOf[q.pda] \in Mints  BY <2>1, StoreAssumption DEF Order
  <2>3. Ev("pc", MintOf[q.pda], q.user, q.pda, q.otype, q.cut + 1, st) \in ProperEvent
    BY <1>2, <2>1, <2>2 DEF Ev, ProperEvent, Event, Kinds, Order, ProperOrder
  <2>4. /\ [q EXCEPT !.cut = @ + 1].pda = q.pda
        /\ [q EXCEPT !.cut = @ + 1].user = q.user
        /\ [q EXCEPT !.cut = @ + 1].otype = q.otype
    BY <2>1 DEF Order
  <2>5. \A r \in live' : ProperOrder(r) /\ r.pda \notin TestPdas
    BY <1>4, <1>8, <2>1, <2>4 DEF CutOrder, ProperOrder
  <2>. QED  BY <1>8, <2>3, <2>5, EmitIndex DEF CutOrder
<1>9. ASSUME NEW q \in live, NEW u \in Users, CloseOrder(q, u, st)
      PROVE  IndexInv'
  <2>1. q \in Order /\ ProperOrder(q) /\ q.pda \notin TestPdas  BY <1>3, <1>4
  <2>2. MintOf[q.pda] \in Mints  BY <2>1, StoreAssumption DEF Order
  <2>3. Ev("fc", MintOf[q.pda], u, q.pda, q.otype, 0, st) \in ProperEvent
    BY <1>2, <2>1, <2>2 DEF Ev, ProperEvent, Event, Kinds, Order, ProperOrder
  <2>. QED  BY <1>4, <1>9, <2>3, EmitIndex DEF CloseOrder
<1>10. ASSUME NEW q \in live, NEW u \in Users, LiquidateOrder(q, u, st)
       PROVE  IndexInv'
  <2>1. q \in Order /\ ProperOrder(q) /\ q.pda \notin TestPdas  BY <1>3, <1>4
  <2>2. MintOf[q.pda] \in Mints  BY <2>1, StoreAssumption DEF Order
  <2>3. Ev("fl", MintOf[q.pda], u, q.pda, 0, 0, st) \in ProperEvent
    BY <1>2, <2>1, <2>2 DEF Ev, ProperEvent, Event, Kinds, Order, ProperOrder
  <2>. QED  BY <1>4, <1>10, <2>3, EmitIndex DEF LiquidateOrder
<1>. QED  BY <1>1, <1>5, <1>6, <1>7, <1>8, <1>9, <1>10

(* A record the batch leaves under uo: is left under or: too.  One it takes *)
(* from uo: alone has the account of a record it deletes or puts under or:, *)
(* and so the other side of that account.                                  *)
LEMMA CommitListed ==
  ASSUME TypeOK, IndexInv, Commit
  PROVE  UserOrdersListed' /\ \A q \in orders' : ProperOrder(q)
<1>1. ev \in ProperEvent /\ ev \in Event
  BY DEF Commit, IndexInv, TypeOK
<1>2. /\ batch.put = BatchOf(ev).put
      /\ batch.delOr = ClosedKeys(ev)
      /\ batch.delUo = {<<q.user, ev.pda>> : q \in ClosedOrders(ev)}
  BY DEF Commit, IndexInv, BatchInProgress, BatchOf
<1>3. /\ userOrders \subseteq orders
      /\ \A q \in orders \ userOrders : SidesOf[q.pda] = {1, 2}
      /\ \A q \in orders : ProperOrder(q) /\ q \in Order
  BY DEF IndexInv, UserOrdersListed, TypeOK
<1>4. orders' = WriteOrders(orders, batch) /\ userOrders' = WriteUserOrders(userOrders, batch)
  BY DEF Commit
<1>5. \A p \in Pdas : SidesOf[p] \subseteq {1, 2}  BY StoreAssumption
<1>6. CASE ev.kind \in {"ls", "pc"}
  <2>. DEFINE o == OrderOf(ev)
  <2>1. batch.put = {o} /\ batch.delOr = {} /\ batch.delUo = {}
    BY <1>2, <1>6 DEF BatchOf, ClosedKeys, ClosedOrders
  <2>2. /\ o.pda \in Pdas \ TestPdas
        /\ o.user = OwnerOf[o.pda] /\ o.otype \in SidesOf[o.pda]
    BY <1>1, <1>6 DEF OrderOf, ProperEvent, Event
  <2>. HIDE DEF o
  <2>3. orders' = {q \in orders : ~(q.pda = o.pda /\ q.otype = o.otype)} \cup {o}
    BY <1>4, <2>1 DEF WriteOrders
  <2>4. userOrders' = {q \in userOrders : ~(q.user = o.user /\ q.pda = o.pda)} \cup {o}
    BY <1>4, <2>1 DEF WriteUserOrders
  <2>5. \A q \in userOrders : q.pda = o.pda => q.user = o.user
    BY <1>3, <2>2 DEF ProperOrder
  <2>6. userOrders' \subseteq orders'  BY <1>3, <2>3, <2>4, <2>5
  <2>7. ASSUME NEW q \in orders' \ userOrders' PROVE SidesOf[q.pda] = {1, 2}
    <3>1. CASE q \notin userOrders  BY <1>3, <2>3, <2>4, <2>7, <3>1
    <3>2. CASE q \in userOrders
      <4>1. q \in orders /\ q.pda = o.pda /\ q.otype # o.otype
        BY <1>3, <2>3, <2>4, <2>7, <3>2
      <4>2. q.otype \in SidesOf[o.pda]  BY <1>3, <2>2, <4>1 DEF ProperOrder
      <4>. QED  BY <1>5, <2>2, <4>1, <4>2
    <3>. QED  BY <3>1, <3>2
  <2>8. ProperOrder(o)  BY <2>2 DEF ProperOrder
  <2>. QED  BY <1>3, <2>3, <2>6, <2>7, <2>8 DEF UserOrdersListed
<1>7. CASE ev.kind \notin {"ls", "pc"}
  <2>1. batch.put = {}  BY <1>2, <1>7 DEF BatchOf
  <2>2. /\ orders' = {q \in orders : <<q.pda, q.otype>> \notin ClosedKeys(ev)}
        /\ userOrders' = {q \in userOrders : <<q.user, q.pda>> \notin batch.delUo}
    BY <1>2, <1>4, <2>1 DEF WriteOrders, WriteUserOrders
  <2>3. \A q \in ClosedOrders(ev) :
          q \in orders /\ q.pda = ev.pda /\ <<q.pda, q.otype>> \in ClosedKeys(ev)
    BY DEF ClosedOrders, ClosedKeys
  <2>4. ASSUME NEW q \in userOrders' PROVE q \in orders'
    <3>1. ASSUME <<q.pda, q.otype>> \in ClosedKeys(ev) PROVE FALSE
      <4>1. q \in ClosedOrders(ev)  BY <1>3, <2>2, <3>1 DEF ClosedOrders
      <4>2. <<q.user, q.pda>> \in batch.delUo  BY <1>2, <2>3, <4>1
      <4>. QED  BY <2>2, <4>2
    <3>. QED  BY <1>3, <2>2, <3>1
  <2>5. ASSUME NEW q \in orders' \ userOrders' PROVE SidesOf[q.pda] = {1, 2}
    <3>1. CASE q \notin userOrders  BY <1>3, <2>2, <3>1
    <3>2. CASE q \in userOrders
      <4>1. PICK r \in ClosedOrders(ev) : <<q.user, q.pda>> = <<r.user, ev.pda>>
        BY <1>2, <2>2, <3>2
      <4>2. /\ r \in orders /\ r.pda = q.pda /\ q.pda = ev.pda /\ r.otype # q.otype
        BY <2>2, <2>3, <4>1
      <4>3. ev.kind \in {"fc", "fl"}  BY <4>1 DEF ClosedOrders, ClosedKeys
      <4>4. q.pda \in Pdas \ TestPdas  BY <1>1, <4>2, <4>3 DEF ProperEvent, Event
      <4>5. q.otype \in SidesOf[q.pda] /\ r.otype \in SidesOf[q.pda]
        BY <1>3, <2>2, <4>2, <4>4 DEF ProperOrder
      <4>. QED  BY <1>5, <4>2, <4>4, <4>5
    <3>. QED  BY <3>1, <3>2
  <2>. QED  BY <1>3, <2>2, <2>4, <2>5 DEF UserOrdersListed
<1>. QED  BY <1>6, <1>7

LEMMA CommitIndex ==
  ASSUME TypeOK, IndexInv, Commit
  PROVE  IndexInv'
BY CommitListed
DEF Commit, Finish, IndexInv, BatchInProgress, ProperOrder, chainVars, feedVars

(* A test order touches neither the account of the event under way nor any *)
(* account of the chain.                                                   *)
LEMMA TestOrderIndex ==
  ASSUME TypeOK, IndexInv, OwnTestAccounts, NEW c \in TestCalls, TestOrder(c[1], c[2])
  PROVE  IndexInv'
<1>. DEFINE p == c[2]
<1>. DEFINE o == [user |-> c[1], pda |-> p, otype |-> 2, cut |-> 0]
<1>0. p \in TestPdas /\ c[1] = OwnerOf[p]  BY DEF TestPdas, OwnTestAccounts
<1>1. \A q \in orders : q.pda = p => q.otype = 2 /\ q.user = OwnerOf[p]
  BY <1>0 DEF IndexInv, ProperOrder
<1>2. /\ orders' = {q \in orders : q.pda # p} \cup {o}
      /\ userOrders' = {q \in userOrders : q.pda # p} \cup {o}
  <2>. DEFINE b == [put |-> {o}, delOr |-> {}, delUo |-> {}]
  <2>1. b.put = {o} /\ b.delOr = {} /\ b.delUo = {}  OBVIOUS
  <2>2. orders' = WriteOrders(orders, b) /\ userOrders' = WriteUserOrders(userOrders, b)
    BY DEF TestOrder
  <2>3. o.pda = p /\ o.otype = 2 /\ o.user = OwnerOf[p]  BY <1>0
  <2>4. \A q \in userOrders : q.pda = p => q.user = OwnerOf[p]
    BY <1>1 DEF IndexInv, UserOrdersListed
  <2>. HIDE DEF o, b
  <2>5. WriteOrders(orders, b) = {q \in orders : q.pda # p} \cup {o}
    BY <1>1, <2>1, <2>3 DEF WriteOrders
  <2>6. WriteUserOrders(userOrders, b) = {q \in userOrders : q.pda # p} \cup {o}
    BY <2>1, <2>3, <2>4 DEF WriteUserOrders
  <2>. QED  BY <2>2, <2>5, <2>6
<1>3. UserOrdersListed'  BY <1>2 DEF IndexInv, UserOrdersListed
<1>4. ProperOrder(o)  BY <1>0 DEF ProperOrder
<1>5. \A q \in orders' \cup live : ProperOrder(q)  BY <1>2, <1>4 DEF IndexInv
<1>7. UNCHANGED <<pc, ev, batch, live, feed, history, known>>
  BY DEF TestOrder, procVars, chainVars, feedVars
<1>8. ASSUME BatchInProgress
      PROVE  ClosedKeys(ev)' = ClosedKeys(ev) /\ ClosedOrders(ev)' = ClosedOrders(ev)
  <2>1. ev \in ProperEvent  BY <1>8 DEF BatchInProgress, IndexInv
  <2>2. CASE ev.kind \in {"fc", "fl"}
    <3>1. ev.pda # p  BY <1>0, <2>1, <2>2 DEF ProperEvent
    <3>2. \A q : q.pda = ev.pda => (q \in orders <=> q \in orders')  BY <1>2, <3>1
    <3>3. ClosedKeys(ev)' = ClosedKeys(ev)
      BY <1>7, <3>2 DEF ClosedKeys, OrderAt
    <3>4. \A k \in ClosedKeys(ev) : k[1] = ev.pda  BY DEF ClosedKeys
    <3>. QED  BY <3>2, <3>3, <3>4 DEF ClosedOrders
  <2>3. CASE ev.kind \notin {"fc", "fl"}
    BY <1>7, <2>3 DEF ClosedKeys, ClosedOrders
  <2>. QED  BY <2>2, <2>3
<1>9. BatchInProgress => /\ BatchOf(ev)'.put = BatchOf(ev).put
                        /\ BatchOf(ev)'.delOr = BatchOf(ev).delOr
                        /\ BatchOf(ev)'.delUo = BatchOf(ev).delUo
  BY <1>7, <1>8 DEF BatchOf
<1>. QED
  BY <1>3, <1>5, <1>7, <1>9
  DEF IndexInv, BatchInProgress, ProperOrder

LEMMA IndexStep ==
  ASSUME TypeOK, IndexInv, [Next]_vars, OwnTestAccounts
  PROVE  IndexInv'
<1>. USE DEF feedVars, chainVars, procVars, dbVars, batchedVars
<1>1. /\ feed \in Seq(ProperEvent) /\ history \subseteq ProperEvent
      /\ \A q \in live : ProperOrder(q) /\ q.pda \notin TestPdas
  BY DEF IndexInv
<1>2. ASSUME UNCHANGED <<live, orders, userOrders, history, ev>>, ~BatchInProgress',
             feed' \in Seq(ProperEvent), pc' # "idle" => ev \in ProperEvent
      PROVE  IndexInv'
  BY <1>2 DEF IndexInv, UserOrdersListed, ProperOrder
<1>3. ASSUME UNCHANGED <<live, orders, userOrders, feed, history, ev, batch>>,
             BatchInProgress, BatchInProgress'
      PROVE  IndexInv'
  <2>1. ev \in ProperEvent  BY <1>3 DEF IndexInv, BatchInProgress
  <2>2. /\ batch'.put = BatchOf(ev)'.put
        /\ batch'.delOr = BatchOf(ev)'.delOr
        /\ batch'.delUo = BatchOf(ev)'.delUo
    BY <1>3, SameBatch DEF IndexInv
  <2>. QED  BY <1>1, <1>3, <2>1, <2>2 DEF IndexInv, UserOrdersListed, ProperOrder
<1>4. ASSUME UNCHANGED <<live, orders, userOrders, history>>, Finish,
             feed' \in Seq(ProperEvent)
      PROVE  IndexInv'
  BY <1>4 DEF IndexInv, UserOrdersListed, ProperOrder, Finish, BatchInProgress
<1>5. CASE Chain  BY <1>5, ChainIndex
<1>6. ASSUME NEW e \in history, Redeliver(e) PROVE IndexInv'
  <2>1. feed' \in Seq(ProperEvent)
    BY <1>1, <1>6, AppendProperties DEF Redeliver
  <2>. QED  BY <1>1, <1>6, <2>1, SameIndex DEF Redeliver
<1>7. CASE Receive
  <2>1. Head(feed) \in ProperEvent /\ Tail(feed) \in Seq(ProperEvent)
    BY <1>1, <1>7, HeadTailProperties DEF Receive
  <2>. QED  BY <1>7, <2>1 DEF Receive, IndexInv, UserOrdersListed, ProperOrder, BatchInProgress
<1>8. CASE Prepare
  <2>1. ev \in ProperEvent /\ UNCHANGED <<orders, ev>>  BY <1>8 DEF Prepare, IndexInv
  <2>2. /\ batch'.put = BatchOf(ev)'.put
        /\ batch'.delOr = BatchOf(ev)'.delOr
        /\ batch'.delUo = BatchOf(ev)'.delUo
    BY <1>8, <2>1, SameBatch DEF Prepare
  <2>. QED  BY <1>1, <1>8, <2>1, <2>2 DEF Prepare, IndexInv, UserOrdersListed, ProperOrder
<1>9. CASE PutCandle  BY <1>3, <1>9 DEF PutCandle, BatchInProgress
<1>10. CASE ReadDetail  BY <1>3, <1>10 DEF ReadDetail, BatchInProgress
<1>11. CASE WriteDetail  BY <1>3, <1>11 DEF WriteDetail, BatchInProgress
<1>12. CASE Commit  BY <1>12, CommitIndex
<1>13. CASE CandleError  BY <1>3, <1>13 DEF CandleError, BatchInProgress
<1>14. CASE StoreError  BY <1>1, <1>4, <1>14 DEF StoreError
<1>15. CASE Crash
  <2>1. <<>> \in Seq(ProperEvent)  OBVIOUS
  <2>. QED  BY <1>4, <1>15, <2>1 DEF Crash
<1>16. ASSUME NEW t \in tasks, UriStep(t) \/ TestIpfsWrite(t) PROVE IndexInv'
  <2>1. UNCHANGED <<live, orders, userOrders, pc, ev, batch, feed, history>>
    BY <1>16 DEF UriStep, FetchFails, FetchNothing, Fetched, WriteUri, TestIpfsWrite
  <2>. QED  BY <1>1, <2>1, SameIndex
<1>17. ASSUME NEW m \in Mints, TestIpfs(m) PROVE IndexInv'
  BY <1>1, <1>17, SameIndex DEF TestIpfs
<1>18. ASSUME NEW c \in TestCalls, TestOrder(c[1], c[2]) PROVE IndexInv'
  BY <1>18, TestOrderIndex
<1>19. CASE UNCHANGED vars  BY <1>1, <1>19, SameIndex DEF vars
<1>. QED
  BY <1>5, <1>6, <1>7, <1>8, <1>9, <1>10, <1>11, <1>12, <1>13, <1>14, <1>15, <1>16,
     <1>17, <1>18, <1>19 DEF Next, Store

(* Whatever the node loses or repeats, whoever pays for a close and wherever *)
(* store_event stops: every order a user is shown is on the mint's list with *)
(* the same data, and what the mint's list shows beyond that is of accounts *)
(* that can be opened on either side.                                      *)
THEOREM UserOrdersAreListed == OwnTestAccounts => (Spec => []UserOrdersListed)
<1>. SUFFICES ASSUME OwnTestAccounts PROVE Spec => []UserOrdersListed
  OBVIOUS
<1>1. Init => IndexInv
  BY DEF Init, IndexInv, UserOrdersListed, BatchInProgress
<1>2. TypeOK /\ IndexInv /\ [Next]_vars => IndexInv'
  BY IndexStep
<1>3. IndexInv => UserOrdersListed  BY DEF IndexInv
<1>. QED  BY <1>1, <1>2, <1>3, TypeCorrect, PTL DEF Spec

LEMMA OneSideAgrees ==
  ASSUME TypeOK, IndexInv, OneSide
  PROVE  OrderIndexesAgree
<1>1. ASSUME NEW q \in orders \ userOrders PROVE FALSE
  <2>1. q.pda \in Pdas /\ SidesOf[q.pda] = {1, 2}
    BY <1>1 DEF TypeOK, Order, IndexInv, UserOrdersListed
  <2>. QED  BY <2>1 DEF OneSide
<1>. QED  BY <1>1 DEF IndexInv, UserOrdersListed, OrderIndexesAgree

(* Where moreover no account can be opened on either side, the or: and uo: *)
(* indexes hold the same records in every state.                           *)
THEOREM IndexesAgree == OneKeyPerAccount => (Spec => []OrderIndexesAgree)
<1>. SUFFICES ASSUME OneSide, OwnTestAccounts PROVE Spec => []OrderIndexesAgree
  BY DEF OneKeyPerAccount
<1>1. Init => IndexInv
  BY DEF Init, IndexInv, UserOrdersListed, BatchInProgress
<1>2. TypeOK /\ IndexInv /\ [Next]_vars => IndexInv'
  BY IndexStep
<1>3. TypeOK /\ IndexInv => OrderIndexesAgree  BY OneSideAgrees
<1>. QED  BY <1>1, <1>2, <1>3, TypeCorrect, PTL DEF Spec

-----------------------------------------------------------------------------
(* The event store implements the ledger, for every value of the constants *)
(* that gives each order account one side and test calls accounts of their *)
(* own (OneKeyPerAccount).  The batch was filled from reads made before it *)
(* is written; the proof shows that nothing that happens in between makes  *)
(* it differ from what the ledger does when it is written.                 *)

(* The rest of the batch says what the event says, and the processor holds *)
(* no event while it waits.                                                *)
BatchInv ==
  /\ pc = "idle" => ev = NoEvent
  /\ BatchInProgress =>
       /\ batch.trade = TradeRec(ev)
       /\ batch.userTx = BatchOf(ev).userTx
       /\ batch.marker \subseteq (IF ev.kind = "tc" THEN {<<ev.slot, ev.mint>>} ELSE {})

LEMMA BatchStep ==
  ASSUME TypeOK, BatchInv, [Next]_vars
  PROVE  BatchInv'
<1>. USE DEF feedVars, chainVars, procVars, dbVars, batchedVars
<1>1. ASSUME UNCHANGED <<pc, ev, batch>> PROVE BatchInv'
  BY <1>1 DEF BatchInv, BatchInProgress, BatchOf
<1>2. ASSUME UNCHANGED <<ev, batch>>, BatchInProgress, BatchInProgress' PROVE BatchInv'
  BY <1>2 DEF BatchInv, BatchInProgress, BatchOf
<1>3. ASSUME Finish PROVE BatchInv'
  BY <1>3 DEF BatchInv, BatchInProgress, Finish
<1>4. CASE Chain
  BY <1>1, <1>4 DEF Chain, CreateMint, TradeMint, OpenOrder, CutOrder, CloseOrder,
                    LiquidateOrder, Emit
<1>5. ASSUME NEW e \in history, Redeliver(e) PROVE BatchInv'
  BY <1>1, <1>5 DEF Redeliver
<1>6. CASE Receive
  BY <1>6 DEF Receive, BatchInv, BatchInProgress
<1>7. CASE Prepare
  BY <1>7 DEF Prepare, BatchInv, BatchInProgress, BatchOf
<1>8. CASE PutCandle  BY <1>2, <1>8 DEF PutCandle, BatchInProgress
<1>9. CASE ReadDetail  BY <1>2, <1>9 DEF ReadDetail, BatchInProgress
<1>10. CASE WriteDetail  BY <1>2, <1>10 DEF WriteDetail, BatchInProgress
<1>11. CASE Commit  BY <1>3, <1>11 DEF Commit
<1>12. CASE CandleError  BY <1>2, <1>12 DEF CandleError, BatchInProgress
<1>13. CASE StoreError  BY <1>3, <1>13 DEF StoreError
<1>14. CASE Crash  BY <1>3, <1>14 DEF Crash
<1>15. ASSUME NEW t \in tasks, UriStep(t) \/ TestIpfsWrite(t) PROVE BatchInv'
  BY <1>1, <1>15 DEF UriStep, FetchFails, FetchNothing, Fetched, WriteUri, TestIpfsWrite
<1>16. ASSUME NEW m \in Mints, TestIpfs(m) PROVE BatchInv'
  BY <1>1, <1>16 DEF TestIpfs
<1>17. ASSUME NEW c \in TestCalls, TestOrder(c[1], c[2]) PROVE BatchInv'
  BY <1>1, <1>17 DEF TestOrder
<1>18. CASE UNCHANGED vars  BY <1>1, <1>18 DEF vars
<1>. QED
  BY <1>4, <1>5, <1>6, <1>7, <1>8, <1>9, <1>10, <1>11, <1>12, <1>13, <1>14, <1>15,
     <1>16, <1>17, <1>18 DEF Next, Store

-----------------------------------------------------------------------------
(* What a write of the batch makes of the or: table is what the event makes *)
(* of the book.                                                            *)
LEMMA CommitBooks ==
  ASSUME TypeOK, IndexInv, Commit, OneSide
  PROVE  orders' = ByMint!Booked(ev)
<1>1. ev \in ProperEvent /\ ev \in Event
  BY DEF Commit, IndexInv, TypeOK
<1>2. /\ batch.put = BatchOf(ev).put
      /\ batch.delOr = ClosedKeys(ev)
  BY DEF Commit, IndexInv, BatchInProgress, BatchOf
<1>3. \A q \in orders : ProperOrder(q) /\ q \in Order
  BY DEF IndexInv, TypeOK
<1>4. orders' = WriteOrders(orders, batch)  BY DEF Commit
<1>5. CASE ev.kind \in {"ls", "pc"}
  <2>. DEFINE o == OrderOf(ev)
  <2>1. batch.put = {o} /\ batch.delOr = {}
    BY <1>2, <1>5 DEF BatchOf, ClosedKeys
  <2>2. /\ o.pda = ev.pda /\ o.pda \in Pdas \ TestPdas
        /\ o.otype \in SidesOf[o.pda]
    BY <1>1, <1>5 DEF OrderOf, ProperEvent, Event
  <2>3. ASSUME NEW q \in orders, q.pda = o.pda
        PROVE  q.otype = o.otype
    BY <1>3, <2>2, <2>3 DEF ProperOrder, OneSide
  <2>4. WriteOrders(orders, batch) = {q \in orders : q.pda # o.pda} \cup {o}
    BY <2>1, <2>3 DEF WriteOrders
  <2>. QED
    BY <1>4, <1>5, <2>2, <2>4
    DEF ByMint!Booked, ByMint!Opening, ByMint!Closing, ByMint!Without, ByMint!Holding,
        OrderOf
<1>6. CASE ev.kind \in {"fc", "fl"}
  <2>1. batch.put = {}  BY <1>2, <1>6 DEF BatchOf
  <2>2. ev.pda \in Pdas \ TestPdas  BY <1>1, <1>6 DEF ProperEvent, Event
  <2>3. ASSUME NEW q \in orders
        PROVE  <<q.pda, q.otype>> \in ClosedKeys(ev) <=> q.pda = ev.pda
    <3>1. <<q.pda, q.otype>> \in ClosedKeys(ev) => q.pda = ev.pda  BY DEF ClosedKeys
    <3>2. ASSUME q.pda = ev.pda PROVE <<q.pda, q.otype>> \in ClosedKeys(ev)
      <4>1. q.otype \in SidesOf[ev.pda] /\ q.otype \in {1, 2}
        BY <1>3, <2>2, <3>2 DEF ProperOrder, Order
      <4>2. CASE ev.kind = "fc"
        <5>1. q.otype = ev.otype
          BY <1>1, <2>2, <4>1, <4>2 DEF ProperEvent, OneSide
        <5>. QED  BY <3>2, <4>1, <4>2, <5>1 DEF ClosedKeys
      <4>3. CASE ev.kind = "fl"
        <5>1. q \in OrderAt(ev.pda, q.otype)  BY <3>2 DEF OrderAt
        <5>. QED  BY <3>2, <4>1, <4>3, <5>1 DEF ClosedKeys
      <4>. QED  BY <1>6, <4>2, <4>3
    <3>. QED  BY <3>1, <3>2
  <2>4. WriteOrders(orders, batch) = {q \in orders : q.pda # ev.pda}
    BY <1>2, <2>1, <2>3 DEF WriteOrders
  <2>. QED
    BY <1>4, <1>6, <2>4
    DEF ByMint!Booked, ByMint!Opening, ByMint!Closing, ByMint!Without
<1>7. CASE ev.kind \notin {"ls", "pc", "fc", "fl"}
  <2>1. batch.put = {} /\ batch.delOr = {}
    BY <1>2, <1>7 DEF BatchOf, ClosedKeys
  <2>2. WriteOrders(orders, batch) = orders  BY <2>1 DEF WriteOrders
  <2>. QED
    BY <1>4, <1>7, <2>2 DEF ByMint!Booked, ByMint!Opening, ByMint!Closing
<1>. QED  BY <1>5, <1>6, <1>7

LEMMA CommitRecords ==
  ASSUME TypeOK, IndexInv, BatchInv, Commit, OneSide
  PROVE  ByMint!Record
<1>1. ev \in Event /\ ev.kind \in Kinds  BY DEF Commit, TypeOK, Event
<1>2. /\ batch.trade = TradeRec(ev)
      /\ batch.userTx = BatchOf(ev).userTx
      /\ batch.marker \subseteq (IF ev.kind = "tc" THEN {<<ev.slot, ev.mint>>} ELSE {})
  BY DEF Commit, BatchInv, BatchInProgress
<1>3. trades' = ByMint!Logged(ev)
  BY <1>2 DEF Commit, WriteTrades, SameTradeKey, TradeRec, ByMint!Logged, ByMint!Entry
<1>4. \/ markers' = markers
      \/ ev.kind = "tc" /\ markers' = markers \cup {<<ev.slot, ev.mint>>}
  <2>1. markers' = markers \cup batch.marker  BY DEF Commit
  <2>. QED  BY <1>2, <2>1
<1>5. orders' = ByMint!Booked(ev)  BY CommitBooks
<1>6. userTx' = ByMint!Noted(ev)
  <2>1. userTx' = WriteUserTx(userTx, batch)  BY DEF Commit
  <2>2. CASE ev.kind \in UserKinds
    <3>1. batch.userTx = {UserTxRec(ev)}  BY <1>2, <2>2 DEF BatchOf
    <3>. QED
      BY <2>1, <2>2, <3>1
      DEF WriteUserTx, SameUserTxKey, UserTxRec, UserKinds, ByMint!Noted, ByMint!Entry,
          ByMint!Personal, ByMint!Opening, ByMint!Closing
  <2>3. CASE ev.kind \notin UserKinds
    <3>1. batch.userTx = {}  BY <1>2, <2>3 DEF BatchOf
    <3>. QED
      BY <2>1, <2>3, <3>1
      DEF WriteUserTx, UserKinds, ByMint!Noted, ByMint!Personal, ByMint!Opening,
          ByMint!Closing
  <2>. QED  BY <2>2, <2>3
<1>7. ev' = ByMint!None  BY DEF Commit, Finish, NoEvent, ByMint!None
<1>. QED
  BY <1>1, <1>3, <1>4, <1>5, <1>6, <1>7 DEF ByMint!Record, ByMint!Kinds, Kinds

LEMMA TestPlaces ==
  ASSUME TypeOK, IndexInv, NEW c \in TestCalls, TestOrder(c[1], c[2])
  PROVE  ByMint!Place(c)
<1>. DEFINE o == [user |-> c[1], pda |-> c[2], otype |-> 2, cut |-> 0]
<1>. DEFINE b == [put |-> {o}, delOr |-> {}, delUo |-> {}]
<1>1. c[2] \in TestPdas  BY DEF TestPdas
<1>2. \A q \in orders : q.pda = c[2] => q.otype = 2
  BY <1>1 DEF IndexInv, ProperOrder
<1>3. orders' = WriteOrders(orders, b)  BY DEF TestOrder
<1>4. b.put = {o} /\ b.delOr = {} /\ o.pda = c[2] /\ o.otype = 2  OBVIOUS
<1>5. WriteOrders(orders, b) = {q \in orders : q.pda # c[2]} \cup {o}
  <2>. HIDE DEF o, b
  <2>. QED  BY <1>2, <1>4 DEF WriteOrders
<1>6. UNCHANGED <<ev, trades, markers, userTx>>
  BY DEF TestOrder, procVars
<1>. QED  BY <1>3, <1>5, <1>6 DEF ByMint!Place, ByMint!Without

(* Every step of the store is a step of the ledger or leaves it alone. *)
LEMMA LedgerStep ==
  ASSUME TypeOK, IndexInv, BatchInv, [Next]_vars, OneSide
  PROVE  [ByMint!Next]_(ByMint!vars)
<1>. USE DEF feedVars, chainVars, procVars, dbVars, batchedVars
<1>. DEFINE Same == UNCHANGED <<ev, trades, markers, orders, userTx>>
<1>1. Same => [ByMint!Next]_(ByMint!vars)  BY DEF ByMint!vars
<1>2. Finish /\ UNCHANGED <<trades, markers, orders, userTx>> => ByMint!Next
  BY DEF Finish, NoEvent, ByMint!None, ByMint!Drop, ByMint!Next
<1>3. CASE Chain
  BY <1>1, <1>3 DEF Chain, CreateMint, TradeMint, OpenOrder, CutOrder, CloseOrder,
                    LiquidateOrder, Emit
<1>4. ASSUME NEW e \in history, Redeliver(e) PROVE Same
  BY <1>4 DEF Redeliver
<1>5. CASE Receive
  <2>1. Head(feed) \in Event  BY <1>5, HeadTailProperties DEF Receive, TypeOK
  <2>2. ev = ByMint!None  BY <1>5 DEF Receive, BatchInv, NoEvent, ByMint!None
  <2>3. ev'.kind \in Kinds /\ ev'.mint \in Mints /\ ev'.user \in Users
    BY <1>5, <2>1 DEF Receive, Event
  <2>. QED
    BY <1>5, <2>2, <2>3 DEF Receive, ByMint!Submit, ByMint!Next, ByMint!Kinds, Kinds
<1>6. CASE Prepare  BY <1>1, <1>6 DEF Prepare
<1>7. CASE PutCandle  BY <1>1, <1>7 DEF PutCandle
<1>8. CASE ReadDetail  BY <1>1, <1>8 DEF ReadDetail
<1>9. CASE WriteDetail  BY <1>1, <1>9 DEF WriteDetail
<1>10. CASE Commit  BY <1>10, CommitRecords DEF ByMint!Next
<1>11. CASE CandleError  BY <1>1, <1>11 DEF CandleError
<1>12. CASE StoreError  BY <1>2, <1>12 DEF StoreError
<1>13. CASE Crash  BY <1>2, <1>13 DEF Crash
<1>14. ASSUME NEW t \in tasks, UriStep(t) \/ TestIpfsWrite(t) PROVE Same
  BY <1>14 DEF UriStep, FetchFails, FetchNothing, Fetched, WriteUri, TestIpfsWrite
<1>15. ASSUME NEW m \in Mints, TestIpfs(m) PROVE Same
  BY <1>15 DEF TestIpfs
<1>16. ASSUME NEW c \in TestCalls, TestOrder(c[1], c[2]) PROVE ByMint!Next
  BY <1>16, TestPlaces DEF ByMint!Next
<1>17. CASE UNCHANGED vars  BY <1>1, <1>17 DEF vars
<1>. QED
  BY <1>1, <1>3, <1>4, <1>5, <1>6, <1>7, <1>8, <1>9, <1>10, <1>11, <1>12, <1>13,
     <1>14, <1>15, <1>16, <1>17 DEF Next, Store

(* Seen through the uo: index, the step is the same. *)
LEMMA SameThroughUsers ==
  ASSUME OrderIndexesAgree, OrderIndexesAgree', [ByMint!Next]_(ByMint!vars)
  PROVE  [ByUser!Next]_(ByUser!vars)
<1>1. userOrders = orders /\ userOrders' = orders'  BY DEF OrderIndexesAgree
<1>2. CASE ByMint!Submit
  BY <1>1, <1>2 DEF ByMint!Submit, ByUser!Submit, ByUser!Next, ByMint!None, ByUser!None,
                    ByMint!Kinds, ByUser!Kinds
<1>3. CASE ByMint!Record
  <2>1. /\ ByUser!Booked(ev) = ByMint!Booked(ev) /\ ByUser!Noted(ev) = ByMint!Noted(ev)
        /\ ByUser!Logged(ev) = ByMint!Logged(ev) /\ ByUser!None = ByMint!None
        /\ ByUser!Kinds = ByMint!Kinds
    BY <1>1 DEF ByMint!Booked, ByUser!Booked, ByMint!Noted, ByUser!Noted, ByMint!Entry,
                ByUser!Entry, ByMint!None, ByUser!None, ByMint!Kinds, ByUser!Kinds,
                ByMint!Opening, ByUser!Opening, ByMint!Closing, ByUser!Closing,
                ByMint!Personal, ByUser!Personal, ByMint!Without, ByUser!Without,
                ByMint!Holding, ByUser!Holding, ByMint!Logged, ByUser!Logged
  <2>. QED  BY <1>1, <1>3, <2>1 DEF ByMint!Record, ByUser!Record, ByUser!Next
<1>4. CASE ByMint!Drop
  BY <1>1, <1>4 DEF ByMint!Drop, ByUser!Drop, ByUser!Next, ByMint!None, ByUser!None
<1>5. ASSUME NEW c \in TestCalls, ByMint!Place(c) PROVE ByUser!Next
  BY <1>1, <1>5 DEF ByMint!Place, ByUser!Place, ByUser!Next, ByMint!Without, ByUser!Without
<1>6. CASE UNCHANGED ByMint!vars
  BY <1>1, <1>6 DEF ByMint!vars, ByUser!vars
<1>. QED  BY <1>2, <1>3, <1>4, <1>5, <1>6 DEF ByMint!Next

(* The event store implements the ledger through each of its order indexes: *)
(* store_event's batch, filled from earlier reads and interleaved with test *)
(* orders, errors and crashes, records each event whole or not at all.     *)
THEOREM StoreImplementsLedger == OneKeyPerAccount => (Spec => ImplementsLedger)
<1>. SUFFICES ASSUME OneSide, OwnTestAccounts PROVE Spec => ImplementsLedger
  BY DEF OneKeyPerAccount
<1>1. Init => IndexInv /\ BatchInv
  BY DEF Init, IndexInv, BatchInv, UserOrdersListed, BatchInProgress
<1>2. Init => ByMint!Init /\ ByUser!Init
  BY DEF Init, ByMint!Init, ByUser!Init, NoEvent, ByMint!None, ByUser!None
<1>3. TypeOK /\ IndexInv /\ BatchInv /\ [Next]_vars => IndexInv' /\ BatchInv'
  BY IndexStep, BatchStep
<1>4. TypeOK /\ TypeOK' /\ IndexInv /\ IndexInv' /\ BatchInv /\ [Next]_vars
        => [ByMint!Next]_(ByMint!vars) /\ [ByUser!Next]_(ByUser!vars)
  <2>. SUFFICES ASSUME TypeOK, TypeOK', IndexInv, IndexInv', BatchInv, [Next]_vars
                PROVE  [ByMint!Next]_(ByMint!vars) /\ [ByUser!Next]_(ByUser!vars)
    OBVIOUS
  <2>1. OrderIndexesAgree  BY OneSideAgrees
  <2>2. OrderIndexesAgree'
    <3>1. \A q \in orders' \ userOrders' : q.pda \in Pdas /\ SidesOf[q.pda] = {1, 2}
      BY DEF TypeOK, Order, IndexInv, UserOrdersListed
    <3>2. orders' \subseteq userOrders'  BY <3>1 DEF OneSide
    <3>. QED  BY <3>2 DEF IndexInv, UserOrdersListed, OrderIndexesAgree
  <2>. QED  BY <2>1, <2>2, LedgerStep, SameThroughUsers
<1>. QED
  BY <1>1, <1>2, <1>3, <1>4, TypeCorrect, PTL
  DEF Spec, ImplementsLedger, ByMint!Spec, ByUser!Spec
=============================================================================
