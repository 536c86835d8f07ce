---------------------------- MODULE RecordsProofs ----------------------------
(* What the event store's tables say of one another, proved for every value *)
(* of the constants: candles, user history, markers, totals.               *)
EXTENDS EventStoreProofs, FiniteSetTheorems

-----------------------------------------------------------------------------
(* The chain's step and the event it emits *)

(* What is emitted carries one of the stamps the chain may use; it is the  *)
(* creation of a new mint, or an event of a mint created before.           *)
LiveCreated == \A q \in live : MintOf[q.pda] \in created

Emits(e, st) ==
  /\ Emit(e) /\ e.slot = st[1] /\ e.sig = st[2]
  /\ \/ e.kind = "tc" /\ e.mint \notin created /\ created' = created \cup {e.mint}
     \/ e.kind # "tc" /\ e.mint \in created /\ created' = created

LEMMA ChainEmits ==
  ASSUME TypeOK, LiveCreated, Chain
  PROVE  LiveCreated' /\ \E st \in Stamps, e \in Event : Emits(e, st)
<1>1. PICK st \in Stamps :
        \/ \E m \in Mints, u \in Users : CreateMint(m, u, st)
        \/ \E k \in {"bs", "md"}, m \in Mints, u \in Users : TradeMint(k, m, u, st)
        \/ \E p \in Pdas, t \in {1, 2} : OpenOrder(p, t, st)
        \/ \E q \in live : CutOrder(q, st)
        \/ \E q \in live, u \in Users : CloseOrder(q, u, st)
        \/ \E q \in live, u \in Users : LiquidateOrder(q, u, st)
  BY DEF Chain
<1>2. st[1] \in Nat /\ st[2] \in Nat  BY StampType DEF TypeOK
<1>3. live \subseteq Order  BY DEF TypeOK
<1>4. ASSUME NEW q \in live
      PROVE  /\ q \in Order /\ q.pda \in Pdas /\ q.user \in Users /\ q.otype \in {1, 2}
             /\ q.cut + 1 \in Nat /\ MintOf[q.pda] \in Mints /\ MintOf[q.pda] \in created
  BY <1>3, StoreAssumption DEF Order, LiveCreated
<1>5. ASSUME NEW m \in Mints, NEW u \in Users, CreateMint(m, u, st)
      PROVE  LiveCreated' /\ \E e \in Event : Emits(e, st)
  <2>. DEFINE e == Ev("tc", m, u, NoPda, 0, 0, st)
  <2>1. e \in Event  BY <1>2 DEF Ev, Event, Kinds
  <2>2. Emits(e, st)  BY <1>5 DEF Ev, Emits, CreateMint
  <2>3. LiveCreated'  BY <1>5 DEF CreateMint, LiveCreated
  <2>. QED  BY <2>1, <2>2, <2>3
<1>6. ASSUME NEW k \in {"bs", "md"}, NEW m \in Mints, NEW u \in Users, TradeMint(k, m, u, st)
      PROVE  LiveCreated' /\ \E e \in Event : Emits(e, st)
  <2>. DEFINE e == Ev(k, m, u, NoPda, 0, 0, st)
  <2>1. e \in Event  BY <1>2 DEF Ev, Event, Kinds
  <2>2. Emits(e, st)  BY <1>6 DEF Ev, Emits, TradeMint
  <2>3. LiveCreated'  BY <1>6 DEF TradeMint, LiveCreated
  <2>. QED  BY <2>1, <2>2, <2>3
<1>7. ASSUME NEW p \in Pdas, NEW t \in {1, 2}, OpenOrder(p, t, st)
      PROVE  LiveCreated' /\ \E e \in Event : Emits(e, st)
  <2>. DEFINE e == Ev("ls", MintOf[p], OwnerOf[p], p, t, 0, st)
  <2>0. OwnerOf[p] \in Users /\ MintOf[p] \in Mints  BY StoreAssumption
  <2>1. e \in Event  BY <1>2, <2>0 DEF Ev, Event, Kinds
  <2>2. Emits(e, st)  BY <1>7 DEF Ev, Emits, OpenOrder
  <2>3. LiveCreated'  BY <1>7 DEF OpenOrder, LiveCreated
  <2>. QED  BY <2>1, <2>2, <2>3
<1>8. ASSUME NEW q \in live, CutOrder(q, st)
      PROVE  LiveCreated' /\ \E e \in Event : Emits(e, st)
  <2>. DEFINE e == Ev("pc", MintOf[q.pda], q.user, q.pda, q.otype, q.cut + 1, st)
  <2>1. e \in Event  BY <1>2, <1>4 DEF Ev, Event, Kinds
  <2>2. Emits(e, st)  BY <1>4, <1>8 DEF Ev, Emits, CutOrder
  <2>3. [q EXCEPT !.cut = @ + 1].pda = q.pda  BY <1>4 DEF Order
  <2>4. LiveCreated'  BY <1>8, <2>3 DEF CutOrder, LiveCreated
  <2>. QED  BY <2>1, <2>2, <2>4
<1>9. ASSUME NEW q \in live, NEW u \in Users, CloseOrder(q, u, st)
      PROVE  LiveCreated' /\ \E e \in Event : Emits(e, st)
  <2>. DEFINE e == Ev("fc", MintOf[q.pda], u, q.pda, q.otype, 0, st)
  <2>1. e \in Event  BY <1>2, <1>4 DEF Ev, Event, Kinds
  <2>2. Emits(e, st)  BY <1>4, <1>9 DEF Ev, Emits, CloseOrder
  <2>3. LiveCreated'  BY <1>9 DEF CloseOrder, LiveCreated
  <2>. QED  BY <2>1, <2>2, <2>3
<1>10. ASSUME NEW q \in live, NEW u \in Users, LiquidateOrder(q, u, st)
      PROVE  LiveCreated' /\ \E e \in Event : Emits(e, st)
  <2>. DEFINE e == Ev("fl", MintOf[q.pda], u, q.pda, 0, 0, st)
  <2>1. e \in Event  BY <1>2, <1>4 DEF Ev, Event, Kinds
  <2>2. Emits(e, st)  BY <1>4, <1>10 DEF Ev, Emits, LiquidateOrder
  <2>3. LiveCreated'  BY <1>10 DEF LiquidateOrder, LiveCreated
  <2>. QED  BY <2>1, <2>2, <2>3
<1>. QED  BY <1>1, <1>5, <1>6, <1>7, <1>8, <1>9, <1>10

(* Only the chain changes what is open or created. *)
LEMMA OnlyChain ==
  ASSUME [Next]_vars, ~Chain
  PROVE  UNCHANGED chainVars
BY DEF Next, Redeliver, Store, Receive, Prepare, PutCandle, ReadDetail, WriteDetail, Commit,
       CandleError, StoreError, Crash, UriStep, FetchFails, FetchNothing, Fetched, WriteUri,
       TestIpfsWrite, TestIpfs, TestOrder, vars

LEMMA LiveCreatedAlways == Spec => []LiveCreated
<1>1. Init => LiveCreated  BY DEF Init, LiveCreated
<1>2. TypeOK /\ LiveCreated /\ [Next]_vars => LiveCreated'
  <2>1. TypeOK /\ LiveCreated /\ Chain => LiveCreated'  BY ChainEmits
  <2>2. LiveCreated /\ UNCHANGED chainVars => LiveCreated'
    BY DEF LiveCreated, chainVars
  <2>. QED  BY <2>1, <2>2, OnlyChain
<1>. QED  BY <1>1, <1>2, TypeCorrect, PTL DEF Spec

LEMMA BatchAlways == Spec => []BatchInv
<1>1. Init => BatchInv  BY DEF Init, BatchInv, BatchInProgress
<1>2. TypeOK /\ BatchInv /\ [Next]_vars => BatchInv'  BY BatchStep
<1>. QED  BY <1>1, <1>2, TypeCorrect, PTL DEF Spec

-----------------------------------------------------------------------------
(* The candles *)

(* Has the event under way passed more than n - 1 intervals of mint m?  The *)
(* inductive form counts the candles as if the passed intervals were undone. *)
Ahead(m, n) == IF pc = "candle" /\ ev.mint = m /\ todo > n THEN 1 ELSE 0

CandleInv ==
  \A m \in Mints :
    /\ candles[m]["s1"] + Ahead(m, 2) >= candles[m]["s30"] + Ahead(m, 1)
    /\ candles[m]["s30"] >= candles[m]["m5"] + Ahead(m, 2)
    /\ candles[m]["s1"] <= candles[m]["m5"] + faults + Ahead(m, 1)

LEMMA CandleStep ==
  ASSUME TypeOK, CandleInv, [Next]_vars
  PROVE  CandleInv'
<1>. USE DEF feedVars, chainVars, procVars, dbVars, batchedVars
<1>1. /\ faults \in Nat /\ todo \in 1..3
      /\ \A m \in Mints : /\ candles[m]["s1"] \in Nat /\ candles[m]["s30"] \in Nat
                          /\ candles[m]["m5"] \in Nat
  BY DEF TypeOK, IntervalSet
<1>2. ASSUME UNCHANGED <<candles, pc, ev, todo, faults>> PROVE CandleInv'
  BY <1>2 DEF CandleInv, Ahead
<1>3. ASSUME candles' = candles, pc # "candle", faults' \in {faults, faults + 1},
             pc' = "candle" => todo' = 1
      PROVE  CandleInv'
  BY <1>1, <1>3 DEF CandleInv, Ahead
<1>4. ASSUME candles' = candles, faults' = faults + 1, pc' # "candle" PROVE CandleInv'
  BY <1>1, <1>4 DEF CandleInv, Ahead
<1>5. CASE Chain
  BY <1>2, <1>5 DEF Chain, CreateMint, TradeMint, OpenOrder, CutOrder, CloseOrder,
                    LiquidateOrder, Emit
<1>6. ASSUME NEW e \in history, Redeliver(e) PROVE CandleInv'  BY <1>2, <1>6 DEF Redeliver
<1>7. CASE Receive  BY <1>3, <1>7 DEF Receive
<1>8. CASE Prepare  BY <1>3, <1>8 DEF Prepare
<1>9. CASE PutCandle
  <2>1. ev.mint \in Mints /\ pc = "candle"  BY <1>9 DEF PutCandle, TypeOK, Event
  <2>2. candles \in [Mints -> [IntervalSet -> Nat]]  BY DEF TypeOK
  <2>3. \A m \in Mints : m # ev.mint => candles'[m] = candles[m]
    BY <1>9, <2>2 DEF PutCandle
  <2>4. \A i \in IntervalSet :
          candles'[ev.mint][i] = IF i = Intervals[todo] THEN candles[ev.mint][i] + 1
                                                        ELSE candles[ev.mint][i]
    BY <1>9, <2>1, <2>2 DEF PutCandle
  <2>5. UNCHANGED <<ev, faults>>  BY <1>9 DEF PutCandle
  <2>6. CASE todo = 1
    <3>1. todo' = 2 /\ pc' = "candle" /\ Intervals[todo] = "s1"
      BY <1>9, <2>6 DEF PutCandle, Intervals
    <3>. QED  BY <1>1, <2>1, <2>3, <2>4, <2>5, <2>6, <3>1 DEF CandleInv, Ahead, IntervalSet
  <2>7. CASE todo = 2
    <3>1. todo' = 3 /\ pc' = "candle" /\ Intervals[todo] = "s30"
      BY <1>9, <2>7 DEF PutCandle, Intervals
    <3>. QED  BY <1>1, <2>1, <2>3, <2>4, <2>5, <2>7, <3>1 DEF CandleInv, Ahead, IntervalSet
  <2>8. CASE todo = 3
    <3>1. pc' = "readDetail" /\ Intervals[todo] = "m5"
      BY <1>9, <2>8 DEF PutCandle, Intervals
    <3>. QED  BY <1>1, <2>1, <2>3, <2>4, <2>5, <2>8, <3>1 DEF CandleInv, Ahead, IntervalSet
  <2>. QED  BY <1>1, <2>6, <2>7, <2>8
<1>10. CASE ReadDetail  BY <1>3, <1>10 DEF ReadDetail
<1>11. CASE WriteDetail  BY <1>3, <1>11 DEF WriteDetail
<1>12. CASE Commit  BY <1>3, <1>12 DEF Commit, Finish
<1>13. CASE CandleError  BY <1>4, <1>13 DEF CandleError
<1>14. CASE StoreError  BY <1>4, <1>14 DEF StoreError, Finish
<1>15. CASE Crash  BY <1>4, <1>15 DEF Crash, Finish
<1>16. ASSUME NEW t \in tasks, UriStep(t) \/ TestIpfsWrite(t) PROVE CandleInv'
  BY <1>2, <1>16 DEF UriStep, FetchFails, FetchNothing, Fetched, WriteUri, TestIpfsWrite
<1>17. ASSUME NEW m \in Mints, TestIpfs(m) PROVE CandleInv'  BY <1>2, <1>17 DEF TestIpfs
<1>18. ASSUME NEW c \in TestCalls, TestOrder(c[1], c[2]) PROVE CandleInv'
  BY <1>2, <1>18 DEF TestOrder
<1>19. CASE UNCHANGED vars  BY <1>2, <1>19 DEF vars
<1>. QED
  BY <1>5, <1>6, <1>7, <1>8, <1>9, <1>10, <1>11, <1>12, <1>13, <1>14, <1>15, <1>16,
     <1>17, <1>18, <1>19 DEF Next, Store

(* Whatever fails, crashes, is lost or repeated: the finer candles are never *)
(* behind the coarser ones, and ahead of them by no more than the errors and *)
(* crashes there were and the event under way.                             *)
THEOREM CandlesInStep == Spec => []IntervalsInStep
<1>1. Init => CandleInv  BY DEF Init, CandleInv, Ahead, IntervalSet
<1>2. TypeOK /\ CandleInv /\ [Next]_vars => CandleInv'  BY CandleStep
<1>3. TypeOK /\ CandleInv => IntervalsInStep
  <2>. SUFFICES ASSUME TypeOK, CandleInv, NEW m \in Mints
                PROVE  /\ candles[m]["s1"] >= candles[m]["s30"]
                       /\ candles[m]["s30"] >= candles[m]["m5"]
                       /\ candles[m]["s1"] <= candles[m]["m5"] + faults + Ahead(m, 1)
    BY DEF IntervalsInStep, Ahead
  <2>1. /\ candles[m]["s1"] \in Nat /\ candles[m]["s30"] \in Nat
        /\ candles[m]["m5"] \in Nat /\ todo \in 1..3
    BY DEF TypeOK, IntervalSet
  <2>. QED  BY <2>1 DEF CandleInv, Ahead
<1>. QED  BY <1>1, <1>2, <1>3, TypeCorrect, PTL DEF Spec

-----------------------------------------------------------------------------
(* The events still to be stored *)

Waiting == {feed[i] : i \in DOMAIN feed}
Pool == Waiting \cup history \cup (IF pc = "idle" THEN {} ELSE {ev})

LEMMA PoolType ==
  ASSUME TypeOK
  PROVE  Pool \subseteq Event
BY ElementOfSeq DEF Pool, Waiting, TypeOK

LEMMA AppendWaits ==
  ASSUME TypeOK, NEW e \in Event, feed' = Append(feed, e)
  PROVE  Waiting' = Waiting \cup {e}
<1>1. feed \in Seq(Event)  BY DEF TypeOK
<1>2. /\ DOMAIN feed' = 1..(Len(feed) + 1) /\ DOMAIN feed = 1..Len(feed)
      /\ \A i \in 1..Len(feed) : feed'[i] = feed[i]
      /\ feed'[Len(feed) + 1] = e /\ Len(feed) \in Nat
  BY <1>1, AppendProperties, LenProperties
<1>3. \A i : i \in 1..(Len(feed) + 1) <=> i \in 1..Len(feed) \/ i = Len(feed) + 1
  BY <1>2
<1>. QED  BY <1>2, <1>3 DEF Waiting

LEMMA TailWaits ==
  ASSUME TypeOK, feed # <<>>, feed' = Tail(feed)
  PROVE  Waiting = Waiting' \cup {Head(feed)}
<1>1. feed \in Seq(Event)  BY DEF TypeOK
<1>2. /\ DOMAIN feed = 1..Len(feed) /\ Len(feed) \in Nat \ {0} /\ Head(feed) = feed[1]
      /\ DOMAIN feed' = 1..(Len(feed) - 1)
      /\ \A i \in 1..(Len(feed) - 1) : feed'[i] = feed[i + 1]
  BY <1>1, HeadTailProperties, LenProperties, EmptySeq
<1>3. ASSUME NEW i \in DOMAIN feed PROVE feed[i] \in Waiting' \cup {feed[1]}
  <2>1. CASE i = 1  BY <2>1
  <2>2. CASE i # 1
    <3>1. i - 1 \in 1..(Len(feed) - 1) /\ (i - 1) + 1 = i  BY <1>2, <2>2
    <3>2. feed'[i - 1] = feed[i]  BY <1>2, <3>1
    <3>. QED  BY <1>2, <3>1, <3>2 DEF Waiting
  <2>. QED  BY <2>1, <2>2
<1>4. ASSUME NEW i \in DOMAIN feed' PROVE feed'[i] \in Waiting
  <2>1. i + 1 \in DOMAIN feed /\ feed'[i] = feed[i + 1]  BY <1>2
  <2>. QED  BY <2>1 DEF Waiting
<1>5. feed[1] \in Waiting  BY <1>2 DEF Waiting
<1>. QED  BY <1>2, <1>3, <1>4, <1>5 DEF Waiting

(* No event comes from anywhere but the chain. *)
LEMMA PoolEmit ==
  ASSUME TypeOK, NEW e \in Event, Emit(e)
  PROVE  Pool' \subseteq Pool \cup {e}
<1>1. Waiting' \subseteq Waiting \cup {e}
  BY AppendWaits DEF Emit, feedVars, Waiting
<1>2. history' \subseteq history \cup {e} /\ UNCHANGED <<pc, ev>>
  BY DEF Emit, feedVars, procVars
<1>. QED  BY <1>1, <1>2 DEF Pool

LEMMA PoolStep ==
  ASSUME TypeOK, [Next]_vars, ~Chain
  PROVE  Pool' \subseteq Pool
<1>. USE DEF feedVars, chainVars, procVars, dbVars, batchedVars
<1>1. ASSUME UNCHANGED <<feed, history>>, pc' # "idle" => pc # "idle" /\ ev' = ev
      PROVE  Pool' \subseteq Pool
  BY <1>1 DEF Pool, Waiting
<1>2. ASSUME NEW e \in history, Redeliver(e) PROVE Pool' \subseteq Pool
  <2>1. Waiting' = Waiting \cup {e}
    BY <1>2, AppendWaits DEF Redeliver, TypeOK
  <2>. QED  BY <1>2, <2>1 DEF Redeliver, Pool
<1>3. CASE Receive
  <2>1. Waiting = Waiting' \cup {ev'}  BY <1>3, TailWaits DEF Receive
  <2>. QED  BY <1>3, <2>1 DEF Receive, Pool
<1>4. CASE Crash  BY <1>4 DEF Crash, Finish, Pool, Waiting
<1>5. CASE Prepare \/ PutCandle \/ ReadDetail \/ WriteDetail \/ Commit
  BY <1>1, <1>5 DEF Prepare, PutCandle, ReadDetail, WriteDetail, Commit, Finish
<1>6. CASE CandleError \/ StoreError
  BY <1>1, <1>6 DEF CandleError, StoreError, Finish
<1>7. ASSUME NEW t \in tasks, UriStep(t) \/ TestIpfsWrite(t) PROVE Pool' \subseteq Pool
  BY <1>1, <1>7 DEF UriStep, FetchFails, FetchNothing, Fetched, WriteUri, TestIpfsWrite
<1>8. ASSUME NEW m \in Mints, TestIpfs(m) PROVE Pool' \subseteq Pool
  BY <1>1, <1>8 DEF TestIpfs
<1>9. ASSUME NEW c \in TestCalls, TestOrder(c[1], c[2]) PROVE Pool' \subseteq Pool
  BY <1>1, <1>9 DEF TestOrder
<1>10. CASE UNCHANGED vars  BY <1>1, <1>10 DEF vars
<1>. QED
  BY <1>2, <1>3, <1>4, <1>5, <1>6, <1>7, <1>8, <1>9, <1>10 DEF Next, Store

(* The log, the history and the markers change when a batch is written. *)
LEMMA OnlyCommit ==
  ASSUME [Next]_vars, ~Commit
  PROVE  UNCHANGED <<trades, userTx, markers>>
<1>. USE DEF feedVars, chainVars, procVars, dbVars, batchedVars
<1>1. CASE Chain
  BY <1>1 DEF Chain, CreateMint, TradeMint, OpenOrder, CutOrder, CloseOrder,
              LiquidateOrder, Emit
<1>. QED
  BY <1>1 DEF Next, Redeliver, Store, Receive, Prepare, PutCandle, ReadDetail, WriteDetail,
     CandleError, StoreError, Crash, UriStep, FetchFails, FetchNothing, Fetched, WriteUri,
     TestIpfsWrite, TestIpfs, TestOrder, vars

-----------------------------------------------------------------------------
(* What a commit makes of the log *)

LEMMA CommitTrades ==
  ASSUME BatchInv, Commit
  PROVE  trades' = {r \in trades : ~SameTradeKey(r, TradeRec(ev))} \cup {TradeRec(ev)}
BY DEF Commit, BatchInv, BatchInProgress, WriteTrades

LEMMA FiniteAlways == Spec => []IsFiniteSet(trades)
<1>1. Init => IsFiniteSet(trades)  BY FS_EmptySet DEF Init
<1>2. BatchInv /\ IsFiniteSet(trades) /\ [Next]_vars => IsFiniteSet(trades)'
  <2>. SUFFICES ASSUME BatchInv, IsFiniteSet(trades), [Next]_vars PROVE IsFiniteSet(trades')
    OBVIOUS
  <2>1. CASE Commit
    <3>1. IsFiniteSet({r \in trades : ~SameTradeKey(r, TradeRec(ev))})  BY FS_Subset
    <3>. QED  BY <2>1, <3>1, CommitTrades, FS_AddElement
  <2>2. CASE ~Commit  BY <2>2, OnlyCommit
  <2>. QED  BY <2>1, <2>2
<1>. QED  BY <1>1, <1>2, BatchAlways, PTL DEF Spec

-----------------------------------------------------------------------------
(* The tasks *)

(* A task goes on for its own mint, and knows of the totals only what it   *)
(* read in the detail record.                                              *)
LEMMA TaskSteps ==
  ASSUME TypeOK, NEW t \in tasks, UriStep(t) \/ TestIpfsWrite(t), NEW u \in tasks'
  PROVE  /\ u.mint = t.mint \/ u \in tasks
         /\ u.copy \in {details[u.mint], EmptyDetail} \/ \E v \in tasks : u.mint = v.mint /\ u.copy = v.copy
<1>1. t \in [mint : Mints, phase : {"fetch", "write", "test"}, try : 1..MaxRetries,
             copy : Detail]
  BY DEF TypeOK
<1>2. CASE u \in tasks  BY <1>2
<1>3. CASE FetchFails(t) /\ u \notin tasks
  <2>. DEFINE v == [t EXCEPT !.try = @ + 1]
  <2>1. u = v  BY <1>3 DEF FetchFails, Replace
  <2>2. v.mint = t.mint /\ v.copy = t.copy  BY <1>1
  <2>. QED  BY <2>1, <2>2
<1>4. CASE (FetchNothing(t) \/ WriteUri(t)) /\ u \notin tasks
  BY <1>4 DEF FetchNothing, WriteUri
<1>5. CASE Fetched(t) /\ u \notin tasks
  <2>1. u = Task(t.mint, "write", t.try, details[t.mint])  BY <1>5 DEF Fetched, Replace
  <2>. QED  BY <2>1 DEF Task
<1>6. CASE TestIpfsWrite(t) /\ u \notin tasks
  <2>1. u = Task(t.mint, "fetch", 1, EmptyDetail)  BY <1>6 DEF TestIpfsWrite, Replace
  <2>. QED  BY <2>1 DEF Task
<1>. QED  BY <1>2, <1>3, <1>4, <1>5, <1>6 DEF UriStep

-----------------------------------------------------------------------------
(* The markers *)

(* Nothing is delivered again and no test call writes a detail record: then *)
(* the detail record of a mint appears with its first event, which is the  *)
(* creation unless the creation was lost.                                  *)
CreationsFirst == Env \cap {"redeliver", "testipfs"} = {}

(* A creation on its way is the first event of its mint: no event of the   *)
(* mint is before it, no detail record of the mint exists until its own is *)
(* put, and then its batch holds the marker.                               *)
MarkerInv ==
  /\ MarkersMatchCreations
  /\ history = {}
  /\ known \subseteq created
  /\ \A x \in Pool : x.mint \in created
  /\ \A t \in tasks : t.mint \in known
  /\ \A i \in DOMAIN feed : feed[i].kind = "tc" =>
       /\ feed[i].mint \notin known
       /\ \A j \in DOMAIN feed : j < i => feed[j].mint # feed[i].mint
       /\ pc # "idle" => ev.mint # feed[i].mint
  /\ pc \in {"prepare", "candle", "readDetail", "writeDetail"} /\ ev.kind = "tc"
       => ev.mint \notin known
  /\ BatchInProgress =>
       batch.marker = IF ev.kind = "tc" THEN {<<ev.slot, ev.mint>>} ELSE {}

LEMMA MarkerEmit ==
  ASSUME TypeOK, MarkerInv, CreationsFirst, NEW st \in Stamps, NEW e \in Event, Emits(e, st)
  PROVE  MarkerInv'
<1>1. UNCHANGED <<pc, ev, batch, trades, markers, known, tasks>>
  BY DEF Emits, Emit, procVars, dbVars, batchedVars
<1>2. history' = {}  BY DEF Emits, Emit, feedVars, MarkerInv, CreationsFirst
<1>3. created \subseteq created' /\ e.mint \in created'
      /\ (e.kind = "tc" => e.mint \notin created)
  BY DEF Emits
<1>4. Pool' \subseteq Pool \cup {e}  BY PoolEmit DEF Emits
<1>5. ASSUME NEW i \in DOMAIN feed', feed'[i].kind = "tc"
      PROVE  /\ feed'[i].mint \notin known
             /\ \A j \in DOMAIN feed' : j < i => feed'[j].mint # feed'[i].mint
             /\ pc # "idle" => ev.mint # feed'[i].mint
  <2>1. CASE feed' = feed  BY <1>5, <2>1 DEF MarkerInv
  <2>2. CASE feed' = Append(feed, e)
    <3>1. feed \in Seq(Event)  BY DEF TypeOK
    <3>2. /\ DOMAIN feed' = 1..(Len(feed) + 1) /\ DOMAIN feed = 1..Len(feed)
          /\ \A j \in 1..Len(feed) : feed'[j] = feed[j]
          /\ feed'[Len(feed) + 1] = e /\ Len(feed) \in Nat
      BY <2>2, <3>1, AppendProperties, LenProperties
    <3>3. CASE i \in DOMAIN feed
      <4>1. \A j \in DOMAIN feed' : j < i => j \in DOMAIN feed  BY <3>2, <3>3
      <4>. QED  BY <1>5, <3>2, <3>3, <4>1 DEF MarkerInv
    <3>4. CASE i = Len(feed) + 1
      <4>1. e.mint \notin created  BY <1>3, <1>5, <3>2, <3>4
      <4>2. \A j \in DOMAIN feed' : j < i => feed'[j] \in Pool
        BY <3>2, <3>4 DEF Pool, Waiting
      <4>3. pc # "idle" => ev \in Pool  BY DEF Pool
      <4>. QED  BY <3>2, <3>4, <4>1, <4>2, <4>3 DEF MarkerInv
    <3>. QED  BY <3>2, <3>3, <3>4
  <2>. QED  BY <2>1, <2>2 DEF Emits, Emit, feedVars
<1>6. \A x \in Pool' : x.mint \in created'  BY <1>3, <1>4 DEF MarkerInv
<1>. QED
  BY <1>1, <1>2, <1>3, <1>5, <1>6 DEF MarkerInv, MarkersMatchCreations, BatchInProgress

LEMMA MarkerStep ==
  ASSUME TypeOK, LiveCreated, BatchInv, MarkerInv, [Next]_vars, CreationsFirst
  PROVE  MarkerInv'
<1>. USE DEF feedVars, chainVars, procVars, dbVars, batchedVars
<1>1. CASE Chain  BY <1>1, ChainEmits, MarkerEmit
<1>. SUFFICES ASSUME ~Chain PROVE MarkerInv'  BY <1>1
<1>2. Pool' \subseteq Pool /\ created' = created
  BY PoolStep, OnlyChain
<1>3. ASSUME UNCHANGED <<trades, markers, known, feed, history, ev, batch>>,
             \A t \in tasks' : t.mint \in known,
             BatchInProgress' => BatchInProgress,
             pc # "commit", pc # "idle"
      PROVE  MarkerInv'
  BY <1>2, <1>3 DEF MarkerInv, MarkersMatchCreations, BatchInProgress, TypeOK
<1>4. ASSUME UNCHANGED <<trades, markers, known, feed, history, pc, ev, batch>>,
             \A t \in tasks' : t.mint \in known
      PROVE  MarkerInv'
  BY <1>2, <1>4 DEF MarkerInv, MarkersMatchCreations, BatchInProgress
<1>5. ASSUME UNCHANGED <<trades, markers, known, history>>, Finish,
             \A t \in tasks' : t.mint \in known, feed' \in {feed, <<>>}
      PROVE  MarkerInv'
  BY <1>2, <1>5 DEF MarkerInv, MarkersMatchCreations, BatchInProgress, Finish
<1>6. \A t \in tasks : t.mint \in known  BY DEF MarkerInv
<1>7. ASSUME NEW e \in history, Redeliver(e) PROVE MarkerInv'
  BY <1>7 DEF Redeliver, CreationsFirst
<1>8. CASE Receive
  <2>1. feed \in Seq(Event) /\ feed # <<>>  BY <1>8 DEF Receive, TypeOK
  <2>2. /\ DOMAIN feed = 1..Len(feed) /\ Len(feed) \in Nat \ {0} /\ ev' = feed[1]
        /\ DOMAIN feed' = 1..(Len(feed) - 1)
        /\ \A i \in 1..(Len(feed) - 1) : feed'[i] = feed[i + 1]
    BY <1>8, <2>1, HeadTailProperties, LenProperties, EmptySeq DEF Receive
  <2>3. ASSUME NEW i \in DOMAIN feed', feed'[i].kind = "tc"
        PROVE  /\ feed'[i].mint \notin known
               /\ \A j \in DOMAIN feed' : j < i => feed'[j].mint # feed'[i].mint
               /\ ev'.mint # feed'[i].mint
    <3>1. i + 1 \in DOMAIN feed /\ 1 < i + 1 /\ 1 \in DOMAIN feed /\ feed'[i] = feed[i + 1]
      BY <2>2
    <3>2. \A j \in DOMAIN feed' : j < i => j + 1 \in DOMAIN feed /\ j + 1 < i + 1
                                           /\ feed'[j] = feed[j + 1]
      BY <2>2
    <3>. QED  BY <2>2, <2>3, <3>1, <3>2 DEF MarkerInv
  <2>4. ev'.kind = "tc" => ev'.mint \notin known  BY <2>2 DEF MarkerInv
  <2>. QED
    BY <1>2, <1>6, <1>8, <2>3, <2>4
    DEF Receive, MarkerInv, MarkersMatchCreations, BatchInProgress
<1>9. CASE Prepare
  <2>1. batch'.marker = IF ev.kind = "tc" THEN {<<ev.slot, ev.mint>>} ELSE {}
    BY <1>9 DEF Prepare, BatchOf, MarkerInv
  <2>. QED
    BY <1>2, <1>6, <1>9, <2>1
    DEF Prepare, MarkerInv, MarkersMatchCreations, BatchInProgress
<1>10. CASE PutCandle  BY <1>3, <1>6, <1>10 DEF PutCandle, BatchInProgress
<1>11. CASE ReadDetail  BY <1>3, <1>6, <1>11 DEF ReadDetail, BatchInProgress
<1>12. CASE WriteDetail
  <2>1. ev \in Pool /\ ev.mint \in created  BY <1>12 DEF WriteDetail, Pool, MarkerInv
  <2>2. known' = known \cup {ev.mint} /\ \A t \in tasks' : t.mint \in known'
    BY <1>6, <1>12 DEF WriteDetail, SpawnFetch, Task
  <2>3. UNCHANGED <<feed, history, ev, batch, trades, markers>> /\ pc = "writeDetail"
        /\ pc' = "commit"
    BY <1>12 DEF WriteDetail
  <2>. QED
    BY <1>2, <2>1, <2>2, <2>3 DEF MarkerInv, MarkersMatchCreations, BatchInProgress
<1>13. CASE Commit
  <2>1. /\ ev \in Event
        /\ batch.marker = IF ev.kind = "tc" THEN {<<ev.slot, ev.mint>>} ELSE {}
    BY <1>13 DEF Commit, BatchInv, MarkerInv, BatchInProgress, TypeOK
  <2>2. MarkersMatchCreations'
    <3>. DEFINE k == TradeRec(ev)
    <3>1. /\ trades' = {r \in trades : ~SameTradeKey(r, k)} \cup {k}
          /\ markers' = markers \cup batch.marker
      BY <1>13, CommitTrades DEF Commit
    <3>2. k.kind = ev.kind /\ k.slot = ev.slot /\ k.mint = ev.mint
      BY DEF TradeRec
    <3>. HIDE DEF k
    <3>3. ASSUME NEW r \in trades, r.kind = "tc", SameTradeKey(r, k)
          PROVE  <<r.slot, r.mint>> = <<k.slot, k.mint>> /\ k.kind = "tc"
      BY <3>3 DEF SameTradeKey
    <3>4. {<<r.slot, r.mint>> : r \in {t \in trades' : t.kind = "tc"}}
            = {<<r.slot, r.mint>> : r \in {t \in trades : t.kind = "tc"}} \cup batch.marker
      BY <2>1, <3>1, <3>2, <3>3
    <3>. QED  BY <3>1, <3>4 DEF MarkerInv, MarkersMatchCreations
  <2>. QED
    BY <1>2, <1>6, <1>13, <2>2 DEF Commit, Finish, MarkerInv, BatchInProgress
<1>14. CASE CandleError  BY <1>3, <1>6, <1>14 DEF CandleError, BatchInProgress
<1>15. CASE StoreError  BY <1>5, <1>6, <1>15 DEF StoreError
<1>16. CASE Crash  BY <1>5, <1>6, <1>16 DEF Crash
<1>17. ASSUME NEW t \in tasks, UriStep(t) \/ TestIpfsWrite(t) PROVE MarkerInv'
  <2>1. t.mint \in known /\ known' = known  BY <1>6, <1>17
    DEF UriStep, FetchFails, FetchNothing, Fetched, WriteUri, TestIpfsWrite
  <2>2. \A u \in tasks' : u.mint \in known
    BY <1>6, <1>17, TaskSteps
  <2>3. UNCHANGED <<trades, markers, feed, history, pc, ev, batch>>
    BY <1>17 DEF UriStep, FetchFails, FetchNothing, Fetched, WriteUri, TestIpfsWrite
  <2>. QED  BY <1>4, <2>1, <2>2, <2>3
<1>18. ASSUME NEW m \in Mints, TestIpfs(m) PROVE MarkerInv'
  BY <1>18 DEF TestIpfs, CreationsFirst
<1>19. ASSUME NEW c \in TestCalls, TestOrder(c[1], c[2]) PROVE MarkerInv'
  BY <1>4, <1>6, <1>19 DEF TestOrder
<1>20. CASE UNCHANGED vars  BY <1>4, <1>6, <1>20 DEF vars
<1>. QED
  BY <1>7, <1>8, <1>9, <1>10, <1>11, <1>12, <1>13, <1>14, <1>15, <1>16, <1>17, <1>18,
     <1>19, <1>20 DEF Next, Store

(* Where the node repeats nothing and /api/test-ipfs is not called, a mint  *)
(* is listed exactly if its creation is recorded, although store_event     *)
(* tests for the detail record and puts that record before the marker.     *)
THEOREM MarkersAreCreations == CreationsFirst => (Spec => []MarkersMatchCreations)
<1>. SUFFICES ASSUME CreationsFirst PROVE Spec => []MarkersMatchCreations
  OBVIOUS
<1>1. Init => MarkerInv
  BY DEF Init, MarkerInv, MarkersMatchCreations, Pool, Waiting, BatchInProgress
<1>2. TypeOK /\ LiveCreated /\ BatchInv /\ MarkerInv /\ [Next]_vars => MarkerInv'
  BY MarkerStep
<1>3. MarkerInv => MarkersMatchCreations  BY DEF MarkerInv
<1>. QED  BY <1>1, <1>2, <1>3, TypeCorrect, LiveCreatedAlways, BatchAlways, PTL DEF Spec

-----------------------------------------------------------------------------
(* The order of the events *)

(* The node repeats no event: then the events reach the store in the order *)
(* of their transactions, whatever is lost, and so they are recorded.      *)
NoRepeats == "redeliver" \notin Env

(* Moreover each transaction emits one event: then none has the key of one *)
(* recorded before.                                                        *)
EachOnce == Env \cap {"redeliver", "sametx"} = {}

(* What is recorded comes before what is under way, that before what waits, *)
(* and all of it before what the chain emits next.                         *)
Before(a, b) == a < b \/ (a = b /\ "sametx" \in Env)

OrderInv ==
  /\ history = {}
  /\ \A x \in Pool : x.sig <= tx
  /\ \A i, j \in DOMAIN feed : i < j => Before(feed[i].sig, feed[j].sig)
  /\ pc # "idle" => \A i \in DOMAIN feed : Before(ev.sig, feed[i].sig)
  /\ \A r \in trades : r.sig <= tx /\ \A x \in Pool : Before(r.sig, x.sig)

LEMMA OrderEmit ==
  ASSUME TypeOK, OrderInv, NoRepeats, NEW st \in Stamps, NEW e \in Event, Emits(e, st)
  PROVE  OrderInv'
<1>1. /\ tx \in Nat /\ tx' = e.sig
      /\ e.sig = tx + 1 \/ (e.sig = tx /\ "sametx" \in Env)
  BY DEF TypeOK, Emits, Emit, Stamps
<1>2. UNCHANGED <<pc, ev, trades>> /\ history' = {}
  BY DEF Emits, Emit, procVars, dbVars, batchedVars, feedVars, OrderInv, NoRepeats
<1>3. Pool' \subseteq Pool \cup {e}  BY PoolEmit DEF Emits
<1>4. /\ \A x \in Pool : x.sig \in Nat /\ x.sig <= e.sig /\ Before(x.sig, e.sig)
      /\ \A r \in trades : r.sig \in Nat /\ r.sig <= e.sig /\ Before(r.sig, e.sig)
  <2>1. \A x \in Pool : x.sig \in Nat  BY PoolType DEF Event
  <2>2. \A r \in trades : r.sig \in Nat  BY DEF TypeOK, Trade
  <2>. QED  BY <1>1, <2>1, <2>2 DEF OrderInv, Before
<1>5. \A i \in DOMAIN feed : feed[i] \in Pool  BY DEF Pool, Waiting
<1>6. /\ \A i, j \in DOMAIN feed' : i < j => Before(feed'[i].sig, feed'[j].sig)
      /\ pc # "idle" => \A i \in DOMAIN feed' : Before(ev.sig, feed'[i].sig)
  <2>1. CASE feed' = feed  BY <2>1 DEF OrderInv
  <2>2. CASE feed' = Append(feed, e)
    <3>1. feed \in Seq(Event)  BY DEF TypeOK
    <3>2. /\ DOMAIN feed' = 1..(Len(feed) + 1) /\ DOMAIN feed = 1..Len(feed)
          /\ \A j \in 1..Len(feed) : feed'[j] = feed[j]
          /\ feed'[Len(feed) + 1] = e /\ Len(feed) \in Nat
      BY <2>2, <3>1, AppendProperties, LenProperties
    <3>3. ASSUME NEW i \in DOMAIN feed', NEW j \in DOMAIN feed', i < j
          PROVE  Before(feed'[i].sig, feed'[j].sig)
      <4>1. i \in DOMAIN feed /\ feed'[i] = feed[i] /\ feed[i] \in Pool
        BY <1>5, <3>2, <3>3
      <4>2. CASE j \in DOMAIN feed  BY <3>2, <3>3, <4>1, <4>2 DEF OrderInv
      <4>3. CASE j = Len(feed) + 1  BY <1>4, <3>2, <4>1, <4>3
      <4>. QED  BY <3>2, <4>2, <4>3
    <3>4. ASSUME NEW i \in DOMAIN feed', pc # "idle" PROVE Before(ev.sig, feed'[i].sig)
      <4>1. ev \in Pool  BY <3>4 DEF Pool
      <4>2. CASE i \in DOMAIN feed  BY <3>2, <3>4, <4>2 DEF OrderInv
      <4>3. CASE i = Len(feed) + 1  BY <1>4, <3>2, <4>1, <4>3
      <4>. QED  BY <3>2, <4>2, <4>3
    <3>. QED  BY <3>3, <3>4
  <2>. QED  BY <2>1, <2>2 DEF Emits, Emit, feedVars
<1>7. \A x \in Pool' : x.sig <= tx'  BY <1>1, <1>3, <1>4
<1>8. \A r \in trades : r.sig <= tx' /\ \A x \in Pool' : Before(r.sig, x.sig)
  BY <1>1, <1>3, <1>4 DEF OrderInv
<1>. QED  BY <1>2, <1>6, <1>7, <1>8 DEF OrderInv, Before

LEMMA OrderStep ==
  ASSUME TypeOK, LiveCreated, BatchInv, OrderInv, [Next]_vars, NoRepeats
  PROVE  OrderInv'
<1>. USE DEF feedVars, chainVars, procVars, dbVars, batchedVars
<1>1. CASE Chain  BY <1>1, ChainEmits, OrderEmit
<1>. SUFFICES ASSUME ~Chain PROVE OrderInv'  BY <1>1
<1>2. Pool' \subseteq Pool /\ tx' = tx  BY PoolStep, OnlyChain
<1>3. ASSUME UNCHANGED <<trades, history>>, feed' \in {feed, <<>>},
             pc' # "idle" => pc # "idle" /\ ev' = ev
      PROVE  OrderInv'
  BY <1>2, <1>3 DEF OrderInv
<1>4. ASSUME NEW e \in history, Redeliver(e) PROVE OrderInv'
  BY <1>4 DEF OrderInv
<1>5. CASE Receive
  <2>1. feed \in Seq(Event) /\ feed # <<>>  BY <1>5 DEF Receive, TypeOK
  <2>2. /\ DOMAIN feed = 1..Len(feed) /\ Len(feed) \in Nat \ {0} /\ ev' = feed[1]
        /\ DOMAIN feed' = 1..(Len(feed) - 1)
        /\ \A i \in 1..(Len(feed) - 1) : feed'[i] = feed[i + 1]
    BY <1>5, <2>1, HeadTailProperties, LenProperties, EmptySeq DEF Receive
  <2>3. \A i \in DOMAIN feed' : i + 1 \in DOMAIN feed /\ feed'[i] = feed[i + 1] /\ 1 < i + 1
    BY <2>2
  <2>4. \A i, j \in DOMAIN feed' : i < j => i + 1 < j + 1  BY <2>2
  <2>5. \A i, j \in DOMAIN feed' : i < j => Before(feed'[i].sig, feed'[j].sig)
    BY <2>3, <2>4 DEF OrderInv
  <2>6. \A i \in DOMAIN feed' : Before(ev'.sig, feed'[i].sig)
    BY <2>2, <2>3 DEF OrderInv
  <2>. QED  BY <1>2, <1>5, <2>5, <2>6 DEF Receive, OrderInv
<1>6. CASE Commit
  <2>1. trades' \subseteq trades \cup {TradeRec(ev)} /\ TradeRec(ev).sig = ev.sig
    BY <1>6, CommitTrades DEF TradeRec
  <2>2. ev \in Pool /\ UNCHANGED <<feed, history>> /\ pc' = "idle" /\ pc # "idle"
    BY <1>6 DEF Commit, Finish, Pool
  <2>3. Pool' \subseteq {feed[i] : i \in DOMAIN feed}
    BY <2>2 DEF Pool, Waiting, OrderInv
  <2>4. \A x \in Pool' : Before(ev.sig, x.sig)  BY <2>2, <2>3 DEF OrderInv
  <2>6. \A r \in trades' : r.sig <= tx /\ \A x \in Pool' : Before(r.sig, x.sig)
    BY <1>2, <2>1, <2>2, <2>4 DEF OrderInv
  <2>. QED  BY <1>2, <2>2, <2>6 DEF OrderInv, Before
<1>7. CASE Prepare \/ PutCandle \/ ReadDetail \/ WriteDetail
  BY <1>3, <1>7 DEF Prepare, PutCandle, ReadDetail, WriteDetail
<1>8. CASE CandleError \/ StoreError \/ Crash
  BY <1>3, <1>8 DEF CandleError, StoreError, Crash, Finish
<1>9. ASSUME NEW t \in tasks, UriStep(t) \/ TestIpfsWrite(t) PROVE OrderInv'
  BY <1>3, <1>9 DEF UriStep, FetchFails, FetchNothing, Fetched, WriteUri, TestIpfsWrite
<1>10. ASSUME NEW m \in Mints, TestIpfs(m) PROVE OrderInv'  BY <1>3, <1>10 DEF TestIpfs
<1>11. ASSUME NEW c \in TestCalls, TestOrder(c[1], c[2]) PROVE OrderInv'
  BY <1>3, <1>11 DEF TestOrder
<1>12. CASE UNCHANGED vars  BY <1>3, <1>12 DEF vars
<1>. QED
  BY <1>4, <1>5, <1>6, <1>7, <1>8, <1>9, <1>10, <1>11, <1>12 DEF Next, Store

LEMMA OrderAlways == NoRepeats => (Spec => []OrderInv)
<1>. SUFFICES ASSUME NoRepeats PROVE Spec => []OrderInv
  OBVIOUS
<1>1. Init => OrderInv  BY DEF Init, OrderInv, Pool, Waiting
<1>2. TypeOK /\ LiveCreated /\ BatchInv /\ OrderInv /\ [Next]_vars => OrderInv'
  BY OrderStep
<1>. QED  BY <1>1, <1>2, TypeCorrect, LiveCreatedAlways, BatchAlways, PTL DEF Spec

LEMMA EachOnceOrdered == EachOnce => NoRepeats
BY DEF EachOnce, NoRepeats

-----------------------------------------------------------------------------
(* The user history *)

LEMMA HistoryStep ==
  ASSUME TypeOK, BatchInv, HistoryOfEachSlot, [Next]_vars, OrderInv \/ ~NoRepeats
  PROVE  HistoryOfEachSlot'
<1>1. CASE ~Commit
  BY <1>1, OnlyCommit DEF HistoryOfEachSlot
<1>2. CASE Commit
  <2>. DEFINE k == TradeRec(ev)
              u == UserTxRec(ev)
  <2>1. trades' = {r \in trades : ~SameTradeKey(r, k)} \cup {k}  BY <1>2, CommitTrades
  <2>2. userTx' = IF ev.kind \in UserKinds
                    THEN {q \in userTx : ~SameUserTxKey(u, q)} \cup {u} ELSE userTx
    <3>1. userTx' = WriteUserTx(userTx, batch)  BY <1>2 DEF Commit
    <3>2. batch.userTx = IF ev.kind \in UserKinds THEN {u} ELSE {}
      BY <1>2 DEF Commit, BatchInv, BatchInProgress, BatchOf
    <3>. QED  BY <3>1, <3>2 DEF WriteUserTx
  <2>3. /\ SameUserTxKey(u, k) /\ SameTradeKey(k, u)
        /\ k.kind = ev.kind /\ k.sig = ev.sig /\ u.sig = ev.sig
    BY DEF TradeRec, UserTxRec, SameUserTxKey, SameTradeKey
  <2>4. ev \in Event /\ ev.sig \in Nat /\ ev \in Pool
    BY <1>2 DEF Commit, TypeOK, Event, Pool
  <2>5. NoRepeats => \A r \in trades : ev.sig >= r.sig
    <3>1. \A r \in trades : r.sig \in Nat  BY DEF TypeOK, Trade
    <3>. QED  BY <2>4, <3>1 DEF OrderInv, Before
  <2>. HIDE DEF k, u
  <2>6. ASSUME NEW r \in trades', r.kind \in UserKinds
        PROVE  \E q \in userTx' : SameUserTxKey(q, r) /\ (q.sig >= r.sig \/ ~NoRepeats)
    <3>1. CASE r = k
      <4>1. u \in userTx'  BY <2>2, <2>3, <2>6, <3>1
      <4>. QED  BY <2>3, <2>4, <3>1, <4>1
    <3>2. CASE r \in trades
      <4>1. PICK q \in userTx : SameUserTxKey(q, r) /\ (q.sig >= r.sig \/ ~NoRepeats)
        BY <2>6, <3>2 DEF HistoryOfEachSlot, NoRepeats
      <4>2. CASE q \in userTx'  BY <4>1, <4>2
      <4>3. CASE q \notin userTx'
        <5>1. u \in userTx' /\ SameUserTxKey(u, q)  BY <2>2, <4>3
        <5>2. SameUserTxKey(u, r)  BY <4>1, <5>1 DEF SameUserTxKey
        <5>. QED  BY <2>3, <2>5, <3>2, <5>1, <5>2
      <4>. QED  BY <4>2, <4>3
    <3>. QED  BY <2>1, <3>1, <3>2
  <2>7. ASSUME NEW q \in userTx'
        PROVE  \E r \in trades' : SameTradeKey(r, q)
    <3>1. CASE q = u  BY <2>1, <2>3, <3>1
    <3>2. CASE q \in userTx
      <4>1. PICK r \in trades : SameTradeKey(r, q)  BY <3>2 DEF HistoryOfEachSlot
      <4>2. CASE r \in trades'  BY <4>1, <4>2
      <4>3. CASE r \notin trades'
        <5>1. k \in trades' /\ SameTradeKey(r, k)  BY <2>1, <4>3
        <5>. QED  BY <4>1, <5>1 DEF SameTradeKey
      <4>. QED  BY <4>2, <4>3
    <3>. QED  BY <2>2, <3>1, <3>2
  <2>. QED  BY <2>6, <2>7 DEF HistoryOfEachSlot, NoRepeats
<1>. QED  BY <1>1, <1>2

(* Whatever is lost, repeated, interrupted or written by test calls, and    *)
(* however many events a slot or a transaction holds: each recorded event  *)
(* of a user has an entry for its mint and slot in that user's history, the *)
(* last one's unless the node repeats events, and every entry is recorded. *)
THEOREM HistoryIsKept == Spec => []HistoryOfEachSlot
<1>1. Init => HistoryOfEachSlot  BY DEF Init, HistoryOfEachSlot
<1>2. ASSUME NoRepeats PROVE Spec => []HistoryOfEachSlot
  <2>1. TypeOK /\ BatchInv /\ OrderInv /\ HistoryOfEachSlot /\ [Next]_vars
          => HistoryOfEachSlot'
    BY HistoryStep
  <2>. QED  BY <1>1, <1>2, <2>1, TypeCorrect, BatchAlways, OrderAlways, PTL DEF Spec
<1>3. ASSUME ~NoRepeats PROVE Spec => []HistoryOfEachSlot
  <2>1. TypeOK /\ BatchInv /\ HistoryOfEachSlot /\ [Next]_vars => HistoryOfEachSlot'
    BY <1>3, HistoryStep
  <2>. QED  BY <1>1, <2>1, TypeCorrect, BatchAlways, PTL DEF Spec
<1>. QED  BY <1>2, <1>3

-----------------------------------------------------------------------------
(* The records that count for a total *)

RecordsFor(m, s) == {r \in trades : r.mint = m /\ r.kind \in KindsOf(s)}

LEMMA RecordedType ==
  ASSUME IsFiniteSet(trades), NEW m, NEW s
  PROVE  Recorded(m, s) \in Nat /\ IsFiniteSet(RecordsFor(m, s))
<1>1. IsFiniteSet(RecordsFor(m, s))  BY FS_Subset DEF RecordsFor
<1>. QED  BY <1>1, FS_CardinalityType DEF Recorded, RecordsFor

Counts(m, s) == IF ev.mint = m /\ ev.kind \in KindsOf(s) THEN 1 ELSE 0

(* The batch adds at most one record to those that count for a total. *)
LEMMA CommitGrows ==
  ASSUME IsFiniteSet(trades), BatchInv, Commit, NEW m, NEW s
  PROVE  Recorded(m, s)' \in Nat /\ Recorded(m, s)' <= Recorded(m, s) + Counts(m, s)
<1>. DEFINE k == TradeRec(ev)
<1>1. trades' = {r \in trades : ~SameTradeKey(r, k)} \cup {k}  BY CommitTrades
<1>2. k.mint = ev.mint /\ k.kind = ev.kind  BY DEF TradeRec
<1>. HIDE DEF k
<1>3. /\ IsFiniteSet(RecordsFor(m, s)) /\ Recorded(m, s) \in Nat
      /\ Recorded(m, s) = Cardinality(RecordsFor(m, s))
  BY RecordedType DEF Recorded, RecordsFor
<1>4. Recorded(m, s)' = Cardinality(RecordsFor(m, s)')
  BY DEF Recorded, RecordsFor
<1>5. CASE ev.mint = m /\ ev.kind \in KindsOf(s)
  <2>1. RecordsFor(m, s)' \subseteq RecordsFor(m, s) \cup {k}
    BY <1>1 DEF RecordsFor, KindsOf
  <2>2. /\ IsFiniteSet(RecordsFor(m, s) \cup {k})
        /\ Cardinality(RecordsFor(m, s) \cup {k}) \in {Recorded(m, s), Recorded(m, s) + 1}
    BY <1>3, FS_AddElement
  <2>3. /\ IsFiniteSet(RecordsFor(m, s)')
        /\ Cardinality(RecordsFor(m, s)') <= Cardinality(RecordsFor(m, s) \cup {k})
    BY <2>1, <2>2, FS_Subset
  <2>4. Cardinality(RecordsFor(m, s)') \in Nat  BY <2>3, FS_CardinalityType
  <2>. QED  BY <1>3, <1>4, <1>5, <2>2, <2>3, <2>4 DEF Counts
<1>6. CASE ~(ev.mint = m /\ ev.kind \in KindsOf(s))
  <2>1. RecordsFor(m, s)' \subseteq RecordsFor(m, s)
    BY <1>1, <1>2, <1>6 DEF RecordsFor, KindsOf
  <2>2. /\ IsFiniteSet(RecordsFor(m, s)')
        /\ Cardinality(RecordsFor(m, s)') <= Cardinality(RecordsFor(m, s))
    BY <1>3, <2>1, FS_Subset
  <2>3. Cardinality(RecordsFor(m, s)') \in Nat  BY <2>2, FS_CardinalityType
  <2>. QED  BY <1>3, <1>4, <1>6, <2>2, <2>3 DEF Counts
<1>. QED  BY <1>5, <1>6

(* A fresh event replaces no record. *)
LEMMA CommitAdds ==
  ASSUME TypeOK, BatchInv, OrderInv, EachOnce, Commit
  PROVE  trades' = trades \cup {TradeRec(ev)} /\ TradeRec(ev) \notin trades
<1>1. ev \in Pool /\ ev.sig \in Nat /\ TradeRec(ev).sig = ev.sig
  BY DEF Commit, Pool, TypeOK, Event, TradeRec
<1>2. \A r \in trades : r.sig < ev.sig /\ r.sig \in Nat
  BY <1>1 DEF OrderInv, Before, EachOnce, TypeOK, Trade
<1>3. \A r \in trades : ~SameTradeKey(r, TradeRec(ev))
  BY <1>1, <1>2 DEF SameTradeKey
<1>. QED  BY <1>1, <1>2, <1>3, CommitTrades

LEMMA CommitCounts ==
  ASSUME TypeOK, BatchInv, OrderInv, EachOnce, IsFiniteSet(trades), Commit, NEW m, NEW s
  PROVE  Recorded(m, s)' = Recorded(m, s) + Counts(m, s)
<1>. DEFINE k == TradeRec(ev)
<1>1. /\ trades' = trades \cup {k} /\ k \notin trades
      /\ k.mint = ev.mint /\ k.kind = ev.kind
  BY CommitAdds DEF TradeRec
<1>2. /\ IsFiniteSet(RecordsFor(m, s)) /\ Recorded(m, s) \in Nat
      /\ Recorded(m, s) = Cardinality(RecordsFor(m, s))
  BY RecordedType DEF Recorded, RecordsFor
<1>3. Recorded(m, s)' = Cardinality(RecordsFor(m, s)')
  BY DEF Recorded, RecordsFor
<1>. HIDE DEF k
<1>4. CASE ev.mint = m /\ ev.kind \in KindsOf(s)
  <2>1. RecordsFor(m, s)' = RecordsFor(m, s) \cup {k}  BY <1>1, <1>4 DEF RecordsFor, KindsOf
  <2>2. k \notin RecordsFor(m, s)  BY <1>1 DEF RecordsFor
  <2>. QED  BY <1>2, <1>3, <1>4, <2>1, <2>2, FS_AddElement DEF Counts
<1>5. CASE ~(ev.mint = m /\ ev.kind \in KindsOf(s))
  <2>1. RecordsFor(m, s)' = RecordsFor(m, s)  BY <1>1, <1>5 DEF RecordsFor, KindsOf
  <2>. QED  BY <1>2, <1>3, <1>5, <2>1 DEF Counts
<1>. QED  BY <1>4, <1>5

-----------------------------------------------------------------------------
(* The totals *)

(* The event under way counts in the detail record and is not yet recorded. *)
Pending(m, s) == IF pc = "commit" THEN Counts(m, s) ELSE 0

(* What bounds the totals bounds every copy of them that a writer holds:   *)
(* store_event's own and those of the tasks.                               *)
OverInv ==
  /\ \A m \in Mints, s \in Stats :
       details[m].tot[s] <= Recorded(m, s) + faults + Pending(m, s)
  /\ \A t \in tasks, s \in Stats :
       t.copy.tot[s] <= Recorded(t.mint, s) + faults + Pending(t.mint, s)
  /\ pc = "writeDetail" =>
       \A s \in Stats : copy.tot[s] <= Recorded(ev.mint, s) + faults

LEMMA TotalTypes ==
  ASSUME TypeOK, IsFiniteSet(trades)
  PROVE  /\ faults \in Nat /\ copy \in Detail
         /\ \A m \in Mints, s \in Stats :
              /\ details[m].tot[s] \in Nat /\ Recorded(m, s) \in Nat
              /\ Pending(m, s) \in {0, 1}
         /\ \A s \in Stats : copy.tot[s] \in Nat
         /\ \A t \in tasks, s \in Stats : t.mint \in Mints /\ t.copy.tot[s] \in Nat
         /\ pc # "idle" => ev.mint \in Mints
BY RecordedType DEF TypeOK, Detail, Event, Pending, Counts

(* What was so of a copy stays so as the records and the faults grow. *)
LEMMA OverGrows ==
  ASSUME TypeOK, IsFiniteSet(trades), OverInv,
         UNCHANGED <<trades, details>>, faults' \in {faults, faults + 1},
         \A m, s : Pending(m, s) <= Pending(m, s)' + (faults' - faults),
         \A u \in tasks' : \/ u.mint \in Mints /\ u.copy \in {details[u.mint], EmptyDetail}
                           \/ \E v \in tasks : u.mint = v.mint /\ u.copy = v.copy,
         pc' = "writeDetail" =>
           /\ pc \in {"readDetail", "writeDetail"} /\ UNCHANGED <<ev, faults>>
           /\ pc = "readDetail" => copy' = details[ev.mint]
           /\ pc = "writeDetail" => copy' = copy
  PROVE  OverInv'
<1>. USE TotalTypes
<1>1. \A m, s : Recorded(m, s)' = Recorded(m, s)  BY DEF Recorded
<1>2. \A m, s : Pending(m, s) \in {0, 1} /\ Pending(m, s)' \in {0, 1}  BY DEF Pending, Counts
<1>3. \A m \in Mints, s \in Stats :
        Recorded(m, s) + faults + Pending(m, s) <= Recorded(m, s)' + faults' + Pending(m, s)'
  BY <1>1, <1>2
<1>4. \A m \in Mints, s \in Stats :
        details'[m].tot[s] <= Recorded(m, s)' + faults' + Pending(m, s)'
  BY <1>1, <1>2, <1>3 DEF OverInv
<1>5. ASSUME NEW u \in tasks', NEW s \in Stats
      PROVE  u.copy.tot[s] <= Recorded(u.mint, s)' + faults' + Pending(u.mint, s)'
  <2>1. CASE \E v \in tasks : u.mint = v.mint /\ u.copy = v.copy
    BY <1>1, <1>2, <1>3, <2>1 DEF OverInv
  <2>2. CASE u.mint \in Mints /\ u.copy = details[u.mint]
    BY <1>1, <1>2, <1>3, <2>2 DEF OverInv
  <2>3. CASE u.mint \in Mints /\ u.copy = EmptyDetail
    BY <1>1, <1>2, <2>3 DEF EmptyDetail
  <2>. QED  BY <2>1, <2>2, <2>3
<1>6. ASSUME pc' = "writeDetail", NEW s \in Stats
      PROVE  copy'.tot[s] <= Recorded(ev.mint, s) + faults
  <2>1. pc = "readDetail" => Pending(ev.mint, s) = 0  BY DEF Pending, Counts
  <2>2. ev.mint \in Mints  BY <1>6
  <2>. QED  BY <1>6, <2>1, <2>2 DEF OverInv
<1>7. pc' = "writeDetail" => UNCHANGED <<ev, faults>>  OBVIOUS
<1>8. pc' = "writeDetail" =>
        \A s \in Stats : copy'.tot[s] <= Recorded(ev.mint, s)' + faults'
  <2>1. pc' = "writeDetail" =>
          \A s \in Stats : Recorded(ev.mint, s)' = Recorded(ev.mint, s)
    BY <1>7 DEF Recorded
  <2>. QED  BY <1>6, <1>7, <2>1
<1>. QED  BY <1>4, <1>5, <1>8 DEF OverInv

LEMMA OverStep ==
  ASSUME TypeOK, IsFiniteSet(trades), BatchInv, OrderInv, EachOnce, OverInv, [Next]_vars
  PROVE  OverInv'
<1>. USE DEF feedVars, chainVars, procVars, dbVars, batchedVars
<1>0. /\ faults \in Nat
      /\ \A t \in tasks : t.mint \in Mints
      /\ \A m, s : Pending(m, s) \in {0, 1} /\ Pending(m, s)' \in {0, 1}
  BY TotalTypes DEF Pending, Counts, TypeOK
<1>1. ASSUME UNCHANGED <<pc, ev, copy, tasks, trades, details, faults>> PROVE OverInv'
  BY <1>1 DEF OverInv, Recorded, Pending, Counts
<1>2. ASSUME UNCHANGED <<tasks, trades, details, faults>>, pc # "commit",
             pc' # "writeDetail"
      PROVE  OverInv'
  <2>1. \A m, s : Pending(m, s) = 0  BY <1>2 DEF Pending, Counts
  <2>. QED  BY <1>0, <1>2, <2>1, OverGrows
<1>3. ASSUME UNCHANGED <<trades, details>>, tasks' \in {tasks, {}}, faults' = faults + 1,
             pc' # "writeDetail"
      PROVE  OverInv'
  BY <1>0, <1>3, OverGrows
<1>4. CASE Chain
  BY <1>1, <1>4 DEF Chain, CreateMint, TradeMint, OpenOrder, CutOrder, CloseOrder,
                    LiquidateOrder, Emit
<1>5. ASSUME NEW e \in history, Redeliver(e) PROVE OverInv'  BY <1>1, <1>5 DEF Redeliver
<1>6. CASE Receive  BY <1>2, <1>6 DEF Receive
<1>7. CASE Prepare  BY <1>2, <1>7 DEF Prepare
<1>8. CASE PutCandle  BY <1>2, <1>8 DEF PutCandle
<1>9. CASE ReadDetail
  <2>1. \A m, s : Pending(m, s) = 0  BY <1>9 DEF ReadDetail, Pending, Counts
  <2>. QED  BY <1>0, <1>9, <2>1, OverGrows DEF ReadDetail
<1>10. CASE WriteDetail
  <2>1. /\ pc = "writeDetail" /\ pc' = "commit" /\ ev \in Event /\ ev.mint \in Mints
        /\ UNCHANGED <<ev, trades, faults>>
    BY <1>10 DEF WriteDetail, TypeOK, Event
  <2>2. \A m, s : /\ Recorded(m, s)' = Recorded(m, s) /\ Pending(m, s) = 0
                  /\ Pending(m, s)' = IF ev.mint = m /\ ev.kind \in KindsOf(s) THEN 1 ELSE 0
    BY <2>1 DEF Recorded, Pending, Counts, KindsOf
  <2>3. details' = [details EXCEPT ![ev.mint] = ApplyEvent(copy, ev)]
    BY <1>10 DEF WriteDetail
  <2>4. ASSUME NEW s \in Stats
        PROVE  ApplyEvent(copy, ev).tot[s]
                 <= copy.tot[s] + (IF ev.kind \in KindsOf(s) THEN 1 ELSE 0)
    BY TotalTypes, StoreAssumption DEF ApplyEvent, SatAdd
  <2>5. ASSUME NEW m \in Mints, NEW s \in Stats
        PROVE  details'[m].tot[s] <= Recorded(m, s)' + faults' + Pending(m, s)'
    <3>1. CASE m = ev.mint
      <4>1. details'[m].tot[s] = ApplyEvent(copy, ev).tot[s]
        BY <2>3, <3>1 DEF TypeOK
      <4>2. ApplyEvent(copy, ev).tot[s] \in Nat
        BY ApplyType, TotalTypes DEF Detail
      <4>3. copy.tot[s] <= Recorded(m, s) + faults  BY <2>1, <3>1 DEF OverInv
      <4>. QED  BY <2>1, <2>2, <2>4, <3>1, <4>1, <4>2, <4>3, TotalTypes
    <3>2. CASE m # ev.mint
      <4>1. details'[m] = details[m]  BY <2>3, <3>2 DEF TypeOK
      <4>. QED  BY <2>1, <2>2, <3>2, <4>1, TotalTypes DEF OverInv
    <3>. QED  BY <3>1, <3>2
  <2>6. ASSUME NEW u \in tasks', NEW s \in Stats
        PROVE  u.copy.tot[s] <= Recorded(u.mint, s)' + faults' + Pending(u.mint, s)'
    <3>1. u \in tasks \/ (u.copy = EmptyDetail /\ u.mint = ev.mint)
      BY <1>10 DEF WriteDetail, SpawnFetch, Task
    <3>2. CASE u \in tasks
      BY <1>0, <2>1, <2>2, <3>2, TotalTypes DEF OverInv
    <3>3. CASE u.copy = EmptyDetail /\ u.mint = ev.mint
      <4>1. u.copy.tot[s] = 0  BY <3>3 DEF EmptyDetail
      <4>. QED  BY <1>0, <2>1, <2>2, <3>3, <4>1, TotalTypes
    <3>. QED  BY <3>1, <3>2, <3>3
  <2>. QED  BY <2>1, <2>5, <2>6 DEF OverInv
<1>11. CASE Commit
  <2>1. /\ pc = "commit" /\ pc' = "idle" /\ UNCHANGED <<details, tasks, faults>>
        /\ ev.mint \in Mints
    BY <1>11, TotalTypes DEF Commit, Finish
  <2>2. \A m, s : /\ Recorded(m, s)' = Recorded(m, s) + Pending(m, s)
                  /\ Pending(m, s)' = 0
    BY <1>11, <2>1, CommitCounts DEF Pending, Counts
  <2>. QED  BY <1>0, <2>1, <2>2, TotalTypes DEF OverInv
<1>12. CASE CandleError  BY <1>3, <1>12 DEF CandleError
<1>13. CASE StoreError  BY <1>3, <1>13 DEF StoreError, Finish
<1>14. CASE Crash  BY <1>3, <1>14 DEF Crash, Finish
<1>15. ASSUME NEW t \in tasks, UriStep(t) \/ TestIpfsWrite(t) PROVE OverInv'
  <2>1. UNCHANGED <<pc, ev, copy, trades, faults>>
    BY <1>15 DEF UriStep, FetchFails, FetchNothing, Fetched, WriteUri, TestIpfsWrite
  <2>2. \A m, s : Recorded(m, s)' = Recorded(m, s) /\ Pending(m, s)' = Pending(m, s)
    BY <2>1 DEF Recorded, Pending, Counts, KindsOf
  <2>3. t.mint \in Mints /\ t.copy \in Detail  BY DEF TypeOK
  <2>4. \A m \in Mints :
          details'[m].tot = details[m].tot \/ (m = t.mint /\ details'[m].tot = t.copy.tot)
    <3>1. CASE UNCHANGED details  BY <3>1
    <3>2. /\ [t.copy EXCEPT !.uri = TRUE].tot = t.copy.tot
          /\ [t.copy EXCEPT !.created = TRUE].tot = t.copy.tot
      BY <2>3 DEF Detail
    <3>3. ASSUME NEW d, d.tot = t.copy.tot, details' = [details EXCEPT ![t.mint] = d]
          PROVE  \A m \in Mints :
                   details'[m].tot = details[m].tot \/ (m = t.mint /\ details'[m].tot = t.copy.tot)
      BY <2>3, <3>3 DEF TypeOK
    <3>4. \/ UNCHANGED details
          \/ details' = [details EXCEPT ![t.mint] = [t.copy EXCEPT !.uri = TRUE]]
          \/ details' = [details EXCEPT ![t.mint] = [t.copy EXCEPT !.created = TRUE]]
      BY <1>15 DEF UriStep, FetchFails, FetchNothing, Fetched, WriteUri, TestIpfsWrite
    <3>. QED
      BY <3>1, <3>2, <3>3, <3>4
  <2>5. \A m \in Mints, s \in Stats :
          details'[m].tot[s] <= Recorded(m, s)' + faults' + Pending(m, s)'
    BY <2>1, <2>2, <2>4 DEF OverInv
  <2>6. ASSUME NEW u \in tasks', NEW s \in Stats
        PROVE  u.copy.tot[s] <= Recorded(u.mint, s)' + faults' + Pending(u.mint, s)'
    <3>1. u.mint \in Mints  BY <1>0, <1>15, TaskSteps
    <3>2. CASE u.copy = EmptyDetail
      <4>1. u.copy.tot[s] = 0  BY <3>2 DEF EmptyDetail
      <4>. QED  BY <1>0, <2>1, <2>2, <3>1, <4>1, TotalTypes
    <3>3. CASE u.copy = details[u.mint]
      BY <2>1, <2>2, <3>1, <3>3 DEF OverInv
    <3>4. CASE \E v \in tasks : u.mint = v.mint /\ u.copy = v.copy
      BY <2>1, <2>2, <3>4 DEF OverInv
    <3>. QED  BY <1>15, <3>2, <3>3, <3>4, TaskSteps
  <2>7. pc' = "writeDetail" =>
          \A s \in Stats : copy'.tot[s] <= Recorded(ev.mint, s)' + faults'
    BY <2>1 DEF OverInv, Recorded
  <2>. QED  BY <2>5, <2>6, <2>7 DEF OverInv
<1>16. ASSUME NEW m \in Mints, TestIpfs(m) PROVE OverInv'
  <2>1. UNCHANGED <<pc, ev, copy, trades, details, faults>>
    BY <1>16 DEF TestIpfs
  <2>2. \A k, s : Pending(k, s) = Pending(k, s)'  BY <2>1 DEF Pending, Counts
  <2>3. \A u \in tasks' : u \in tasks \/ (u.mint = m /\ u.copy = details[m])
    BY <1>16 DEF TestIpfs, Task
  <2>. QED  BY <1>0, <2>1, <2>2, <2>3, OverGrows
<1>17. ASSUME NEW c \in TestCalls, TestOrder(c[1], c[2]) PROVE OverInv'
  BY <1>1, <1>17 DEF TestOrder
<1>18. CASE UNCHANGED vars  BY <1>1, <1>18 DEF vars
<1>. QED
  BY <1>4, <1>5, <1>6, <1>7, <1>8, <1>9, <1>10, <1>11, <1>12, <1>13, <1>14, <1>15,
     <1>16, <1>17, <1>18 DEF Next, Store

(* Where the node repeats nothing and a transaction emits one event, the   *)
(* detail record never counts more than what is recorded, what was cut     *)
(* short and what is under way, although three writers overwrite it with   *)
(* copies they read before.                                                *)
THEOREM TotalsNeverOvercount == EachOnce => (Spec => []NeverOvercounted)
<1>. SUFFICES ASSUME EachOnce PROVE Spec => []NeverOvercounted
  OBVIOUS
<1>1. Init => OverInv
  <2>. SUFFICES ASSUME Init PROVE OverInv  OBVIOUS
  <2>1. \A m, s : Recorded(m, s) = 0 /\ Pending(m, s) = 0
    BY FS_EmptySet DEF Init, Recorded, Pending, Counts
  <2>. QED  BY <2>1 DEF Init, OverInv, EmptyDetail
<1>2. TypeOK /\ IsFiniteSet(trades) /\ BatchInv /\ OrderInv /\ OverInv /\ [Next]_vars
        => OverInv'
  BY OverStep
<1>3. TypeOK /\ IsFiniteSet(trades) /\ OverInv => NeverOvercounted
  <2>. SUFFICES ASSUME TypeOK, IsFiniteSet(trades), OverInv, NEW m \in Mints, NEW s \in Stats
                PROVE  details[m].tot[s] <= Recorded(m, s) + faults
                                              + (IF pc = "commit" THEN 1 ELSE 0)
    BY DEF NeverOvercounted
  <2>. QED  BY TotalTypes DEF OverInv, Pending, Counts
<1>. QED  BY <1>1, <1>2, <1>3, TypeCorrect, BatchAlways, OrderAlways, FiniteAlways,
          EachOnceOrdered, PTL DEF Spec

(* A copy that store_event holds without URI data was the whole of the     *)
(* detail record, and no event has been recorded since it was read.        *)
UnderInv ==
  /\ \A t \in tasks : t.phase # "test"
  /\ \A m \in Mints, s \in Stats :
       ~details[m].uri /\ details[m].tot[s] < TotalMax
         => Recorded(m, s) + Pending(m, s) <= details[m].tot[s]
  /\ pc = "writeDetail" =>
       \A s \in Stats : ~copy.uri /\ copy.tot[s] < TotalMax
                          => Recorded(ev.mint, s) <= copy.tot[s]

LEMMA UnderStep ==
  ASSUME TypeOK, IsFiniteSet(trades), BatchInv, UnderInv, [Next]_vars, "testipfs" \notin Env
  PROVE  UnderInv'
<1>. USE DEF feedVars, chainVars, procVars, dbVars, batchedVars
<1>0. \A m, s : Pending(m, s) \in {0, 1} /\ Recorded(m, s) \in Nat
  BY RecordedType DEF Pending, Counts
<1>1. ASSUME UNCHANGED <<pc, ev, copy, trades, details>>,
             \A u \in tasks' : u.phase # "test"
      PROVE  UnderInv'
  BY <1>1 DEF UnderInv, Recorded, Pending, Counts
<1>2. ASSUME UNCHANGED <<trades, details>>, tasks' \subseteq tasks,
             pc' \notin {"writeDetail", "commit"}
      PROVE  UnderInv'
  <2>1. \A m, s : Recorded(m, s)' = Recorded(m, s) /\ Pending(m, s)' = 0
    BY <1>2 DEF Recorded, Pending
  <2>2. \A m \in Mints, s \in Stats : details[m].tot[s] \in Nat
    BY TotalTypes
  <2>3. \A m \in Mints, s \in Stats :
          ~details[m].uri /\ details[m].tot[s] < TotalMax => Recorded(m, s) <= details[m].tot[s]
    BY <1>0, <2>2 DEF UnderInv
  <2>. QED  BY <1>0, <1>2, <2>1, <2>3 DEF UnderInv
<1>3. \A t \in tasks : t.phase # "test"  BY DEF UnderInv
<1>4. CASE Chain
  BY <1>1, <1>3, <1>4 DEF Chain, CreateMint, TradeMint, OpenOrder, CutOrder, CloseOrder,
                          LiquidateOrder, Emit
<1>5. ASSUME NEW e \in history, Redeliver(e) PROVE UnderInv'
  BY <1>1, <1>3, <1>5 DEF Redeliver
<1>6. CASE Receive  BY <1>2, <1>6 DEF Receive
<1>7. CASE Prepare  BY <1>2, <1>7 DEF Prepare
<1>8. CASE PutCandle  BY <1>2, <1>8 DEF PutCandle
<1>9. CASE ReadDetail
  <2>1. /\ copy' = details[ev.mint] /\ ev.mint \in Mints /\ pc' = "writeDetail"
        /\ UNCHANGED <<ev, tasks, trades, details>>
    BY <1>9, TotalTypes DEF ReadDetail
  <2>2. \A m, s : /\ Recorded(m, s)' = Recorded(m, s)
                  /\ Pending(m, s) = 0 /\ Pending(m, s)' = 0
    BY <1>9, <2>1 DEF ReadDetail, Recorded, Pending
  <2>3. \A m \in Mints, s \in Stats :
          ~details[m].uri /\ details[m].tot[s] < TotalMax => Recorded(m, s) <= details[m].tot[s]
    BY <1>0, <2>2 DEF UnderInv
  <2>. QED  BY <1>0, <1>3, <2>1, <2>2, <2>3 DEF UnderInv
<1>10. CASE WriteDetail
  <2>1. /\ pc = "writeDetail" /\ pc' = "commit" /\ ev \in Event /\ ev.mint \in Mints
        /\ UNCHANGED <<ev, trades>>
    BY <1>10 DEF WriteDetail, TypeOK, Event
  <2>2. \A m, s : /\ Recorded(m, s)' = Recorded(m, s) /\ Pending(m, s) = 0
                  /\ Pending(m, s)' = Counts(m, s)
    BY <2>1 DEF Recorded, Pending, Counts, KindsOf
  <2>3. details' = [details EXCEPT ![ev.mint] = ApplyEvent(copy, ev)]
    BY <1>10 DEF WriteDetail
  <2>4. \A u \in tasks' : u.phase # "test"
    BY <1>3, <1>10 DEF WriteDetail, SpawnFetch, Task
  <2>5. ASSUME NEW m \in Mints, NEW s \in Stats,
               ~details'[m].uri, details'[m].tot[s] < TotalMax
        PROVE  Recorded(m, s)' + Pending(m, s)' <= details'[m].tot[s]
    <3>1. CASE m = ev.mint
      <4>1. details'[m] = ApplyEvent(copy, ev)  BY <2>3, <3>1 DEF TypeOK
      <4>2. /\ details'[m].uri = copy.uri
            /\ details'[m].tot[s] = SatAdd(copy.tot[s], Counts(m, s))
        BY <3>1, <4>1 DEF ApplyEvent, Counts
      <4>3. copy.tot[s] \in Nat /\ Counts(m, s) \in {0, 1} /\ TotalMax \in Nat
        BY TotalTypes, StoreAssumption DEF Counts
      <4>4. copy.tot[s] < TotalMax /\ details'[m].tot[s] = copy.tot[s] + Counts(m, s)
        BY <2>5, <4>2, <4>3 DEF SatAdd
      <4>5. Recorded(m, s) <= copy.tot[s]
        BY <2>1, <2>5, <3>1, <4>2, <4>4 DEF UnderInv
      <4>. QED  BY <1>0, <2>2, <4>3, <4>4, <4>5
    <3>2. CASE m # ev.mint
      <4>1. details'[m] = details[m] /\ Counts(m, s) = 0
        BY <2>3, <3>2 DEF TypeOK, Counts
      <4>2. Recorded(m, s) + Pending(m, s) <= details[m].tot[s]
        BY <2>5, <4>1 DEF UnderInv
      <4>. QED  BY <1>0, <2>2, <4>1, <4>2
    <3>. QED  BY <3>1, <3>2
  <2>. QED  BY <2>1, <2>4, <2>5 DEF UnderInv
<1>11. CASE Commit
  <2>1. /\ pc = "commit" /\ pc' = "idle" /\ UNCHANGED <<details, tasks>>
    BY <1>11 DEF Commit, Finish
  <2>2. \A m, s : /\ Recorded(m, s)' \in Nat
                  /\ Recorded(m, s)' <= Recorded(m, s) + Pending(m, s)
                  /\ Pending(m, s)' = 0
    BY <1>11, <2>1, CommitGrows DEF Pending
  <2>3. ASSUME NEW m \in Mints, NEW s \in Stats,
               ~details[m].uri, details[m].tot[s] < TotalMax
        PROVE  Recorded(m, s)' + Pending(m, s)' <= details[m].tot[s]
    <3>1. Recorded(m, s) + Pending(m, s) <= details[m].tot[s] /\ details[m].tot[s] \in Nat
      BY <2>3, TotalTypes DEF UnderInv
    <3>. QED  BY <1>0, <2>2, <3>1
  <2>. QED  BY <1>3, <2>1, <2>3 DEF UnderInv
<1>12. CASE CandleError  BY <1>2, <1>12 DEF CandleError
<1>13. CASE StoreError  BY <1>2, <1>13 DEF StoreError, Finish
<1>14. CASE Crash  BY <1>2, <1>14 DEF Crash, Finish
<1>15. ASSUME NEW t \in tasks, UriStep(t) PROVE UnderInv'
  <2>1. UNCHANGED <<pc, ev, copy, trades>>
    BY <1>15 DEF UriStep, FetchFails, FetchNothing, Fetched, WriteUri
  <2>2. t \in [mint : Mints, phase : {"fetch", "write", "test"}, try : 1..MaxRetries,
               copy : Detail]
    BY DEF TypeOK
  <2>3. \A u \in tasks' : u.phase # "test"
    <3>1. [t EXCEPT !.try = @ + 1].phase = t.phase  BY <2>2
    <3>2. Task(t.mint, "write", t.try, details[t.mint]).phase = "write"  BY DEF Task
    <3>3. tasks' \subseteq tasks \cup {[t EXCEPT !.try = @ + 1],
                                      Task(t.mint, "write", t.try, details[t.mint])}
      BY <1>15 DEF UriStep, FetchFails, FetchNothing, Fetched, WriteUri, Replace
    <3>. QED  BY <1>3, <3>1, <3>2, <3>3
  <2>4. CASE UNCHANGED details  BY <1>1, <2>1, <2>3, <2>4
  <2>5. CASE WriteUri(t)
    <3>1. details' = [details EXCEPT ![t.mint] = [t.copy EXCEPT !.uri = TRUE]]
      BY <2>5 DEF WriteUri
    <3>2. [t.copy EXCEPT !.uri = TRUE].uri = TRUE  BY <2>2 DEF Detail
    <3>3. \A m \in Mints : details'[m] = details[m] \/ details'[m].uri
      BY <2>2, <3>1, <3>2 DEF TypeOK
    <3>4. \A m, s : Recorded(m, s)' = Recorded(m, s) /\ Pending(m, s)' = Pending(m, s)
      BY <2>1 DEF Recorded, Pending, Counts, KindsOf
    <3>5. \A m \in Mints, s \in Stats :
            ~details'[m].uri /\ details'[m].tot[s] < TotalMax
              => Recorded(m, s)' + Pending(m, s)' <= details'[m].tot[s]
      BY <3>3, <3>4 DEF UnderInv
    <3>6. pc' = "writeDetail" =>
            \A s \in Stats : ~copy.uri /\ copy.tot[s] < TotalMax
                               => Recorded(ev.mint, s)' <= copy.tot[s]
      BY <2>1, <3>4 DEF UnderInv
    <3>. QED  BY <2>1, <2>3, <3>5, <3>6 DEF UnderInv
  <2>. QED  BY <1>15, <2>4, <2>5 DEF UriStep, FetchFails, FetchNothing, Fetched
<1>16. ASSUME NEW t \in tasks, TestIpfsWrite(t) PROVE UnderInv'
  BY <1>3, <1>16 DEF TestIpfsWrite
<1>17. ASSUME NEW m \in Mints, TestIpfs(m) PROVE UnderInv'
  BY <1>17 DEF TestIpfs
<1>18. ASSUME NEW c \in TestCalls, TestOrder(c[1], c[2]) PROVE UnderInv'
  BY <1>1, <1>3, <1>18 DEF TestOrder
<1>19. CASE UNCHANGED vars  BY <1>1, <1>3, <1>19 DEF vars
<1>. QED
  BY <1>4, <1>5, <1>6, <1>7, <1>8, <1>9, <1>10, <1>11, <1>12, <1>13, <1>14, <1>15,
     <1>16, <1>17, <1>18, <1>19 DEF Next, Store

(* As long as /api/test-ipfs is not called, and whatever is lost, repeated, *)
(* interrupted or shares a key: a detail record no URI task has written     *)
(* counts every recorded event of its mint, up to the cap, although the     *)
(* record is put before the batch and by several writers.                  *)
THEOREM RecordsAreCounted == "testipfs" \notin Env => (Spec => []RecordsCounted)
<1>. SUFFICES ASSUME "testipfs" \notin Env PROVE Spec => []RecordsCounted
  OBVIOUS
<1>1. Init => UnderInv
  <2>. SUFFICES ASSUME Init PROVE UnderInv  OBVIOUS
  <2>1. \A m, s : Recorded(m, s) = 0 /\ Pending(m, s) = 0
    BY FS_EmptySet DEF Init, Recorded, Pending
  <2>. QED  BY <2>1 DEF Init, UnderInv, EmptyDetail
<1>2. TypeOK /\ IsFiniteSet(trades) /\ BatchInv /\ UnderInv /\ [Next]_vars => UnderInv'
  BY UnderStep
<1>3. TypeOK /\ IsFiniteSet(trades) /\ UnderInv => RecordsCounted
  <2>. SUFFICES ASSUME TypeOK, IsFiniteSet(trades), UnderInv, NEW m \in Mints, NEW s \in Stats,
                       ~details[m].uri, details[m].tot[s] < TotalMax
                PROVE  Recorded(m, s) <= details[m].tot[s]
    BY DEF RecordsCounted
  <2>. QED  BY TotalTypes DEF UnderInv
<1>. QED  BY <1>1, <1>2, <1>3, TypeCorrect, BatchAlways, FiniteAlways, PTL DEF Spec

-----------------------------------------------------------------------------
(* The store catches up with the chain: with a listener that loses nothing *)
(* and a process that does not stop, what is stored once every event is    *)
(* handled is what the chain did.  First the event log.                    *)

Undisturbed == Env \cap {"loss", "crash", "fail", "redeliver"} = {}

(* Every event emitted is recorded, in store_event or waiting. *)
CountInv == Cardinality(trades) + Len(feed) + (IF pc = "idle" THEN 0 ELSE 1) = emitted

LEMMA CountStep ==
  ASSUME TypeOK, LiveCreated, BatchInv, OrderInv, EachOnce, IsFiniteSet(trades), CountInv,
         [Next]_vars, Undisturbed
  PROVE  CountInv'
<1>. USE DEF feedVars, chainVars, procVars, dbVars, batchedVars
<1>1. Len(feed) \in Nat /\ emitted \in Nat /\ Cardinality(trades) \in Nat
  BY LenProperties, FS_CardinalityType DEF TypeOK
<1>2. ASSUME UNCHANGED <<trades, feed, emitted>>, pc = "idle" <=> pc' = "idle"
      PROVE  CountInv'
  BY <1>2 DEF CountInv
<1>3. CASE Chain
  <2>1. PICK e \in Event : Emit(e)  BY <1>3, ChainEmits DEF Emits
  <2>2. feed' = Append(feed, e) /\ emitted' = emitted + 1 /\ UNCHANGED <<pc, trades>>
    BY <2>1 DEF Emit, Undisturbed
  <2>3. Len(feed') = Len(feed) + 1
    BY <2>2, AppendProperties DEF TypeOK
  <2>. QED  BY <1>1, <2>2, <2>3 DEF CountInv
<1>4. ASSUME NEW e \in history, Redeliver(e) PROVE CountInv'
  BY <1>4 DEF OrderInv
<1>5. CASE Receive
  <2>1. Len(Tail(feed)) = Len(feed) - 1
    BY <1>5, HeadTailProperties DEF Receive, TypeOK
  <2>. QED  BY <1>1, <1>5, <2>1 DEF Receive, CountInv
<1>6. CASE Commit
  <2>1. Cardinality(trades') = Cardinality(trades) + 1
    BY <1>6, CommitAdds, FS_AddElement
  <2>. QED  BY <1>1, <1>6, <2>1 DEF Commit, Finish, CountInv
<1>7. CASE Prepare \/ PutCandle \/ ReadDetail \/ WriteDetail
  BY <1>2, <1>7 DEF Prepare, PutCandle, ReadDetail, WriteDetail
<1>8. CASE CandleError \/ StoreError \/ Crash
  BY <1>8 DEF CandleError, StoreError, Crash, Undisturbed
<1>9. ASSUME NEW t \in tasks, UriStep(t) \/ TestIpfsWrite(t) PROVE CountInv'
  BY <1>2, <1>9 DEF UriStep, FetchFails, FetchNothing, Fetched, WriteUri, TestIpfsWrite
<1>10. ASSUME NEW m \in Mints, TestIpfs(m) PROVE CountInv'  BY <1>2, <1>10 DEF TestIpfs
<1>11. ASSUME NEW c \in TestCalls, TestOrder(c[1], c[2]) PROVE CountInv'
  BY <1>2, <1>11 DEF TestOrder
<1>12. CASE UNCHANGED vars  BY <1>2, <1>12 DEF vars
<1>. QED
  BY <1>3, <1>4, <1>5, <1>6, <1>7, <1>8, <1>9, <1>10, <1>11, <1>12 DEF Next, Store

(* Undisturbed, and with one event in a transaction, the event log holds as *)
(* many records as the chain emitted events once the processor caught up.  *)
THEOREM EveryEventIsRecorded ==
  Undisturbed /\ EachOnce => (Spec => []EveryEventRecorded)
<1>. SUFFICES ASSUME Undisturbed, EachOnce PROVE Spec => []EveryEventRecorded
  OBVIOUS
<1>1. Init => CountInv
  BY FS_EmptySet, EmptySeq DEF Init, CountInv
<1>2. TypeOK /\ LiveCreated /\ BatchInv /\ OrderInv /\ IsFiniteSet(trades) /\ CountInv
        /\ [Next]_vars => CountInv'
  BY CountStep
<1>3. TypeOK /\ IsFiniteSet(trades) /\ CountInv => EveryEventRecorded
  <2>. SUFFICES ASSUME TypeOK, IsFiniteSet(trades), CountInv, CaughtUp
                PROVE  Cardinality(trades) = emitted
    BY DEF EveryEventRecorded
  <2>1. Len(feed) = 0 /\ Cardinality(trades) \in Nat
    BY EmptySeq, FS_CardinalityType DEF CaughtUp
  <2>. QED  BY <2>1 DEF CountInv, CaughtUp
<1>. QED
  BY <1>1, <1>2, <1>3, TypeCorrect, LiveCreatedAlways, BatchAlways, OrderAlways,
     FiniteAlways, EachOnceOrdered, PTL
  DEF Spec

-----------------------------------------------------------------------------
(* The open orders *)

(* The chain opens no account that a test call names.  An account may be   *)
(* opened on either side, one side at a time.                              *)
SeparateTests == \A c \in TestCalls : SidesOf[c[2]] = {}

(* What an event makes of the open orders, and that it is an event the     *)
(* chain can emit while these are open.                                    *)
After(e, S) ==
  {q \in S : e.kind \in {"ls", "pc", "fc", "fl"} => q.pda # e.pda}
    \cup (IF e.kind \in {"ls", "pc"} THEN {OrderOf(e)} ELSE {})

Fits(e, S) ==
  /\ e.kind \in {"ls", "pc", "fc", "fl"} => e.pda \in Pdas \ TestPdas
  /\ e.kind = "ls" => \A q \in S : q.pda # e.pda
  /\ e.kind \in {"pc", "fc"} => \A q \in S : q.pda = e.pda => q.otype = e.otype

Proper(S) ==
  /\ S \subseteq Order
  /\ \A q \in S : q.pda \notin TestPdas
  /\ \A q, r \in S : q.pda = r.pda => q = r

LEMMA AfterProper ==
  ASSUME NEW S, Proper(S), NEW e \in Event, Fits(e, S)
  PROVE  Proper(After(e, S))
<1>1. e.kind \in {"ls", "pc"} =>
        OrderOf(e) \in Order /\ OrderOf(e).pda = e.pda /\ e.pda \notin TestPdas
  BY DEF OrderOf, Order, Event, Fits
<1>. QED  BY <1>1 DEF Proper, After

LEMMA ChainFits ==
  ASSUME TypeOK, Proper(live), SeparateTests, Chain
  PROVE  \E e \in Event : Emit(e) /\ Fits(e, live) /\ live' = After(e, live)
<1>1. PICK st \in Stamps :
        \/ \E m \in Mints, u \in Users : CreateMint(m, u, st)
        \/ \E k \in {"bs", "md"}, m \in Mints, u \in Users : TradeMint(k, m, u, st)
        \/ \E p \in Pdas, t \in {1, 2} : OpenOrder(p, t, st)
        \/ \E q \in live : CutOrder(q, st)
        \/ \E q \in live, u \in Users : CloseOrder(q, u, st)
        \/ \E q \in live, u \in Users : LiquidateOrder(q, u, st)
  BY DEF Chain
<1>2. st[1] \in Nat /\ st[2] \in Nat  BY StampType DEF TypeOK
<1>3. ASSUME NEW q \in live
      PROVE  /\ q \in Order /\ q.pda \in Pdas /\ q.user \in Users /\ q.otype \in {1, 2}
             /\ q.cut \in Nat /\ MintOf[q.pda] \in Mints /\ q.pda \notin TestPdas
             /\ \A r \in live : r.pda = q.pda <=> r = q
  BY StoreAssumption DEF Order, Proper
<1>4. ASSUME NEW m \in Mints, NEW u \in Users, CreateMint(m, u, st)
      PROVE  \E e \in Event : Emit(e) /\ Fits(e, live) /\ live' = After(e, live)
  <2>. DEFINE e == Ev("tc", m, u, NoPda, 0, 0, st)
  <2>1. e \in Event /\ e.kind = "tc"  BY <1>2 DEF Ev, Event, Kinds
  <2>2. Emit(e) /\ live' = live  BY <1>4 DEF CreateMint
  <2>. HIDE DEF e
  <2>. QED  BY <2>1, <2>2 DEF Fits, After
<1>5. ASSUME NEW k \in {"bs", "md"}, NEW m \in Mints, NEW u \in Users, TradeMint(k, m, u, st)
      PROVE  \E e \in Event : Emit(e) /\ Fits(e, live) /\ live' = After(e, live)
  <2>. DEFINE e == Ev(k, m, u, NoPda, 0, 0, st)
  <2>1. e \in Event /\ e.kind \in {"bs", "md"}  BY <1>2 DEF Ev, Event, Kinds
  <2>2. Emit(e) /\ live' = live  BY <1>5 DEF TradeMint
  <2>. HIDE DEF e
  <2>. QED  BY <2>1, <2>2 DEF Fits, After
<1>6. ASSUME NEW p \in Pdas, NEW t \in {1, 2}, OpenOrder(p, t, st)
      PROVE  \E e \in Event : Emit(e) /\ Fits(e, live) /\ live' = After(e, live)
  <2>. DEFINE e == Ev("ls", MintOf[p], OwnerOf[p], p, t, 0, st)
  <2>1. OwnerOf[p] \in Users /\ MintOf[p] \in Mints  BY StoreAssumption
  <2>2. e \in Event /\ e.kind = "ls" /\ e.pda = p  BY <1>2, <2>1 DEF Ev, Event, Kinds
  <2>3. OrderOf(e) = [user |-> OwnerOf[p], pda |-> p, otype |-> t, cut |-> 0]
    BY DEF Ev, OrderOf
  <2>4. Emit(e) /\ live' = live \cup {OrderOf(e)} /\ \A q \in live : q.pda # p
    BY <1>6, <2>3 DEF OpenOrder
  <2>5. p \notin TestPdas  BY <1>6 DEF OpenOrder, SeparateTests, TestPdas
  <2>. HIDE DEF e
  <2>. QED  BY <2>2, <2>4, <2>5 DEF Fits, After
<1>7. ASSUME NEW q \in live, CutOrder(q, st)
      PROVE  \E e \in Event : Emit(e) /\ Fits(e, live) /\ live' = After(e, live)
  <2>. DEFINE e == Ev("pc", MintOf[q.pda], q.user, q.pda, q.otype, q.cut + 1, st)
  <2>1. e \in Event /\ e.kind = "pc" /\ e.pda = q.pda /\ e.otype = q.otype
    BY <1>2, <1>3 DEF Ev, Event, Kinds
  <2>2. OrderOf(e) = [q EXCEPT !.cut = @ + 1]
    BY <1>3 DEF Ev, OrderOf, Order
  <2>3. Emit(e) /\ live' = (live \ {q}) \cup {OrderOf(e)}
    BY <1>7, <2>2 DEF CutOrder
  <2>. HIDE DEF e
  <2>. QED  BY <1>3, <2>1, <2>3 DEF Fits, After
<1>8. ASSUME NEW q \in live, NEW u \in Users, CloseOrder(q, u, st)
      PROVE  \E e \in Event : Emit(e) /\ Fits(e, live) /\ live' = After(e, live)
  <2>. DEFINE e == Ev("fc", MintOf[q.pda], u, q.pda, q.otype, 0, st)
  <2>1. e \in Event /\ e.kind = "fc" /\ e.pda = q.pda /\ e.otype = q.otype
    BY <1>2, <1>3 DEF Ev, Event, Kinds
  <2>2. Emit(e) /\ live' = live \ {q}  BY <1>8 DEF CloseOrder
  <2>. HIDE DEF e
  <2>. QED  BY <1>3, <2>1, <2>2 DEF Fits, After
<1>9. ASSUME NEW q \in live, NEW u \in Users, LiquidateOrder(q, u, st)
      PROVE  \E e \in Event : Emit(e) /\ Fits(e, live) /\ live' = After(e, live)
  <2>. DEFINE e == Ev("fl", MintOf[q.pda], u, q.pda, 0, 0, st)
  <2>1. e \in Event /\ e.kind = "fl" /\ e.pda = q.pda
    BY <1>2, <1>3 DEF Ev, Event, Kinds
  <2>2. Emit(e) /\ live' = live \ {q}  BY <1>9 DEF LiquidateOrder
  <2>. HIDE DEF e
  <2>. QED  BY <1>3, <2>1, <2>2 DEF Fits, After
<1>. QED  BY <1>1, <1>4, <1>5, <1>6, <1>7, <1>8, <1>9

(* The orders the store holds for the chain. *)
Own == {q \in orders : q.pda \notin TestPdas}

(* h is what the open orders were on the chain while the events waiting    *)
(* were emitted: it starts from the stored orders and what is under way.   *)
Replays(h) ==
  /\ h[0] = (IF pc = "idle" THEN Own ELSE After(ev, Own))
  /\ h[Len(feed)] = live
  /\ \A i \in 0..Len(feed) : Proper(h[i])
  /\ \A i \in 1..Len(feed) : Fits(feed[i], h[i - 1]) /\ h[i] = After(feed[i], h[i - 1])

BookInv ==
  /\ Proper(Own)
  /\ pc # "idle" => Fits(ev, Own)
  /\ BatchInProgress => batch.put = BatchOf(ev).put /\ batch.delOr = ClosedKeys(ev)

OpenInv == BookInv /\ \E h \in [0..Len(feed) -> SUBSET Order] : Replays(h)

(* The batch, filled before the test orders that came since, does to the   *)
(* orders of the chain what the event did.                                 *)
LEMMA CommitOwn ==
  ASSUME TypeOK, BookInv, Commit
  PROVE  Own' = After(ev, Own)
<1>1. ev \in Event /\ Fits(ev, Own) /\ Proper(Own)
      /\ batch.put = BatchOf(ev).put /\ batch.delOr = ClosedKeys(ev)
  BY DEF Commit, TypeOK, BookInv, BatchInProgress
<1>2. orders' = WriteOrders(orders, batch)  BY DEF Commit
<1>3. \A q \in orders : q \in Order /\ q.otype \in {1, 2}  BY DEF TypeOK, Order
<1>4. CASE ev.kind \in {"ls", "pc"}
  <2>. DEFINE o == OrderOf(ev)
  <2>1. batch.put = {o} /\ batch.delOr = {}
    BY <1>1, <1>4 DEF BatchOf, ClosedKeys
  <2>2. o.pda = ev.pda /\ o.otype = ev.otype /\ ev.pda \notin TestPdas
    BY <1>1, <1>4 DEF OrderOf, Fits
  <2>3. \A q \in Own : q.pda = ev.pda => q.otype = ev.otype
    BY <1>1, <1>4 DEF Fits
  <2>. HIDE DEF o
  <2>4. orders' = {q \in orders : ~(o.pda = q.pda /\ o.otype = q.otype)} \cup {o}
    BY <1>2, <2>1 DEF WriteOrders
  <2>5. Own' = {q \in Own : q.pda # ev.pda} \cup {o}
    BY <2>2, <2>3, <2>4 DEF Own
  <2>. QED  BY <1>4, <2>5 DEF After, o
<1>5. CASE ev.kind \in {"fc", "fl"}
  <2>1. batch.put = {} /\ ev.pda \notin TestPdas /\ ev.pda \in Pdas
    BY <1>1, <1>5 DEF BatchOf, Fits
  <2>2. ASSUME NEW q \in Own
        PROVE  <<q.pda, q.otype>> \in ClosedKeys(ev) <=> q.pda = ev.pda
    <3>1. <<q.pda, q.otype>> \in ClosedKeys(ev) => q.pda = ev.pda  BY DEF ClosedKeys
    <3>2. ASSUME q.pda = ev.pda PROVE <<q.pda, q.otype>> \in ClosedKeys(ev)
      <4>1. q \in orders /\ q.otype \in {1, 2}  BY <1>3 DEF Own
      <4>2. CASE ev.kind = "fc"
        <5>1. q.otype = ev.otype  BY <1>1, <3>2, <4>2 DEF Fits
        <5>. QED  BY <3>2, <4>1, <4>2, <5>1 DEF ClosedKeys
      <4>3. CASE ev.kind = "fl"
        <5>1. q \in OrderAt(ev.pda, q.otype)  BY <3>2, <4>1 DEF OrderAt
        <5>. QED  BY <3>2, <4>1, <4>3, <5>1 DEF ClosedKeys
      <4>. QED  BY <1>5, <4>2, <4>3
    <3>. QED  BY <3>1, <3>2
  <2>3. orders' = {q \in orders : <<q.pda, q.otype>> \notin ClosedKeys(ev)}
    BY <1>1, <1>2, <2>1 DEF WriteOrders
  <2>4. Own' = {q \in Own : q.pda # ev.pda}  BY <2>2, <2>3 DEF Own
  <2>. QED  BY <1>5, <2>4 DEF After
<1>6. CASE ev.kind \notin {"ls", "pc", "fc", "fl"}
  <2>1. batch.put = {} /\ batch.delOr = {}
    BY <1>1, <1>6 DEF BatchOf, ClosedKeys
  <2>2. orders' = orders  BY <1>2, <2>1 DEF WriteOrders
  <2>. QED  BY <1>6, <2>2 DEF After, Own
<1>. QED  BY <1>4, <1>5, <1>6

LEMMA OpenEmit ==
  ASSUME TypeOK, OpenInv, Undisturbed, NEW e \in Event, Emit(e), Fits(e, live),
         live' = After(e, live)
  PROVE  OpenInv'
<1>1. /\ feed' = Append(feed, e)
      /\ UNCHANGED <<pc, ev, batch, orders>>
  BY DEF Emit, Undisturbed, procVars, dbVars, batchedVars
<1>2. feed \in Seq(Event)  BY DEF TypeOK
<1>3. /\ Len(feed') = Len(feed) + 1 /\ Len(feed) \in Nat
      /\ \A i \in 1..Len(feed) : feed'[i] = feed[i]
      /\ feed'[Len(feed) + 1] = e
  BY <1>1, <1>2, AppendProperties, LenProperties
<1>4. PICK h \in [0..Len(feed) -> SUBSET Order] : Replays(h)  BY DEF OpenInv
<1>5. Proper(live)  BY <1>3, <1>4 DEF Replays
<1>6. Proper(live') /\ live' \in SUBSET Order
  BY <1>5, AfterProper DEF Proper
<1>7. \A i \in 0..(Len(feed) + 1) : i <= Len(feed) => i \in 0..Len(feed)  BY <1>3
<1>8. PICK g \in [0..Len(feed') -> SUBSET Order] :
        (\A i \in 0..Len(feed) : g[i] = h[i]) /\ g[Len(feed) + 1] = live'
  <2>. DEFINE f == [i \in 0..(Len(feed) + 1) |-> IF i <= Len(feed) THEN h[i] ELSE live']
  <2>1. f \in [0..Len(feed') -> SUBSET Order]  BY <1>3, <1>6, <1>7
  <2>2. (\A i \in 0..Len(feed) : f[i] = h[i]) /\ f[Len(feed) + 1] = live'
    BY <1>3
  <2>. QED  BY <2>1, <2>2
<1>9. Own' = Own /\ TestPdas' = TestPdas  BY <1>1 DEF Own, TestPdas
<1>10. g[0] = (IF pc' = "idle" THEN Own' ELSE After(ev', Own'))
  <2>1. 0 \in 0..Len(feed)  BY <1>3
  <2>. QED  BY <1>1, <1>4, <1>8, <1>9, <2>1 DEF Replays
<1>11. g[Len(feed')] = live'  BY <1>3, <1>8
<1>12. \A i \in 0..Len(feed') : Proper(g[i])
  <2>1. \A i \in 0..Len(feed') : i \in 0..Len(feed) \/ i = Len(feed) + 1  BY <1>3
  <2>. QED  BY <1>4, <1>6, <1>8, <2>1 DEF Replays
<1>13. ASSUME NEW i \in 1..Len(feed')
       PROVE  Fits(feed'[i], g[i - 1]) /\ g[i] = After(feed'[i], g[i - 1])
  <2>1. CASE i \in 1..Len(feed)
    <3>1. i \in 0..Len(feed) /\ i - 1 \in 0..Len(feed)  BY <1>3, <2>1
    <3>. QED  BY <1>3, <1>4, <1>8, <2>1, <3>1 DEF Replays
  <2>2. CASE i = Len(feed) + 1
    <3>1. i - 1 = Len(feed) /\ i - 1 \in 0..Len(feed)  BY <1>3, <2>2
    <3>2. g[i - 1] = live  BY <1>4, <1>8, <3>1 DEF Replays
    <3>. QED  BY <1>3, <1>8, <2>2, <3>2
  <2>. QED  BY <1>3, <2>1, <2>2
<1>14. Replays(g)'
  BY <1>10, <1>11, <1>12, <1>13 DEF Replays, Proper, Fits, After
<1>15. BookInv'
  <2>1. ClosedKeys(ev)' = ClosedKeys(ev) /\ BatchOf(ev)'.put = BatchOf(ev).put
    BY <1>1, SameBatch DEF BatchOf
  <2>2. Proper(Own)' /\ (pc' # "idle" => Fits(ev, Own)')
    BY <1>1, <1>9 DEF OpenInv, BookInv, Proper, Fits
  <2>. QED  BY <1>1, <2>1, <2>2 DEF OpenInv, BookInv, BatchInProgress
<1>. QED  BY <1>8, <1>14, <1>15 DEF OpenInv

LEMMA OpenReceive ==
  ASSUME TypeOK, OpenInv, Receive
  PROVE  OpenInv'
<1>1. feed \in Seq(Event) /\ feed # <<>> /\ pc = "idle"  BY DEF Receive, TypeOK
<1>2. /\ Len(feed) \in Nat \ {0} /\ Len(feed') = Len(feed) - 1 /\ ev' = feed[1]
      /\ \A i \in 1..(Len(feed) - 1) : feed'[i] = feed[i + 1]
  BY <1>1, HeadTailProperties, LenProperties, EmptySeq DEF Receive
<1>3. UNCHANGED <<orders, live>> /\ pc' = "prepare"
  BY DEF Receive, dbVars, batchedVars, chainVars
<1>4. Own' = Own /\ TestPdas' = TestPdas  BY <1>3 DEF Own, TestPdas
<1>5. PICK h \in [0..Len(feed) -> SUBSET Order] : Replays(h)  BY DEF OpenInv
<1>6. \A i \in 0..Len(feed') : i + 1 \in 0..Len(feed)  BY <1>2
<1>7. PICK g \in [0..Len(feed') -> SUBSET Order] :
        \A i \in 0..Len(feed') : g[i] = h[i + 1]
  <2>. DEFINE f == [i \in 0..Len(feed') |-> h[i + 1]]
  <2>1. f \in [0..Len(feed') -> SUBSET Order]  BY <1>6
  <2>2. \A i \in 0..Len(feed') : f[i] = h[i + 1]  OBVIOUS
  <2>. QED  BY <2>1, <2>2
<1>8. Fits(ev', Own) /\ g[0] = After(ev', Own)
  <2>1. 1 \in 1..Len(feed) /\ 0 \in 0..Len(feed') /\ 0 + 1 = 1 /\ 1 - 1 = 0  BY <1>2
  <2>2. h[0] = Own /\ Fits(feed[1], h[0]) /\ h[1] = After(feed[1], h[0])
    BY <1>1, <1>5, <2>1 DEF Replays
  <2>3. g[0] = h[1]  BY <1>7, <2>1
  <2>. QED  BY <1>2, <2>2, <2>3
<1>9. g[Len(feed')] = live
  <2>1. Len(feed') \in 0..Len(feed') /\ Len(feed') + 1 = Len(feed)  BY <1>2
  <2>. QED  BY <1>5, <1>7, <2>1 DEF Replays
<1>10. \A i \in 0..Len(feed') : Proper(g[i])  BY <1>5, <1>6, <1>7 DEF Replays
<1>11. ASSUME NEW i \in 1..Len(feed')
       PROVE  Fits(feed'[i], g[i - 1]) /\ g[i] = After(feed'[i], g[i - 1])
  <2>1. /\ i + 1 \in 1..Len(feed) /\ (i + 1) - 1 = i /\ (i - 1) + 1 = i
        /\ i \in 0..Len(feed') /\ i - 1 \in 0..Len(feed')
        /\ feed'[i] = feed[i + 1]
    BY <1>2
  <2>2. Fits(feed[i + 1], h[i]) /\ h[i + 1] = After(feed[i + 1], h[i])
    BY <1>5, <2>1 DEF Replays
  <2>3. g[i] = h[i + 1] /\ g[i - 1] = h[i]  BY <1>7, <2>1
  <2>. QED  BY <2>1, <2>2, <2>3
<1>12. Replays(g)'
  BY <1>3, <1>4, <1>8, <1>9, <1>10, <1>11 DEF Replays, Proper, Fits, After
<1>13. BookInv'
  BY <1>3, <1>4, <1>8 DEF OpenInv, BookInv, Proper, Fits, BatchInProgress
<1>. QED  BY <1>7, <1>12, <1>13 DEF OpenInv

(* A step that leaves the stored orders and the waiting events alone. *)
LEMMA OpenSame ==
  ASSUME TypeOK, OpenInv, UNCHANGED <<feed, live, ev>>, Own' = Own,
         pc = "idle" <=> pc' = "idle",
         BatchInProgress' => batch'.put = BatchOf(ev)'.put /\ batch'.delOr = ClosedKeys(ev)'
  PROVE  OpenInv'
<1>1. PICK h \in [0..Len(feed) -> SUBSET Order] : Replays(h)  BY DEF OpenInv
<1>2. Replays(h)'  BY <1>1 DEF Replays, Proper, Fits, After, TestPdas
<1>3. BookInv'  BY DEF OpenInv, BookInv, Proper, Fits, TestPdas
<1>. QED  BY <1>1, <1>2, <1>3 DEF OpenInv

LEMMA OpenCommit ==
  ASSUME TypeOK, OpenInv, Commit
  PROVE  OpenInv'
<1>1. Own' = After(ev, Own)  BY CommitOwn DEF OpenInv
<1>2. PICK h \in [0..Len(feed) -> SUBSET Order] : Replays(h)  BY DEF OpenInv
<1>3. UNCHANGED <<feed, live>> /\ pc = "commit" /\ pc' = "idle"
  BY DEF Commit, Finish, feedVars, chainVars
<1>4. Replays(h)'  BY <1>1, <1>2, <1>3 DEF Replays, Proper, Fits, After, TestPdas
<1>5. Proper(Own)'
  <2>1. ev \in Event /\ Fits(ev, Own) /\ Proper(Own)
    BY <1>3 DEF OpenInv, BookInv, TypeOK
  <2>2. Proper(After(ev, Own))  BY <2>1, AfterProper
  <2>. QED  BY <1>1, <2>2 DEF Proper, TestPdas
<1>6. BookInv'  BY <1>3, <1>5 DEF BookInv, BatchInProgress
<1>. QED  BY <1>2, <1>3, <1>4, <1>6 DEF OpenInv

LEMMA OpenStep ==
  ASSUME TypeOK, OpenInv, [Next]_vars, Undisturbed, SeparateTests
  PROVE  OpenInv'
<1>. USE DEF feedVars, chainVars, procVars, dbVars, batchedVars
<1>1. ASSUME UNCHANGED <<feed, live, ev, orders, batch>>, pc = "idle" <=> pc' = "idle",
             BatchInProgress' => BatchInProgress
      PROVE  OpenInv'
  <2>1. /\ BatchOf(ev)'.put = BatchOf(ev).put /\ ClosedKeys(ev)' = ClosedKeys(ev)
    BY <1>1, SameBatch DEF BatchOf
  <2>2. Own' = Own  BY <1>1 DEF Own, TestPdas
  <2>3. BatchInProgress' => batch'.put = BatchOf(ev)'.put /\ batch'.delOr = ClosedKeys(ev)'
    BY <1>1, <2>1 DEF OpenInv, BookInv
  <2>. QED  BY <1>1, <2>2, <2>3, OpenSame
<1>2. CASE Chain
  <2>1. Proper(live)
    <3>1. Len(feed) \in 0..Len(feed)  BY LenProperties DEF TypeOK
    <3>. QED  BY <3>1 DEF OpenInv, Replays
  <2>. QED  BY <1>2, <2>1, ChainFits, OpenEmit
<1>3. ASSUME NEW e \in history, Redeliver(e) PROVE OpenInv'
  BY <1>3 DEF Redeliver, Undisturbed
<1>4. CASE Receive  BY <1>4, OpenReceive
<1>5. CASE Prepare
  <2>1. UNCHANGED <<feed, live, ev, orders>> /\ pc = "prepare" /\ pc' # "idle"
        /\ batch' = BatchOf(ev)
    BY <1>5 DEF Prepare
  <2>2. ClosedKeys(ev)' = ClosedKeys(ev) /\ BatchOf(ev)'.put = BatchOf(ev).put
    BY <2>1, SameBatch DEF BatchOf
  <2>3. batch'.put = BatchOf(ev)'.put /\ batch'.delOr = ClosedKeys(ev)'
    BY <2>1, <2>2 DEF BatchOf
  <2>4. Own' = Own  BY <2>1 DEF Own, TestPdas
  <2>. QED  BY <2>1, <2>3, <2>4, OpenSame
<1>6. CASE PutCandle  BY <1>1, <1>6 DEF PutCandle, BatchInProgress
<1>7. CASE ReadDetail  BY <1>1, <1>7 DEF ReadDetail, BatchInProgress
<1>8. CASE WriteDetail  BY <1>1, <1>8 DEF WriteDetail, BatchInProgress
<1>9. CASE Commit  BY <1>9, OpenCommit
<1>10. CASE CandleError \/ StoreError \/ Crash
  BY <1>10 DEF CandleError, StoreError, Crash, Undisturbed
<1>11. ASSUME NEW t \in tasks, UriStep(t) \/ TestIpfsWrite(t) PROVE OpenInv'
  BY <1>1, <1>11 DEF UriStep, FetchFails, FetchNothing, Fetched, WriteUri, TestIpfsWrite,
                     BatchInProgress
<1>12. ASSUME NEW m \in Mints, TestIpfs(m) PROVE OpenInv'
  BY <1>1, <1>12 DEF TestIpfs, BatchInProgress
<1>13. ASSUME NEW c \in TestCalls, TestOrder(c[1], c[2]) PROVE OpenInv'
  <2>. DEFINE p == c[2]
              o == [user |-> c[1], pda |-> p, otype |-> 2, cut |-> 0]
              b == [put |-> {o}, delOr |-> {}, delUo |-> {}]
  <2>1. p \in TestPdas  BY DEF TestPdas
  <2>2. b.put = {o} /\ b.delOr = {} /\ o.pda = p  OBVIOUS
  <2>3. orders' = WriteOrders(orders, b)  BY <1>13 DEF TestOrder
  <2>. HIDE DEF b, o
  <2>4. \A q : q.pda # p => (q \in orders <=> q \in orders')
    BY <2>2, <2>3 DEF WriteOrders
  <2>5. Own' = Own  BY <2>1, <2>4 DEF Own, TestPdas
  <2>6. UNCHANGED <<feed, live, pc, ev, batch>>  BY <1>13 DEF TestOrder
  <2>7. ASSUME BatchInProgress
        PROVE  ClosedKeys(ev)' = ClosedKeys(ev) /\ BatchOf(ev)'.put = BatchOf(ev).put
    <3>1. Fits(ev, Own)  BY <2>7 DEF OpenInv, BookInv, BatchInProgress
    <3>2. ev.kind = "fl" => ev.pda # p  BY <2>1, <3>1 DEF Fits
    <3>3. ev.kind = "fl" => \A k \in {1, 2} : OrderAt(ev.pda, k)' = OrderAt(ev.pda, k)
      BY <2>4, <2>6, <3>2 DEF OrderAt
    <3>4. ClosedKeys(ev)' = ClosedKeys(ev)
      BY <2>6, <3>3 DEF ClosedKeys
    <3>. QED  BY <2>6, <3>4 DEF BatchOf
  <2>8. BatchInProgress' => batch'.put = BatchOf(ev)'.put /\ batch'.delOr = ClosedKeys(ev)'
    BY <2>6, <2>7 DEF OpenInv, BookInv, BatchInProgress
  <2>. QED  BY <2>5, <2>6, <2>8, OpenSame
<1>14. CASE UNCHANGED vars  BY <1>1, <1>14 DEF vars, BatchInProgress
<1>. QED
  BY <1>2, <1>3, <1>4, <1>5, <1>6, <1>7, <1>8, <1>9, <1>10, <1>11, <1>12, <1>13,
     <1>14 DEF Next, Store

(* Undisturbed, the orders the store reports open once it caught up are the *)
(* orders open on the chain, whichever sides an account is opened on and   *)
(* wherever test orders come between the reads and the write of a batch.   *)
THEOREM OrdersMatchChain ==
  Undisturbed /\ SeparateTests => (Spec => []OpenOrdersMatchChain)
<1>. SUFFICES ASSUME Undisturbed, SeparateTests PROVE Spec => []OpenOrdersMatchChain
  OBVIOUS
<1>1. Init => OpenInv
  <2>. SUFFICES ASSUME Init PROVE OpenInv  OBVIOUS
  <2>. DEFINE h == [i \in 0..0 |-> {}]
  <2>1. Len(feed) = 0 /\ pc = "idle" /\ live = {} /\ orders = {}
    BY EmptySeq DEF Init
  <2>2. h \in [0..Len(feed) -> SUBSET Order] /\ \A i \in 0..0 : h[i] = {}
    BY <2>1
  <2>3. Own = {} /\ Proper({})  BY <2>1 DEF Own, Proper
  <2>. HIDE DEF h
  <2>4. Replays(h)  BY <2>1, <2>2, <2>3 DEF Replays
  <2>. QED  BY <2>1, <2>2, <2>3, <2>4 DEF OpenInv, BookInv, BatchInProgress
<1>2. TypeOK /\ OpenInv /\ [Next]_vars => OpenInv'
  BY OpenStep
<1>3. OpenInv => OpenOrdersMatchChain
  BY EmptySeq DEF OpenInv, Replays, OpenOrdersMatchChain, CaughtUp, Own
<1>. QED  BY <1>1, <1>2, <1>3, TypeCorrect, PTL DEF Spec
=============================================================================
