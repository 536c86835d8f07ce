----------------------------- MODULE EventStore -----------------------------
(***************************************************************************)
(* The RocksDB event store (src/services/event_storage.rs) and the writers *)
(* that share it: the event processor, which runs store_event on one event *)
(* at a time; the tasks store_event spawns to fetch a token's URI data;    *)
(* and the two test endpoints that write.                                  *)
(*                                                                         *)
(* store_event is not one transaction.  It reads the database and fills a  *)
(* WriteBatch (Prepare), puts three candles one by one (PutCandle), reads  *)
(* and rewrites the mint's detail record (ReadDetail, WriteDetail) and only *)
(* then writes the batch (Commit).  Other writers, an I/O error or a crash *)
(* may come between any two of these steps.                                *)
(*                                                                         *)
(* Each key prefix of the database is a variable:                          *)
(*   tr: trades     mt: markers       or: orders     uo: userOrders        *)
(*   us: userTx     in: known and details     s1:, s30:, m5: candles       *)
(* A prefix whose values matter is a set of records holding both key and   *)
(* value; a put replaces the record with the same key.                     *)
(*                                                                         *)
(* The chain and the listener are the environment: they feed events to the *)
(* processor, in chain order, subject to the hazards named in Env.         *)
(***************************************************************************)
EXTENDS Naturals, Sequences, FiniteSets

CONSTANTS
  Mints,      (* the mint accounts                                         *)
  Users,      (* the wallets                                               *)
  Pdas,       (* the order accounts                                        *)
  TestCalls,  (* the <<user, order account>> pairs calls of                *)
              (* /api/test-order name                                      *)
  OwnerOf,    (* the wallet an order account is derived from               *)
  MintOf,     (* the mint an order account is derived from                 *)
  SidesOf,    (* the sides the chain may open an order account on: 1 long  *)
              (* (dn), 2 short (up)                                        *)
  Env,        (* the hazards this instance is exposed to                   *)
  MaxEvents,  (* bound: events the chain emits                             *)
  MaxFeed,    (* bound: events waiting for the processor                   *)
  MaxCuts,    (* bound: partial closes of one order                        *)
  MaxFaults,  (* bound: crashes and I/O errors                             *)
  MaxTasks,   (* bound: URI and test tasks alive at once                   *)
  MaxRetries, (* config.ipfs.max_retries                                   *)
  TotalMax    (* the largest value of a total (u64::MAX in the code)       *)

Hazards == {"loss", "crash", "fail", "sametx", "sameslot", "redeliver",
            "uri", "testipfs"}

(* The account of an order is derived from its owner, its mint and a seed  *)
(* the owner chooses, so it fixes the owner and the mint but not the side. *)
ASSUME StoreAssumption ==
  /\ TestCalls \subseteq Users \X Pdas
  /\ OwnerOf \in [Pdas -> Users]
  /\ MintOf \in [Pdas -> Mints]
  /\ SidesOf \in [Pdas -> SUBSET {1, 2}]
  /\ Env \subseteq Hazards
  /\ MaxEvents \in Nat /\ MaxFeed \in Nat /\ MaxCuts \in Nat
  /\ MaxFaults \in Nat /\ MaxTasks \in Nat
  /\ MaxRetries \in Nat \ {0}
  /\ TotalMax \in Nat \ {0}

VARIABLES
  \* the chain: mints created, orders open, current slot, transactions so far
  created, live, slot, tx, emitted,
  \* the listener: events waiting, events this process has seen, and all
  \* the events ever delivered (kept when the node may deliver one again)
  feed, seen, history,
  \* store_event: its position, its event, its batch, the next candle
  \* interval, its copy of the detail record
  pc, ev, batch, todo, copy,
  \* spawned URI fetches and calls of /api/test-ipfs
  tasks,
  \* the database
  trades, markers, orders, userOrders, userTx, known, details, candles,
  \* crashes and I/O errors so far
  faults

chainVars == <<created, live, slot, tx, emitted>>
feedVars  == <<feed, seen, history>>
procVars  == <<pc, ev, batch, todo, copy>>
batchedVars == <<trades, markers, orders, userOrders, userTx>>
dbVars == <<batchedVars, known, details, candles>>
vars == <<chainVars, feedVars, procVars, tasks, dbVars, faults>>

-----------------------------------------------------------------------------
Kinds == {"tc", "bs", "ls", "fl", "fc", "pc", "md"}
Priced == {"bs", "ls", "fc", "pc"}            \* carry a latest_price
UserKinds == {"ls", "fl", "fc", "pc", "md"}   \* leave a us: record
Intervals == <<"s1", "s30", "m5">>
IntervalSet == {"s1", "s30", "m5"}

NoPda == "none"
NoEvent == [kind |-> "none"]
NoBatch == [put |-> {}]

(* An order: what or: and uo: records carry that the properties tell apart. *)
Order == [user : Users, pda : Pdas, otype : {1, 2}, cut : Nat]

(* An event.  user is the user field for ls and pc, else the payer; otype  *)
(* is order_type, or is_close_long (1) / not (2) for fc; cut counts the    *)
(* partial closes behind a pc's order data.                                *)
Event == {e \in [kind : Kinds, mint : Mints, user : Users, pda : Pdas \cup {NoPda},
                 otype : {0, 1, 2}, cut : Nat, slot : Nat, sig : Nat] :
            /\ e.kind \in {"ls", "pc", "fc", "fl"} => e.pda \in Pdas
            /\ e.kind \in {"ls", "pc", "fc"} => e.otype \in {1, 2}}

OrderOf(e) == [user |-> e.user, pda |-> e.pda, otype |-> e.otype, cut |-> e.cut]

(* The detail record: was it filled by a creation event, does it hold URI  *)
(* data, and the four running totals (one unit per event).                 *)
Stats == {"sol", "margin", "profit", "liquidations"}
Detail == [created : BOOLEAN, uri : BOOLEAN, tot : [Stats -> Nat]]
EmptyDetail == [created |-> FALSE, uri |-> FALSE, tot |-> [s \in Stats |-> 0]]

KindsOf(s) == [sol |-> {"bs"}, margin |-> {"ls"}, profit |-> {"fc", "pc"},
               liquidations |-> {"fl"}][s]

SatAddFaulty(a, b) == (a + b) % (TotalMax + 1)   \* it wraps
SatAdd(a, b) == IF a + b > TotalMax THEN TotalMax ELSE a + b

(* Faulty variants (named ..Faulty..) are not part of the specification: each *)
(* is a slip a property must notice.  Here: a cut adds to the margin total,  *)
(* or takes no part in the profit total.                                   *)
ApplyEventFaultyMargin(d, e) ==
  [created |-> IF e.kind = "tc" THEN TRUE ELSE d.created, uri |-> d.uri,
   tot |-> [s \in Stats |-> SatAdd(d.tot[s],
              IF e.kind \in KindsOf(s) \/ (s = "margin" /\ e.kind = "pc") THEN 1 ELSE 0)]]
ApplyEventFaultyProfit(d, e) ==
  [created |-> IF e.kind = "tc" THEN TRUE ELSE d.created, uri |-> d.uri,
   tot |-> [s \in Stats |-> SatAdd(d.tot[s],
              IF e.kind \in KindsOf(s) /\ e.kind # "pc" THEN 1 ELSE 0)]]

ApplyEvent(d, e) ==
  [created |-> IF e.kind = "tc" THEN TRUE ELSE d.created,
   uri |-> d.uri,
   tot |-> [s \in Stats |-> SatAdd(d.tot[s], IF e.kind \in KindsOf(s) THEN 1 ELSE 0)]]

(* Database keys *)
TradeRec(e) == [mint |-> e.mint, slot |-> e.slot, kind |-> e.kind, sig |-> e.sig,
                user |-> e.user]
SameTradeKeyFaulty(r, q) ==   \* the key leaves the signature out
  r.mint = q.mint /\ r.slot = q.slot /\ r.kind = q.kind
SameTradeKey(r, q) == /\ r.mint = q.mint /\ r.slot = q.slot /\ r.kind = q.kind
                      /\ r.sig = q.sig
UserTxRec(e) == [user |-> e.user, mint |-> e.mint, slot |-> e.slot,
                 kind |-> e.kind, sig |-> e.sig]
SameUserTxKey(r, q) == r.user = q.user /\ r.mint = q.mint /\ r.slot = q.slot

Trade == [mint : Mints, slot : Nat, kind : Kinds, sig : Nat, user : Users]
Batch == [trade : Trade,
          marker : SUBSET (Nat \X Mints),
          put : SUBSET Order,
          delOr : SUBSET (Pdas \X {1, 2}),
          delUo : SUBSET (Users \X Pdas),
          userTx : SUBSET [user : Users, mint : Mints, slot : Nat,
                           kind : Kinds, sig : Nat]]

OrderAt(p, t) == {q \in orders : q.pda = p /\ q.otype = t}

(* The or: keys an event deletes: fc deletes one blindly, fl those it finds *)
ClosedKeysFaulty(e) ==   \* an fc deletes the key of the other side
  {k \in {e.pda} \X {1, 2} :
     \/ e.kind = "fc" /\ k[2] # e.otype
     \/ e.kind = "fl" /\ OrderAt(e.pda, k[2]) # {}}
ClosedKeys(e) ==
  {k \in {e.pda} \X {1, 2} :
     \/ e.kind = "fc" /\ k[2] = e.otype
     \/ e.kind = "fl" /\ OrderAt(e.pda, k[2]) # {}}

ClosedOrders(e) == {q \in orders : <<q.pda, q.otype>> \in ClosedKeys(e)}

BatchOfFaultyUser(e) ==   \* the copy under uo: is deleted under the payer's name
  [trade |-> TradeRec(e),
   marker |-> IF e.kind = "tc" /\ e.mint \notin known THEN {<<e.slot, e.mint>>} ELSE {},
   put |-> IF e.kind \in {"ls", "pc"} THEN {OrderOf(e)} ELSE {},
   delOr |-> ClosedKeys(e), delUo |-> {<<e.user, e.pda>> : q \in ClosedOrders(e)},
   userTx |-> IF e.kind \in UserKinds THEN {UserTxRec(e)} ELSE {}]
BatchOfFaultyClose(e) ==   \* a full close takes away the copy under uo: alone
  [trade |-> TradeRec(e),
   marker |-> IF e.kind = "tc" /\ e.mint \notin known THEN {<<e.slot, e.mint>>} ELSE {},
   put |-> IF e.kind \in {"ls", "pc"} THEN {OrderOf(e)} ELSE {},
   delOr |-> IF e.kind = "fc" THEN {} ELSE ClosedKeys(e),
   delUo |-> {<<q.user, e.pda>> : q \in ClosedOrders(e)},
   userTx |-> IF e.kind \in UserKinds THEN {UserTxRec(e)} ELSE {}]
BatchOfFaultyHistory(e) ==   \* no us: record for a cut
  [trade |-> TradeRec(e),
   marker |-> IF e.kind = "tc" /\ e.mint \notin known THEN {<<e.slot, e.mint>>} ELSE {},
   put |-> IF e.kind \in {"ls", "pc"} THEN {OrderOf(e)} ELSE {},
   delOr |-> ClosedKeys(e), delUo |-> {<<q.user, e.pda>> : q \in ClosedOrders(e)},
   userTx |-> IF e.kind \in UserKinds \ {"pc"} THEN {UserTxRec(e)} ELSE {}]
BatchOfFaultyMarker(e) ==   \* the first event of a mint marks it, whatever its kind
  [trade |-> TradeRec(e),
   marker |-> IF e.mint \notin known THEN {<<e.slot, e.mint>>} ELSE {},
   put |-> IF e.kind \in {"ls", "pc"} THEN {OrderOf(e)} ELSE {},
   delOr |-> ClosedKeys(e), delUo |-> {<<q.user, e.pda>> : q \in ClosedOrders(e)},
   userTx |-> IF e.kind \in UserKinds THEN {UserTxRec(e)} ELSE {}]
BatchOfFaultyListing(e) ==   \* the test on the detail record is inverted
  [trade |-> TradeRec(e),
   marker |-> IF e.kind = "tc" /\ e.mint \in known THEN {<<e.slot, e.mint>>} ELSE {},
   put |-> IF e.kind \in {"ls", "pc"} THEN {OrderOf(e)} ELSE {},
   delOr |-> ClosedKeys(e), delUo |-> {<<q.user, e.pda>> : q \in ClosedOrders(e)},
   userTx |-> IF e.kind \in UserKinds THEN {UserTxRec(e)} ELSE {}]
BatchOf(e) ==
  [trade  |-> TradeRec(e),
   marker |-> IF e.kind = "tc" /\ e.mint \notin known THEN {<<e.slot, e.mint>>} ELSE {},
   put    |-> IF e.kind \in {"ls", "pc"} THEN {OrderOf(e)} ELSE {},
   delOr  |-> ClosedKeys(e),
   delUo  |-> {<<q.user, e.pda>> : q \in ClosedOrders(e)},
   userTx |-> IF e.kind \in UserKinds THEN {UserTxRec(e)} ELSE {}]

(* What a write of the batch leaves of a table *)
WriteTrades(S, b) == {r \in S : ~SameTradeKey(r, b.trade)} \cup {b.trade}
WriteOrders(S, b) ==
  {q \in S : /\ <<q.pda, q.otype>> \notin b.delOr
             /\ ~\E r \in b.put : r.pda = q.pda /\ r.otype = q.otype} \cup b.put
WriteUserOrders(S, b) ==
  {q \in S : /\ <<q.user, q.pda>> \notin b.delUo
             /\ ~\E r \in b.put : r.user = q.user /\ r.pda = q.pda} \cup b.put
WriteUserTx(S, b) ==
  {q \in S : ~\E r \in b.userTx : SameUserTxKey(r, q)} \cup b.userTx

-----------------------------------------------------------------------------
Init ==
  /\ created = {} /\ live = {} /\ slot = 0 /\ tx = 0 /\ emitted = 0
  /\ feed = <<>> /\ seen = {} /\ history = {}
  /\ pc = "idle" /\ ev = NoEvent /\ batch = NoBatch /\ todo = 1 /\ copy = EmptyDetail
  /\ tasks = {}
  /\ trades = {} /\ markers = {} /\ orders = {} /\ userOrders = {}
  /\ userTx = {} /\ known = {}
  /\ details = [m \in Mints |-> EmptyDetail]
  /\ candles = [m \in Mints |-> [i \in IntervalSet |-> 0]]
  /\ faults = 0

-----------------------------------------------------------------------------
(* The chain.  Each event belongs to a transaction, each transaction to a  *)
(* slot; "sametx" lets one transaction emit several events, "sameslot" lets *)
(* one slot hold several transactions.                                     *)

Stamps == {<<slot + 1, tx + 1>>}
          \cup (IF "sameslot" \in Env /\ tx > 0 THEN {<<slot, tx + 1>>} ELSE {})
          \cup (IF "sametx" \in Env /\ tx > 0 THEN {<<slot, tx>>} ELSE {})

(* The chain emits e.  The listener hands it to the processor unless it    *)
(* loses it: lagging receiver, dropped connection, failed fetch ("loss").  *)
Emit(e) ==
  /\ emitted < MaxEvents
  /\ emitted' = emitted + 1
  /\ slot' = e.slot /\ tx' = e.sig
  /\ \/ /\ Len(feed) < MaxFeed
        /\ feed' = Append(feed, e)
        /\ IF "redeliver" \in Env
             THEN seen' = seen \cup {e} /\ history' = history \cup {e}
             ELSE UNCHANGED <<seen, history>>
     \/ /\ "loss" \in Env
        /\ UNCHANGED feedVars
  /\ UNCHANGED <<procVars, tasks, dbVars, faults>>

Ev(k, m, u, p, t, c, st) ==
  [kind |-> k, mint |-> m, user |-> u, pda |-> p, otype |-> t, cut |-> c,
   slot |-> st[1], sig |-> st[2]]

CreateMint(m, u, st) ==
  /\ m \notin created
  /\ created' = created \cup {m} /\ live' = live
  /\ Emit(Ev("tc", m, u, NoPda, 0, 0, st))

(* A swap, or a fee change at a milestone. *)
TradeMint(k, m, u, st) ==
  /\ m \in created
  /\ UNCHANGED <<created, live>>
  /\ Emit(Ev(k, m, u, NoPda, 0, 0, st))

OpenOrder(p, t, st) ==
  /\ MintOf[p] \in created
  /\ t \in SidesOf[p]
  /\ ~\E q \in live : q.pda = p
  /\ live' = live \cup {[user |-> OwnerOf[p], pda |-> p, otype |-> t, cut |-> 0]}
  /\ created' = created
  /\ Emit(Ev("ls", MintOf[p], OwnerOf[p], p, t, 0, st))

CutOrder(q, st) ==
  /\ q.cut < MaxCuts
  /\ live' = (live \ {q}) \cup {[q EXCEPT !.cut = @ + 1]}
  /\ created' = created
  /\ Emit(Ev("pc", MintOf[q.pda], q.user, q.pda, q.otype, q.cut + 1, st))

(* Whoever pays for a close or a liquidation is the event's payer. *)
CloseOrder(q, u, st) ==
  /\ live' = live \ {q} /\ created' = created
  /\ Emit(Ev("fc", MintOf[q.pda], u, q.pda, q.otype, 0, st))

LiquidateOrder(q, u, st) ==
  /\ live' = live \ {q} /\ created' = created
  /\ Emit(Ev("fl", MintOf[q.pda], u, q.pda, 0, 0, st))

Chain ==
  \E st \in Stamps :
    \/ \E m \in Mints, u \in Users : CreateMint(m, u, st)
    \/ \E k \in {"bs", "md"}, m \in Mints, u \in Users : TradeMint(k, m, u, st)
    \/ \E p \in Pdas, t \in {1, 2} : OpenOrder(p, t, st)
    \/ \E q \in live : CutOrder(q, st)
    \/ \E q \in live, u \in Users : CloseOrder(q, u, st)
    \/ \E q \in live, u \in Users : LiquidateOrder(q, u, st)

(* The node notifies once more of an event an earlier process had seen: the *)
(* signatures already processed are in memory only.                        *)
Redeliver(e) ==
  /\ "redeliver" \in Env
  /\ e \notin seen
  /\ Len(feed) < MaxFeed
  /\ feed' = Append(feed, e)
  /\ seen' = seen \cup {e}
  /\ UNCHANGED <<chainVars, history, procVars, tasks, dbVars, faults>>

-----------------------------------------------------------------------------
(* store_event, run by the only event processor *)

Receive ==
  /\ pc = "idle" /\ feed # <<>>
  /\ ev' = Head(feed) /\ feed' = Tail(feed)
  /\ pc' = "prepare"
  /\ UNCHANGED <<chainVars, seen, history, batch, todo, copy, tasks, dbVars, faults>>

(* Reads in: for a creation, or: for a close, and fills the batch.  A       *)
(* creation reads one key; a close reads the keys of one order account,    *)
(* which the chain's events and the test calls do not share, so no other   *)
(* writer comes between its reads and they are one step.                   *)
Prepare ==
  /\ pc = "prepare"
  /\ batch' = BatchOf(ev)
  /\ pc' = IF ev.kind \in Priced THEN "candle" ELSE "readDetail"
  /\ todo' = 1
  /\ UNCHANGED <<chainVars, feedVars, ev, copy, tasks, dbVars, faults>>

(* process_kline_data: one read and one put for each interval in turn.     *)
PutCandleFaultyEnd ==   \* one interval too many
  /\ pc = "candle"
  /\ candles' = [candles EXCEPT ![ev.mint][Intervals[todo]] = @ + 1]
  /\ IF todo <= Len(Intervals)
       THEN todo' = todo + 1 /\ pc' = pc
       ELSE todo' = 1 /\ pc' = "readDetail"
  /\ UNCHANGED <<chainVars, feedVars, ev, batch, copy, tasks, batchedVars, known,
                 details, faults>>
PutCandleFaultyStop ==   \* one interval too few
  /\ pc = "candle"
  /\ candles' = [candles EXCEPT ![ev.mint][Intervals[todo]] = @ + 1]
  /\ IF todo < Len(Intervals) - 1
       THEN todo' = todo + 1 /\ pc' = pc
       ELSE todo' = 1 /\ pc' = "readDetail"
  /\ UNCHANGED <<chainVars, feedVars, ev, batch, copy, tasks, batchedVars, known,
                 details, faults>>
PutCandle ==
  /\ pc = "candle"
  /\ candles' = [candles EXCEPT ![ev.mint][Intervals[todo]] = @ + 1]
  /\ IF todo < Len(Intervals)
       THEN todo' = todo + 1 /\ pc' = pc
       ELSE todo' = 1 /\ pc' = "readDetail"
  /\ UNCHANGED <<chainVars, feedVars, ev, batch, copy, tasks, batchedVars, known,
                 details, faults>>

(* An error in process_kline_data is logged and store_event goes on. *)
CandleError ==
  /\ "fail" \in Env /\ faults < MaxFaults
  /\ pc = "candle"
  /\ pc' = "readDetail" /\ todo' = 1
  /\ faults' = faults + 1
  /\ UNCHANGED <<chainVars, feedVars, ev, batch, copy, tasks, dbVars>>

(* process_event_for_mint_detail: get or default, change, put. *)
ReadDetail ==
  /\ pc = "readDetail"
  /\ copy' = details[ev.mint]
  /\ pc' = "writeDetail"
  /\ UNCHANGED <<chainVars, feedVars, ev, batch, todo, tasks, dbVars, faults>>

Task(m, ph, n, d) == [mint |-> m, phase |-> ph, try |-> n, copy |-> d]

(* A creation event with a URI spawns a fetch. *)
SpawnFetch(m) ==
  \/ UNCHANGED tasks
  \/ /\ "uri" \in Env /\ Cardinality(tasks) < MaxTasks
     /\ tasks' = tasks \cup {Task(m, "fetch", 1, EmptyDetail)}

WriteDetail ==
  /\ pc = "writeDetail"
  /\ details' = [details EXCEPT ![ev.mint] = ApplyEvent(copy, ev)]
  /\ known' = known \cup {ev.mint}
  /\ IF ev.kind = "tc" THEN SpawnFetch(ev.mint) ELSE UNCHANGED tasks
  /\ pc' = "commit" /\ copy' = EmptyDetail
  /\ UNCHANGED <<chainVars, feedVars, ev, batch, todo, batchedVars, candles, faults>>

Finish == pc' = "idle" /\ ev' = NoEvent /\ batch' = NoBatch /\ todo' = 1 /\ copy' = EmptyDetail

CommitFaulty ==   \* the log is written first, the other tables after it
  /\ pc = "commit"
  /\ trades' = WriteTrades(trades, batch)
  /\ IF batch.trade \in trades
       THEN /\ markers' = markers \cup batch.marker
            /\ orders' = WriteOrders(orders, batch)
            /\ userOrders' = WriteUserOrders(userOrders, batch)
            /\ userTx' = WriteUserTx(userTx, batch)
            /\ Finish
       ELSE UNCHANGED <<procVars, markers, orders, userOrders, userTx>>
  /\ UNCHANGED <<chainVars, feedVars, tasks, known, details, candles, faults>>
Commit ==
  /\ pc = "commit"
  /\ trades' = WriteTrades(trades, batch)
  /\ markers' = markers \cup batch.marker
  /\ orders' = WriteOrders(orders, batch)
  /\ userOrders' = WriteUserOrders(userOrders, batch)
  /\ userTx' = WriteUserTx(userTx, batch)
  /\ Finish
  /\ UNCHANGED <<chainVars, feedVars, tasks, known, details, candles, faults>>

(* Any other read or write that fails ends store_event with an error, which *)
(* the handler logs: the batch is dropped, what was put stays.             *)
StoreError ==
  /\ "fail" \in Env /\ faults < MaxFaults
  /\ pc \in {"prepare", "readDetail", "writeDetail", "commit"}
  /\ Finish
  /\ faults' = faults + 1
  /\ UNCHANGED <<chainVars, feedVars, tasks, dbVars>>

(* The process dies and starts again on the same database. *)
Crash ==
  /\ "crash" \in Env /\ faults < MaxFaults
  /\ Finish
  /\ feed' = <<>> /\ seen' = {} /\ tasks' = {}
  /\ faults' = faults + 1
  /\ UNCHANGED <<chainVars, history, dbVars>>

Store ==
  \/ Receive \/ Prepare \/ PutCandle \/ ReadDetail \/ WriteDetail \/ Commit

-----------------------------------------------------------------------------
(* The URI task: fetch_token_uri_data, then update_mint_uri_data. *)

Replace(t, u) == tasks' = (tasks \ {t}) \cup {u}

(* The request fails, or the answer is not the JSON expected. *)
FetchFails(t) ==
  /\ t.phase = "fetch"
  /\ IF t.try < MaxRetries THEN Replace(t, [t EXCEPT !.try = @ + 1])
                           ELSE tasks' = tasks \ {t}
  /\ UNCHANGED <<chainVars, feedVars, procVars, dbVars, faults>>

(* The URI names no IPFS hash. *)
FetchNothing(t) ==
  /\ t.phase = "fetch" /\ t.try = 1
  /\ tasks' = tasks \ {t}
  /\ UNCHANGED <<chainVars, feedVars, procVars, dbVars, faults>>

(* The data is there; the detail record is read, if there is one. *)
Fetched(t) ==
  /\ t.phase = "fetch"
  /\ IF t.mint \in known
       THEN Replace(t, Task(t.mint, "write", t.try, details[t.mint]))
       ELSE tasks' = tasks \ {t}
  /\ UNCHANGED <<chainVars, feedVars, procVars, dbVars, faults>>

WriteUri(t) ==
  /\ t.phase = "write"
  /\ details' = [details EXCEPT ![t.mint] = [t.copy EXCEPT !.uri = TRUE]]
  /\ known' = known \cup {t.mint}
  /\ tasks' = tasks \ {t}
  /\ UNCHANGED <<chainVars, feedVars, procVars, batchedVars, candles, faults>>

UriStep(t) == FetchFails(t) \/ FetchNothing(t) \/ Fetched(t) \/ WriteUri(t)

-----------------------------------------------------------------------------
(* The test endpoints *)

(* POST /api/test-ipfs runs process_event_for_mint_detail, in the request's *)
(* task, on a made-up creation event of the mint named.                    *)
TestIpfs(m) ==
  /\ "testipfs" \in Env /\ Cardinality(tasks) < MaxTasks
  /\ tasks' = tasks \cup {Task(m, "test", 1, details[m])}
  /\ UNCHANGED <<chainVars, feedVars, procVars, dbVars, faults>>

TestIpfsWrite(t) ==
  /\ t.phase = "test"
  /\ details' = [details EXCEPT ![t.mint] = [t.copy EXCEPT !.created = TRUE]]
  /\ known' = known \cup {t.mint}
  /\ \/ Replace(t, Task(t.mint, "fetch", 1, EmptyDetail))
     \/ tasks' = tasks \ {t}     \* the call gave no URI
  /\ UNCHANGED <<chainVars, feedVars, procVars, batchedVars, candles, faults>>

(* POST /api/test-order writes a short order and its user copy in a batch. *)
TestOrder(u, p) ==
  LET b == [put |-> {[user |-> u, pda |-> p, otype |-> 2, cut |-> 0]},
            delOr |-> {}, delUo |-> {}]
  IN /\ orders' = WriteOrders(orders, b)
     /\ userOrders' = WriteUserOrders(userOrders, b)
     /\ UNCHANGED <<chainVars, feedVars, procVars, tasks, trades, markers, userTx,
                    known, details, candles, faults>>

-----------------------------------------------------------------------------
Next ==
  \/ Chain
  \/ \E e \in history : Redeliver(e)
  \/ Store \/ CandleError \/ StoreError \/ Crash
  \/ \E t \in tasks : UriStep(t) \/ TestIpfsWrite(t)
  \/ \E m \in Mints : TestIpfs(m)
  \/ \E c \in TestCalls : TestOrder(c[1], c[2])

Spec == Init /\ [][Next]_vars

(* The processor's loop and the spawned tasks keep running: tokio polls a  *)
(* task that is ready, and no step of theirs waits for anybody.            *)
FairSpec == Spec /\ WF_vars(Store)
                 /\ WF_vars(\E t \in tasks : UriStep(t) \/ TestIpfsWrite(t))

-----------------------------------------------------------------------------
(* Types of every variable. *)
TypeOK ==
  /\ created \subseteq Mints /\ live \subseteq Order
  /\ slot \in Nat /\ tx \in Nat /\ emitted \in 0..MaxEvents
  /\ feed \in Seq(Event) /\ seen \subseteq Event /\ history \subseteq Event
  /\ pc \in {"idle", "prepare", "candle", "readDetail", "writeDetail", "commit"}
  /\ pc # "idle" => ev \in Event
  /\ pc \notin {"idle", "prepare"} => batch \in Batch
  /\ todo \in 1..3
  /\ copy \in Detail
  /\ tasks \subseteq [mint : Mints, phase : {"fetch", "write", "test"},
                      try : 1..MaxRetries, copy : Detail]
  /\ trades \subseteq Trade
  /\ markers \subseteq Nat \X Mints
  /\ orders \subseteq Order /\ userOrders \subseteq Order
  /\ userTx \subseteq [user : Users, mint : Mints, slot : Nat, kind : Kinds, sig : Nat]
  /\ known \subseteq Mints
  /\ details \in [Mints -> Detail]
  /\ candles \in [Mints -> [IntervalSet -> Nat]]
  /\ faults \in 0..MaxFaults

TestPdas == {c[2] : c \in TestCalls}

CaughtUp == pc = "idle" /\ feed = <<>>

(* or: (by mint and side) and uo: (by user) hold the same orders.  The      *)
(* documents say so without a condition.  The code keeps it where accounts *)
(* are opened on one side only: uo: has no side in its key, so an account  *)
(* opened again on the other side, after a close that was lost, has two     *)
(* records under or: and one under uo:.                                    *)
OrderIndexesAgree == orders = userOrders

(* What it keeps, whatever is lost or repeated and whoever pays for a close: *)
(* every order a user is shown is on the mint's list, with the same data;  *)
(* and the mint's list shows more only of an account that can be opened on *)
(* either side.  store_event computes the uo: keys to delete from what it  *)
(* finds under or:, so a copy that is left behind is left for ever.        *)
UserOrdersListed ==
  /\ userOrders \subseteq orders
  /\ \A q \in orders \ userOrders : SidesOf[q.pda] = {1, 2}

(* With every event delivered and stored, the orders the API reports open  *)
(* are the orders open on the chain, with the data of their last cut.      *)
OpenOrdersMatchChain ==
  CaughtUp => {q \in orders : q.pda \notin TestPdas} = live

(* The mt: markers, from which /api/mints lists the mints, are the recorded *)
(* creations: store_event writes a marker only if the in: record is absent, *)
(* and that record is put before the batch that holds the marker.          *)
MarkersMatchCreations ==
  markers = {<<r.slot, r.mint>> : r \in {t \in trades : t.kind = "tc"}}

Recorded(m, s) == Cardinality({r \in trades : r.mint = m /\ r.kind \in KindsOf(s)})

(* Between two events, the totals of a mint's detail record count exactly   *)
(* the recorded events: the put of in: and the batch go together.          *)
TotalsMatchRecords ==
  pc = "idle" => \A m \in Mints, s \in Stats :
                   details[m].tot[s] = (IF Recorded(m, s) > TotalMax THEN TotalMax
                                                                    ELSE Recorded(m, s))

(* No recorded event is missing from the totals of its mint, up to the cap, *)
(* whatever fails, is lost or repeated, as long as no URI task has written *)
(* its copy of the detail record back over a newer one.                    *)
RecordsCounted ==
  \A m \in Mints, s \in Stats :
    ~details[m].uri /\ details[m].tot[s] < TotalMax => Recorded(m, s) <= details[m].tot[s]

(* Whatever is lost or overwritten, a total exceeds the recorded events by  *)
(* at most the events whose store_event was cut short and the one under way.*)
NeverOvercounted ==
  \A m \in Mints, s \in Stats :
    details[m].tot[s] <= Recorded(m, s) + faults + (IF pc = "commit" THEN 1 ELSE 0)

(* The candles of the three intervals have taken in the same events, except *)
(* for those an error or a crash kept from the later intervals.            *)
IntervalsInStep ==
  \A m \in Mints :
    LET c == candles[m]
    IN /\ c["s1"] >= c["s30"] /\ c["s30"] >= c["m5"]
       /\ c["s1"] <= c["m5"] + faults
                     + (IF pc = "candle" /\ ev.mint = m /\ todo > 1 THEN 1 ELSE 0)

(* Every event delivered is in the event log once the processor caught up. *)
EveryEventRecorded == CaughtUp => Cardinality(trades) = emitted

(* The history of a user has an entry for each mint and slot in which an    *)
(* event of theirs is recorded, that of the last one unless the node       *)
(* repeats events, and no entry without a recorded event: an event is put  *)
(* under the payer of a close, and one key serves a whole slot.            *)
HistoryOfEachSlot ==
  /\ \A r \in trades : r.kind \in UserKinds =>
       \E q \in userTx : SameUserTxKey(q, r) /\ (q.sig >= r.sig \/ "redeliver" \in Env)
  /\ \A q \in userTx : \E r \in trades : SameTradeKey(r, q)

(* The store implements the ledger, through either of its order indexes: in *)
(* the tables of the batch every event is recorded whole or not at all, in *)
(* one step, as if read, deletion and put of its order happened together   *)
(* when the batch is written.                                              *)
ByMint == INSTANCE Ledger WITH request <- ev, log <- trades, listed <- markers,
                               book <- orders, history <- userTx
ByUser == INSTANCE Ledger WITH request <- ev, log <- trades, listed <- markers,
                               book <- userOrders, history <- userTx
ImplementsLedger == ByMint!Spec /\ ByUser!Spec

(* A mint created on the chain is eventually listed.                       *)
ListedEventually ==
  \A m \in Mints : m \in created ~> \E x \in markers : x[2] = m
=============================================================================
