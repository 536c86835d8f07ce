# Verification of pinpet-server

pinpet-server follows one Solana program: it listens to the program's
transactions over a WebSocket, decodes their events, stores them in RocksDB with
several derived indexes and candles, answers HTTP queries, and pushes candles
and events to Socket.IO clients. This directory holds TLA+ models of the parts
that keep state, TLC configurations that check small instances of them, and
TLAPS proofs of what matters most, for every value of the constants.

Paths below are relative to the crate, `src/` (the repository's own `src/`
directory), unless they start with `docs/`.

## 1. Inventory

| Component | State it keeps | Operations | Modelled in |
|---|---|---|---|
| Event store, `services/event_storage.rs` | RocksDB: `tr:` event log, `mt:` mint markers, `or:`/`uo:` orders by mint and by user, `us:` user history, `in:` mint details, `s1:`/`s30:`/`m5:` candles | `store_event`, spawned URI fetch, `create_test_order_data`, `process_event_for_mint_detail` called by `/api/test-ipfs` | `EventStore`, abstractly in `Ledger` |
| Candles, `process_kline_data` | the candle tables | one put per interval and price | `Candles`, `Handler` |
| Queries, `query_*` | nothing | page-number listings, cursor listing of mints | `Listings`, `Queries` |
| K-line push, `services/kline_socket.rs` | `SubscriptionManager` (three maps), the engine's rooms | connect, subscribe, unsubscribe, history, disconnect, clean-up task, pushes after each event | `Subscriptions`; what a subscriber is sent in `Handler` and `Queries` |
| RPC client, `solana/client.rs` | the client behind a `RwLock`, connection state, counters | `execute_with_retry`, `reconnect`, `force_reconnect` | `RpcClient` |
| Listener, `solana/listener_improved.rs` | connection loop, ping task, processed signatures, broadcast channel | connect, subscribe, read, fetch, broadcast, process, back off | `Listener` |
| Event parser, `solana/events.rs` | the program stack while one transaction is read | `parse_events_with_call_stack`, `parse_event_data` | `CallStack`, `Decoder` |
| Event service and start, `services/event_service.rs`, `main.rs` | statistics, the service's lock | `start`, `get_status`, `handle_event` | callers in `RpcClient`; statistics not modelled |
| HTTP handlers and routes | nothing | turn requests into calls of the store | the two endpoints that write, in `EventStore`; the walks, in `Queries` |
| Configuration | read once | | its values are CONSTANTS |
| `solana/listener.rs`, `listener.rs_` | | not compiled | not modelled |

How they interact: the listener's reader broadcasts decoded events on a tokio
channel; one processor task takes them and runs, one event at a time,
`KlineEventHandler::handle_event`, which calls the statistics handler (which
calls `store_event`) and then pushes. `store_event` spawns URI tasks that write
the same `in:` records. The listener's reader and the status endpoint share
the RPC client. HTTP reads run beside all of this on RocksDB snapshots.

What is hard, and what must hold:

- *Several writes, one event.* `store_event` puts candles and the detail record
  by themselves and only the rest in a batch; a crash or an error may come
  between. Every order a user is shown must be on the mint's list, every event
  recorded must be counted, and nothing more often than an interrupted write
  explains.
- *Concurrent read-modify-write of `in:`* by the processor, URI tasks and the
  test endpoint.
- *Derived deletes.* The `uo:` key of a closed order is found by reading `or:`;
  if the two ever disagree they stay so.
- *Lost events.* The channel overwrites, connections break, fetches fail; the
  store meets closes of orders it never saw opened.
- *Four descriptions of a subscription* (record, index, reverse index, room),
  changed by tasks that interleave.
- *A lock held across a retry loop* that asks for the same lock.
- *Reconnection* that must give up exactly at its limit and otherwise go on, in
  a reader that awaits connections, pongs and fetches without a limit.
- *Log lines read as a call stack*, where program output is mixed with control.
- *Some eighty byte offsets written by hand* beside the program's IDL.
- *A subscriber who is sent history and pushes at once.* History is read in one
  step and sent in another while the handler puts and pushes.
- *Listings walked while records come and go.*

`PROJECT.json` lists each hazard at its line, with the properties that watch it
or the reason none does.

## 2. Modules

Order of composition: `CallStack` is extended by `Listener`; `Candles` and
`Listings` by `Handler`, and that by `Queries`; `EventStore` instantiates
`Ledger`, `Listener` instantiates `Feed`; `MCListener` composes `Listener` with
`Decoder`. Each `MC*` module extends the module it instantiates and gives values
to its constants; each `*Proofs` module extends the module it proves about.
`EventStoreProofs` holds the order indexes and the refinement of `Ledger`;
`RecordsProofs` extends it with what the other tables say of one another.
`ListenerProofs` is about `Listener` and the `CallStack` in it, `DecoderProofs`
about the `Decoder` in `MCListener`, `QueriesProofs` about `Queries` and the
`Handler` in it. `Induction` is induction over naturals, without operators as
parameters, for these three.
Definitions whose name contains `Faulty` are slips a programmer could make,
kept beside the definition they alter. They are not part of any specification;
substituting one must break the property it is listed with under `mutants`.

### EventStore

One variable per key prefix. A table whose values matter is a set of records
holding key and value. Tokens, amounts and texts are left out: an event counts
one unit towards a total, a candle counts its updates (their contents are the
matter of `Candles`), a URI fetch ends with or without data.

| Code | Action |
|---|---|
| processor receives an event | `Receive` |
| `store_event`, reads and batch (988-1209) | `Prepare` (`BatchOf`) |
| `process_kline_data`, each interval | `PutCandle`, `CandleError` |
| `process_event_for_mint_detail`, get | `ReadDetail` |
| ... change, put, spawn | `WriteDetail` (`ApplyEvent`, `SpawnFetch`) |
| `db.write(batch)` | `Commit` |
| any other `?` in `store_event` | `StoreError` |
| `fetch_token_uri_data`, `update_mint_uri_data` | `FetchFails`, `FetchNothing`, `Fetched`, `WriteUri` |
| `/api/test-ipfs`, `/api/test-order` | `TestIpfs`, `TestIpfsWrite`, `TestOrder` |
| process dies, restarts on the same database | `Crash` |

`Prepare` is one step although it may read two keys: the keys of one order
account have no other writer. The chain (`Chain`) is the environment: it creates
mints, trades, opens, cuts, closes and liquidates orders; an account can be
opened again after it closed. `Env` names the hazards of an instance: `loss`
(an event never reaches the processor), `crash`, `fail` (an I/O error),
`sameslot` and `sametx` (several transactions in a slot, several events in a
transaction), `redeliver` (an event is delivered again after a restart), `uri`,
`testipfs`.

`Ledger` is what the store promises of the tables written by the batch: one
event at a time, all of it recorded in one step or dropped, with a book of at
most one order for each account and no sides, second index, batch or reads made
early. `EventStore!ImplementsLedger` maps it twice, the book once onto `or:` and
once onto `uo:`; a step before `Commit` is a stutter, an error or a crash drops
the request. The detail record and the candles are not part of it: finding 1
says why they could not be.

### Subscriptions

A task is a record with its next step; a step is one hold of the manager's lock
or one call of the engine. `RemoveClients` is `remove_client`, with the split of
the key at colons: `Splittable` are the keys it takes apart, and of the others,
which validation lets pass, it leaves the index entry in place. `FindInactive` and `RemoveInactive` are the
clean-up's two holds of the lock. `confirmed` is what clients have been told.
With `Pipelined = FALSE` a client waits for each answer.

### RpcClient

Each caller has a phase, which is its place in `execute_with_retry` or
`reconnect`. The lock is tokio's fair `RwLock`: one queue, `GrantRead` and
`Replace` (the write) at its head, a writer only when no guard is held. The read
guard lives until the iteration ends, as in the code. A fetch answers whatever
the node does (an error becomes an answer without a transaction); two errors of
parsing in it (`client.rs:331`, `:342`) are left out. `boot` is `main`, which
starts the service before it serves.

### CallStack and Listener

`CallStack` is the parser: `Step` pushes on " invoke [", pops on any other line
that mentions " success" or " failed", whoever wrote it. (A message of a program
with " invoke [" in it, which `events.rs:218` would take for an invocation, is
left out.) Beside it stand the
runtime's own calls (`Calls`, external) and what the parser counts on
(`WellNested`). `Listener` is the
connection loop (`loop`), the ping task, `handle_websocket_message`
(`ReadMessage`, `FetchOk`, `FetchNothing`, `Broadcast`), the answer to a ping
(`NodePings`, `PongSent`, `PongErr`) and the processor (`Lagged`, `HandleEvent`). Events are lines of transactions; `Keys` are what
`events_are_equal` compares. `stop()` is called nowhere and is left out.

`Feed` is what the listener promises the event handler, told by the chain and not
by the connection: a transaction is published once, after all that were, as an
ordered part of its events that has all those the notification shows; a bounded
backlog drops its oldest event only when more wait than it holds; nothing is
delivered before what was dropped is reported. `Listener!ImplementsFeed` maps the
backlog to `channel \o pending`, and what is published to the recorded signatures
but the one still being fetched, so that `FetchOk` and `FetchNothing` publish and
connections, repeats and pings are stutters.

### Decoder

`IdlFields` is what the program writes, field after field, from
`idl/spinpet.json`; `Parser` is what `parse_event_data` cuts, at the code's own
numbers, after the code's one test of the length. A byte carries the field it
belongs to and its place in it, so a cut that is shifted, swapped, short or
missing shows. The strings of a TokenCreated are found one after the other, each
length in four bytes, low byte first (`U32`, `StringCut`, `StringAfter`).
Bytes past the end of a cut are a `Panic`, as in Rust. The
MilestoneDiscount parser asks for 99 bytes and reads the byte at offset 100; the
program always writes 101, so the slip shows only on data that breaks off.
`MCListener` decodes every data line of its transactions with `Decode`; what
does not decode is no event for the listener.

### Candles, Listings, Handler and Queries

`Candles` says what one price does to one table, `Listings` how a table is cut
into pages. `Handler` is `KlineEventHandler::handle_event` as a list of things
still to do: three puts, the batch, the announcement, three pushes; an error is
logged and the rest goes on, as in the code. An event is reduced to what its
storing leaves: a swap is a BuySell, an open a LongShort, a close a liquidation;
a FullClose leaves what a swap and a close leave. `Queries` runs the handler
beside one client, who walks a listing by page number or cursor, or subscribes
to a room (join, read candles, send, read events, send, confirm, each a step of
its own) and hears what is announced and pushed while in it. A query is one
step: it iterates over a snapshot. Event times do not step back (they are the
parser's clock).

## 3. Runs

The bounds are in the `.cfg` files. Each bound is the smallest at which the
cases named here happen, and every property is also shown to fail when the code
is changed by one slip.

| Run | Distinct states | What it asks |
|---|---|---|
| EventStoreFaults | 2.0 M | `or:` and `uo:` agree on accounts with one side, and the store implements the ledger, through lost and repeated events, crashes, test orders, the test IPFS call |
| EventStoreLossy | 1.2 M | `UserOrdersListed`, `NeverOvercounted`, `RecordsCounted`, `IntervalsInStep`, `MarkersMatchCreations` under loss, crash, I/O errors and URI tasks, with two users and both sides |
| EventStoreCalm | 1.4 M | without faults the store reproduces the chain: `HistoryOfEachSlot`, `OpenOrdersMatchChain`, `TotalsMatchRecords`, `EveryEventRecorded`, `ListedEventually` |
| EventStoreTorn | finds a violation | a crash between the detail record and the batch leaves the totals ahead |
| EventStoreSameTx | finds a violation | two events of one kind, mint and transaction share a `tr:` key |
| Subscriptions | 331 k | the manager's descriptions agree, with a key that splits and one that does not, counts are exact, subscribers are in their rooms, closed sockets are forgotten |
| SubscriptionsSwept | finds a violation | the clean-up leaves an open client in its rooms |
| RpcClient | 231 k | lock, counters, attempts; calls return and the server comes up if the node does not recover between a failure and its probe |
| RpcClientRecovery | finds a violation | it does recover there: the server never comes up |
| Listener | 131 k | every event type decoded to itself; order, no repeat, no silent drop, give-up limit, reconnection and delivery, unless an await without a limit never ends; the listener implements the feed |
| ListenerWords | finds a violation | a log message with " success" hides the events after it |
| Queries | 3.9 M | candles against the price history, and none rewritten or taken away; a subscriber's candles and events are complete and current; walks miss and repeat no more than what came or went |

Why the bounds suffice. *EventStore*: three to five events reach open, cut,
close, reopening on the other side and liquidation; one or two waiting events
let a crash lose some; one fault at each of the steps; totals saturate at
`TotalMax = 2`, so saturation happens. One order account at a time is enough for
what its records say of each other; it is opened on both sides, and closed by
either of two users, in `EventStoreLossy` and `EventStoreCalm`; in
`EventStoreFaults` it has one side and one user, and there is an account that
test calls name. `EventStoreCalm` puts several transactions in a slot. *Subscriptions*: two sockets, two keys, the limit at one
(at two in the run that looks for a violation), three requests reach an
unsubscribe against a subscribe, a refusal at the limit, and the clean-up
between any two steps; one key splits at its colon and one does not. *RpcClient*: three callers, three attempts and three
calls make readers queue behind a forced writer. *Listener*: three transactions
(nested call with a cut notification, failure, two equal swaps), a channel of
two so that it overwrites, two breaks, two repeats or pings, one reconnect attempt;
strings of 0, 1 and 258 bytes, so that a length fills more than its first byte. *Queries*: three events, at times 2 to 4, cross the boundaries of
buckets of 1, 2 and 4 seconds, and stay inside one; one I/O error, on the first
event, leaves the tables apart for the two events after it; rooms of the finest
and the coarsest interval; histories of 2 of 3 rows, so that the oldest is cut
off; pages of 1 and 2 rows, shifted by an event that comes in and an order that
closes; the cursor listing also with limit 0, which shows one mint a page.

Deadlock is not checked: bounded inputs end, and a system whose clients and
chain are silent rightly stands still. Progress is stated as liveness instead.

Fairness. `EventStore`: the processor's loop and the spawned tasks go on;
nothing about the chain. `Subscriptions`: spawned tasks run, the 30-second
clean-up wakes, the clock reaches the timeout. `RpcClient`: tasks run, the fair
lock is granted, sleeps end, `main` goes on; nothing about the node.
`Listener`: tasks run and sleeps end; nothing about the network or the ping task,
and nothing of connecting, subscribing, answering a ping and fetching, to which
the code puts no limit (the fetch first waits for `client.read()`,
`client.rs:117`, which finding 4 shows can be for ever). The two liveness
properties name these awaits instead. The rest is tokio's scheduling of ready
tasks; no strong fairness is used.

Scope of the properties, where it is not obvious:

- `EventStoreLossy` delivers no event twice and makes no test calls. With either,
  an `in:` record can exist before the creation event and the mint stays
  unlisted (line 1000); totals of an event delivered twice are added
  twice.
- `UserOrdersListed` lets an account that can be opened on both sides have an
  `or:` record without a `uo:` copy: the close of an order is lost, and the
  account opened again on the other side, whose key under `uo:` is the same. The
  old order stays on the mint's list, the user's list is right.
  `docs/RocksDB键值说明.md:91` and `docs/用户订单数据实现总结.md:120` claim more, that
  the two are always in sync.
- `HistoryOfEachSlot` says which of several events of a user, mint and slot
  stays in the history: the last. `docs/RocksDB键值说明.md:80` claims that all do.
- `RecordsCounted` says nothing of a mint whose record a URI task has written:
  it may have put back a copy from before an event.
- `IndexesAgree` and `ClosedForgotten` (of `Subscriptions`) let the index keep
  entries of keys that do not split in two; only the statistics read them.
- `SubscribersInRooms` speaks of clients that await each answer. An unsubscribe
  sent before the subscription was answered may run between `add_subscription`
  and `join` and leave the client in the room.
- `NeverOvercounted` allows undercounts: a URI task that read the record before
  an event and writes it after wipes out the event's part.
- `ListensOrGivesUp` counts a silent connection as listening: after three failed
  pings the ping task ends and nobody reconnects (line 412).
- `ReadEventsAccounted` speaks of events the notification shows. The signature is
  recorded before the fetch, so what only the fetched transaction shows is lost
  when the fetch fails; two swaps are equal for `events_are_equal`.
- `LiveViewCurrent` takes a client that keeps, of two candles of a bucket, the
  one with more updates: what it is sent may be older than what it was pushed.
- `WalkMissesLittle` allows one missed row for each row removed on the way, and
  `WalkRepeatsLittle` one repeated row for each row that came in; this is what
  page numbers can keep. A walk by cursor repeats nothing. The handlers let a
  limit of 0 pass; by page number such a walk never ends, and none is started.
- `DecodesWhatIsWritten` lets data that breaks off be refused or, for
  MilestoneDiscount alone, panic; for every other type a panic violates it.
- Transactions executed while disconnected are never asked for again.

## 4. Findings

1. `EventStoreTorn`: `docs/事件处理流程图.md:234` says all of an event's processing is
   one WriteBatch; the detail record and the candles are put outside it.
2. `EventStoreSameTx`: `docs/RocksDB键值说明.md:51` says `tr:` stores all trade events;
   its key does not tell apart two of one kind in one transaction.
3. `SubscriptionsSwept`: `docs/socket-io-protocol.md:232` and `:256` say rooms manage
   subscriptions and the clean-up cancels them; the clean-up leaves the rooms.
4. `RpcClientRecovery`: `execute_with_retry` (line 161) calls `reconnect` while it
   holds the read guard; a successful probe then waits for the write lock for
   ever. At the start, `main` never serves, where `main.rs:158` says it will.
5. `ListenerWords`: `docs/CPI事件捕获实现说明.md:44` pops on the runtime's lines only;
   `events.rs:234` pops on any line with the words.

## 5. Proofs

| Theorem | Says | Assumes |
|---|---|---|
| `EventStoreProofs!TypeCorrect` | `[]TypeOK` | `StoreAssumption` |
| `EventStoreProofs!UserOrdersAreListed` | `[]UserOrdersListed` | `OwnTestAccounts` |
| `EventStoreProofs!IndexesAgree` | `[]OrderIndexesAgree` | `OneKeyPerAccount` |
| `EventStoreProofs!StoreImplementsLedger` | `ImplementsLedger` | `OneKeyPerAccount` |
| `RecordsProofs!CandlesInStep` | `[]IntervalsInStep` | `StoreAssumption` |
| `RecordsProofs!HistoryIsKept` | `[]HistoryOfEachSlot` | `StoreAssumption` |
| `RecordsProofs!MarkersAreCreations` | `[]MarkersMatchCreations` | `CreationsFirst` |
| `RecordsProofs!TotalsNeverOvercount` | `[]NeverOvercounted` | `EachOnce` |
| `RecordsProofs!RecordsAreCounted` | `[]RecordsCounted` | `"testipfs" \notin Env` |
| `RecordsProofs!EveryEventIsRecorded` | `[]EveryEventRecorded` | `Undisturbed`, `EachOnce` |
| `RecordsProofs!OrdersMatchChain` | `[]OpenOrdersMatchChain` | `Undisturbed`, `SeparateTests` |
| `SubscriptionsProofs!TypeCorrect` | `[]TypeOK` | `SubscriptionsAssumption` |
| `SubscriptionsProofs!BooksInOrder` | `[](IndexesAgree /\ CountExact)` | `SubscriptionsAssumption` |
| `SubscriptionsProofs!SubscribersHear` | `[]SubscribersInRooms` | `~Pipelined` |
| `RpcClientProofs!TypeCorrect` | `[]TypeOK` | `RpcAssumption` |
| `RpcClientProofs!CallsGiveUp` | `[]AttemptsBounded` | `RpcAssumption` |
| `RpcClientProofs!LockInOrder` | `[]LockDiscipline` | `RpcAssumption` |
| `RpcClientProofs!StatisticsAddUp` | `[]RequestsAccounted` | finitely many callers |
| `RpcClientProofs!DeadlockIsFinal` | a retrying call that asks for the write lock asks for ever | `RpcAssumption` |
| `ListenerProofs!ParserFinds` | the parser decodes what is written while the program is on the runtime's stack, and no event of the program is missed | `WellNested` |
| `ListenerProofs!TypeCorrect` | `[]TypeOK` | `OnlyTargetDecodes` |
| `ListenerProofs!GivesUp` | `[]GivesUpAtLimit` | `ListenerAssumption` |
| `ListenerProofs!EventsInOrder` | `[]HandledInOrder` | `ListenerAssumption` |
| `ListenerProofs!NoEventDropped` | `[]ReadEventsAccounted` | `LogsNest` |
| `ListenerProofs!ListenerImplementsFeed` | `ImplementsFeed` | `LogsNest`, `OnlyTargetDecodes` |
| `DecoderProofs!DecodesEveryEvent` | every event of every type is decoded to itself, whatever the lengths of its strings | `LengthsFit` |
| `DecoderProofs!DecodingIsExact` | `[]DecodesWhatIsWritten` | `LogsOf = MCLogsOf` |
| `QueriesProofs!TypeCorrect` | `[]TypeOK` | `QueriesAssumption` |
| `QueriesProofs!CandlesAreExact` | `[]CandlesMatchPrices` | `QueriesAssumption` |
| `QueriesProofs!CandlesGrow` | `CandlesOnlyGrow`, of every step | `QueriesAssumption` |
| `QueriesProofs!IntervalsAgree` | `[]CoarserSummarisesFiner` | `QueriesAssumption` |
| `QueriesProofs!SubscriberIsCurrent` | `[]LiveViewCurrent` | `QueriesAssumption` |
| `QueriesProofs!SubscriberHearsAll` | `[]LiveEventsComplete` | `QueriesAssumption` |
| `QueriesProofs!WalkMisses` | `[]WalkMissesLittle` | `QueriesAssumption` |
| `QueriesProofs!WalkRepeats` | `[]WalkRepeatsLittle` | `QueriesAssumption` |

Each theorem also rests on the assumptions of its component's constants, which
only say what values they may have (`QueriesAssumption` stands here for those of
`Candles` and `Handler` too). A hypothesis with a name of its own says what the
instance must not contain:

| Hypothesis | Leaves out | Why it is needed |
|---|---|---|
| `OwnTestAccounts` | test orders on accounts of the chain, or under a user who is not the account's | such an order replaces the chain's under `or:` and not under `uo:` |
| `OneKeyPerAccount` | those, and an account opened on both sides | an account opened again on the other side after a lost close has two records under `or:` and one under `uo:` |
| `CreationsFirst` | redelivery, test IPFS calls | the detail record exists, so the second delivery writes no marker |
| `EachOnce` | redelivery, two events in a transaction | an event counted twice, or one `tr:` key for two (finding 2) |
| `"testipfs" \notin Env` | test IPFS calls | such a call puts back an old copy of the record without URI data |
| `Undisturbed` | loss, crash, errors, redelivery | an event that never reached the batch is in no table |
| `SeparateTests` | test orders on accounts of the chain | they overwrite the chain's order |
| `~Pipelined` | a client that does not wait for answers | an unsubscription overtakes the subscription before it |
| `OnlyTargetDecodes` | other programs' data that decodes to an event | the parser would broadcast it |
| `LogsNest` | logs with the runtime's words in a message | finding 5 |
| `LengthsFit` | strings whose length four bytes do not hold | Borsh writes no others |
| `LogsOf = MCLogsOf` | nothing of the decoder | the transactions whose types of events `MCTypesIn` lists |

*UserOrdersAreListed, IndexesAgree.* The property alone is not inductive: `Commit`
applies a batch computed earlier. `IndexInv` adds that the batch under way still
deletes and puts what the event calls for in the present database, and that
orders, live orders and events on their way name the owner and a side of their
account. A close deletes the `or:` record of one side, and the `uo:` copy only
if it found that record: so a copy never outlives its record, and a record
without a copy is one of an account with two sides. Nothing is assumed of loss,
faults, redelivery or who closes. If moreover an account has one side, the two
tables are equal (`OneSideAgrees`); with two they need not be.

*StoreImplementsLedger.* Two refinements in one: with the book mapped to `or:` and
to `uo:`. `BatchInv` adds to `IndexInv` that the rest of the batch under way (log
entry, history entry, marker) is what its event says, and that an idle processor
holds no event; then `Commit` is `Record`, `Receive` is `Submit`, an error or a
crash is `Drop`, a test order is the ledger's own, and all else a stutter.

*CandlesInStep.* The comparison of two intervals is off by one while an event is
between them. `CandleInv` states it with the intervals passed undone (`Ahead`);
an error leaves them passed and counts a fault.

*HistoryIsKept.* `BatchInv` says that log and history entry of the batch are those
of its event. Without redelivery (`NoRepeats`) `OrderInv` adds that what is
recorded, under way, waiting and still to be emitted come in the order of their
transactions, so that an entry is replaced only by a later one.

*MarkersAreCreations.* `Pool` is all that may still be recorded: waiting,
delivered before, under way. `MarkerInv` says that a creation on its way is the
first event of its mint and that no detail record of the mint exists until its
own is put, so that the batch filled before holds the marker.

*The totals.* By `OrderInv` and `EachOnce` none of the pool is recorded, so that
`Commit` adds exactly one to a count. `OverInv` bounds by the recorded events not
the record alone but every copy of it that a writer holds, the processor's and
each task's: whoever puts last, the bound stays. `UnderInv`, for
`RecordsAreCounted`, bounds from the other side the record and the processor's
copy, with the event already put and not yet recorded, as long as neither holds
URI data; only a task writes those, and it leaves them in every later copy.

*EveryEventIsRecorded.* `CountInv`: recorded, waiting and under way add up to
what was emitted.

*OrdersMatchChain.* The store is behind the chain by what is waiting. `OpenInv`
says there is a history of the open orders that begins with the store's, follows
the waiting events one by one and ends with the chain's; each event fits the
orders before it (it opens what is not open, closes what is). Emitting lengthens
the history, `Receive` and `Commit` consume it. `BookInv` says the batch filled
before test orders came does to the present orders what the event calls for.

*BooksInOrder.* `IndexInv` adds that a socket registers once and before that has
nothing on the books, since registration writes an empty record whatever the
indexes hold. The index is compared with the clients' sets in both directions,
but from the index back only for keys that split in two.

*SubscribersHear.* Books and rooms change in different steps. `RoomInv`: an open
client's key is on the books without its room only while the task that joins the
room is there; a room about to be left is off the books and not confirmed; a
client that waits has one request under way, so no other task interferes.

*RpcClient.* `IInv` couples `TypeOK` (which bounds the attempts) with
`AttemptsBounded` and `QueueInOrder`: a grant puts the head of the queue to work,
so the head must be a caller that waits. `Guards` adds that guards are held by
exactly the phases between grant and end of iteration, and that a forced
reconnect holds none. `DeadlockIsFinal` follows: the waiting call's own guard
disables `Replace`, and no other step moves it; so finding 4 is not a matter of
fairness.

*StatisticsAddUp.* The calls under way are those waiting for or holding a guard
before an answer; each step moves at most one caller in or out of that set, and
the counters with it. `HeadWaits` says who a grant moves.

*Listener.* `GivesUp` needs `LoopInv`: the count of failures stays within one of
the limit, passes it exactly when the loop has ended, and no ping task outlives
its connection. `EventsInOrder` rests on two invariants. `InboxInv`: the first
notification of each transaction not yet read is later than all that was read
and all that stands before it, though repeats may stand anywhere. `FlowInv`:
`handled`, `channel` and `pending` are each in order, each before the next, all
of signatures recorded, and a transaction being fetched is later than all of
them.

*ParserFinds, NoEventDropped.* On a log whose calls nest, the parser's stack is
the runtime's after every line, by induction over the lines; so the lines of the
target program are among those decoded, and all of them are. `NoEventDropped`
carries this through the queues: an event a read notification shows is in the
message, the fetch, the channel or handled, or counted by `Lagged`.

*ListenerImplementsFeed.* `FetchInv` adds to the invariants above that a
transaction being fetched is a wanted one and that signatures are transactions;
so what is fetched is the newest recorded, and publishing it when the fetch ends
is still in order. `FoundAreEmissions`: what either way of reading finds is a part
of the transaction's events with all those shown, from `ParserFinds`. Broadcasting
into a channel with room leaves `channel \o pending` as it is, and into a full
one drops the head of it (`Joined`).

*DecodesEveryEvent.* `LaidOut`: in a concatenation of chunks each stands where the
sum of the lengths before it says. `Fits`: the cuts of a type follow one another
and have its fields' names and widths, checked number by number for each of the
six types of a fixed length, whence `FixedBody`. For a TokenCreated the offsets
of the strings depend on the lengths read from the data: four bytes read back the
length written (`FourBytes`, by division), so each string is found behind the one
before it (`StringCutIs`, `TokenBody`). Data that breaks off agrees with the
whole as far as it goes: a string whose end is beyond it is missing, and so are
those after it (`TokenCuts`). Different discriminators differ (`Discriminators`).

*CandlesAreExact, IntervalsAgree.* `HandlerInv`: each candle sums up (`SumsUp`)
the prices its table took in of its bucket, each price is at a time no earlier
than those before, and the list of things to do is a rest of the list the event
began with. `PutPrice` adds one price to one bucket, because no later bucket is
open yet. That a bucket of a coarser interval is a union of finer ones is a fact
about division (`Nested`).

*CandlesGrow.* A step of the handler that touches candles is a `PutPrice`, and by
`HandlerInv` its price belongs to no earlier bucket than the newest of the table:
it replaces the newest candle by a wider one (`Wider`) with the same open, or adds
a newer one.

*SubscriberIsCurrent, SubscriberHearsAll.* `SubInv` goes by the stage of the
subscription. Every candle the client holds, or is about to be sent, is a state
of a candle of the table no newer than the present one, and the present one is
held too or *late*: put and still to be pushed. After the history is read this
includes the newest candles. Between two events nothing is late. For events the
same, with the announcement in place of the push.

*WalkMisses, WalkRepeats.* `WalkInv` counts two sets at the walk's present
offset: `Beyond`, rows shown that are still to come, and `Missed`, rows of the
start neither shown nor to come. A row that comes in pushes at most one shown
row past the offset, a row that goes pulls at most one row before it, and a turned
page moves its rows from ahead to shown, so `Beyond` is at most `added` and
`Missed` at most `removed`. By cursor, all that was shown comes no later than the
cursor and all that was not comes after it. The listings are sorts: that the
order by value or key exists, is unique and counts ranks (`RanksAre`,
`ByValueIsOrder`) is proved first.

*Induction over data.* The library's induction theorems take an operator and are
not used. `Induction` argues from the least element: the numbers a statement
fails for form a set, and a nonempty set of naturals has a least element
(`LeastElement`, proved from the well-foundedness of inclusion on finite sets).
All recursion in the modules proved about is by functions.

Left to TLC. *Liveness* and its fairness: `ListedEventually`, `ClosedForgotten`,
`EveryCallReturns`, `ServerComesUp`, `ListensOrGivesUp`, `ReadEventsHandled`; the
provers have no rule for ENABLED. `TotalsMatchRecords`: totals are exact only in
the undisturbed run; what holds in general is proved, from above
(`TotalsNeverOvercount`) and from below (`RecordsAreCounted`). Every other
invariant, the action property and the two refinements of the passing runs are
proved; so is one thing no run can show, `DeadlockIsFinal`.

## 6. Not modelled

- Base64, public keys as text, UTF-8 errors, `f64` conversion, JSON.
- The statistics of the event service: `get_status` and `get_stats` look for a
  `StatsEventHandler`, `main` gives them a `KlineEventHandler`, and they always
  answer zero; a model would restate that downcast. It is listed as a hazard.
- The enrichment of user orders, `query_mint_details` and old record formats:
  they read and change nothing. `store_events`: dead code.
- Configuration (its values are CONSTANTS), routing, logging.
- `stop()` and a second `start()` of the listener: nothing calls them.
- `solana/listener.rs`: not compiled.

## 7. Plan

Done in this order: event store (model, runs, index theorem), subscriptions
(model, runs, theorem), RPC client (model, runs, theorems), listener and parser,
candles and queries; then the ledger and the refinement proof, the handler as a
whole with its subscriber and its faults, the decoder; the theorems of the
listener, the tables, the rooms, the candles, the subscriber and the walks; last
the feed and its refinement proof, the action property of the candles, and the
decoder for strings of any length.

Left for whoever goes on:

1. An abstract specification of the rooms, and a refinement proof like those of
   the ledger and the feed.
2. Action properties of the store: what one event may write, also when a step
   fails.
3. A client that subscribes and walks at once, and two clients in a room.
4. Data lines of any length in the decoder that no program wrote: today they are
   what the program writes, whole or broken off.
