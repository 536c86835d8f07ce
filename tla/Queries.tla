------------------------------- MODULE Queries -------------------------------
(***************************************************************************)
(* What a client sees of the store while the event handler writes it.  The *)
(* client does one of two things: it walks through a listing, page after   *)
(* page, over HTTP; or it subscribes to a room over Socket.IO, is sent the *)
(* history, and from then on is pushed the events and candles of its room. *)
(*                                                                         *)
(* The handler is module Handler, its steps interleaved with the client's; *)
(* an announcement or a push reaches the client if it is in the room then. *)
(* A query iterates over a snapshot and is one step.                       *)
(***************************************************************************)
EXTENDS Handler

CONSTANTS
  Rooms,         (* the intervals the client may subscribe to              *)
  Limits,        (* page sizes clients ask for                             *)
  CandleHistory, (* candles sent at a subscription (100 in the code)       *)
  EventHistory   (* events sent at a subscription (300 in the code)        *)

ASSUME QueriesAssumption ==
  /\ Rooms \subseteq Intervals /\ Limits \subseteq Nat
  /\ CandleHistory \in Nat \ {0} /\ EventHistory \in Nat \ {0}

VARIABLES
  walk,   \* the walk through a listing
  sub     \* the subscription, and what the client has been sent under it

vars == <<handlerVars, walk, sub>>

NoWalk == [phase |-> "none"]
Finished == [phase |-> "finished"]
NoSub == [phase |-> "none"]

Init == HandlerInit /\ walk = NoWalk /\ sub = NoSub

-----------------------------------------------------------------------------
(* The subscribe handler's task, step by step.  Its checks and the books   *)
(* it keeps are in module Subscriptions.                                   *)

SubscribeStepsFaulty ==   \* the client joins the room when all is sent
  <<"readCandles", "sendCandles", "readEvents", "sendEvents", "join", "confirm">>
SubscribeSteps ==
  <<"join", "readCandles", "sendCandles", "readEvents", "sendEvents", "confirm">>

Subscribe(i) ==
  /\ sub = NoSub /\ walk = NoWalk
  /\ sub' = [phase |-> "opening", interval |-> i, steps |-> SubscribeSteps,
             joined |-> FALSE, read |-> {}, view |-> {}, seen |-> {}]
  /\ UNCHANGED <<handlerVars, walk>>

(* The client keeps one candle for each bucket: the one with more updates, *)
(* for what it is sent may be older than what it was pushed.               *)
Merge(view, new) ==
  LET all == view \cup new
  IN {c \in all : \A d \in all : d.time = c.time => d.update_count <= c.update_count}

SubStep(what) ==
  sub.phase = "opening" /\ Head(sub.steps) = what /\ UNCHANGED <<handlerVars, walk>>
Rest == Tail(sub.steps)

Join == SubStep("join") /\ sub' = [sub EXCEPT !.joined = TRUE, !.steps = Rest]

(* get_kline_history, then the emit of history_data *)
ReadCandles ==
  /\ SubStep("readCandles")
  /\ sub' = [sub EXCEPT !.steps = Rest,
               !.read = {r[2] : r \in FirstRows(CandleRows(sub.interval), CandleHistory)}]
SendCandles ==
  /\ SubStep("sendCandles")
  /\ sub' = [sub EXCEPT !.steps = Rest, !.view = Merge(@, sub.read), !.read = {}]

(* get_event_history, then the emit of history_event_data *)
ReadEvents ==
  /\ SubStep("readEvents")
  /\ sub' = [sub EXCEPT !.steps = Rest, !.read = FirstRows(trades, EventHistory)]
SendEvents ==
  /\ SubStep("sendEvents")
  /\ sub' = [sub EXCEPT !.steps = Rest, !.seen = @ \cup sub.read, !.read = {}]

Confirm == SubStep("confirm") /\ sub' = [sub EXCEPT !.phase = "live", !.steps = <<>>]

(* The handler meets the subscriber.  A walk that has shown its last page   *)
(* is forgotten when the handler goes on.                                  *)
WalkAfter == IF walk.phase = "done" THEN Finished ELSE walk
Hears == sub # NoSub /\ sub.joined
AnnounceToRoom ==
  /\ Announce
  /\ sub' = IF Hears THEN [sub EXCEPT !.seen = @ \cup {Row(now)}] ELSE sub
  /\ walk' = WalkAfter
PushToRoom ==
  /\ Push
  /\ sub' = IF Hears /\ sub.interval = Head(todo)[2]
              THEN [sub EXCEPT !.view = Merge(@, Pushed)] ELSE sub
  /\ walk' = WalkAfter

-----------------------------------------------------------------------------
(* A walk *)

TableIn(name, m, t, o) ==
  CASE name = "mints" -> m [] name = "events" -> t [] name = "orders" -> o
Table(name) == TableIn(name, markers, trades, orders)

StartWalk(name, desc, limit) ==
  /\ walk = NoWalk /\ sub = NoSub
  /\ walk' = [phase |-> "walking", table |-> name, desc |-> desc, limit |-> limit,
              page |-> 1, cursor |-> NoCursor, got |-> <<>>,
              base |-> Table(name), added |-> 0, removed |-> 0]
  /\ UNCHANGED <<handlerVars, sub>>

(* The HTTP handlers refuse a page below 1 and a limit above 1000.  A limit *)
(* of 0 they let pass: by page number such a walk never ends, and is left  *)
(* out here; by cursor it shows one mint a page.  Orders are sorted up or  *)
(* down by their side.                                                     *)
WalkEvents(desc, limit) == limit > 0 /\ StartWalk("events", desc, limit)
WalkOrders(desc, limit) == limit > 0 /\ StartWalk("orders", desc, limit)
WalkMints(desc, limit) == StartWalk("mints", desc, limit)

EventsPage == PageOf(trades, walk.desc, walk.page, walk.limit)
OrdersPage == PageOf(orders, walk.desc, walk.page, walk.limit)
MintsPage == MintsFrom(markers, walk.desc, walk.cursor, walk.limit)

NextPage ==
  /\ walk.phase = "walking"
  /\ LET r == CASE walk.table = "events" -> EventsPage
                [] walk.table = "orders" -> OrdersPage
                [] walk.table = "mints" -> MintsPage
     IN walk' = [walk EXCEPT
          !.phase = IF r.has_next THEN "walking" ELSE "done",
          !.page = @ + 1,
          !.cursor = IF walk.table = "mints" THEN r.next_cursor ELSE NoCursor,
          !.got = @ \o r.items]
  /\ UNCHANGED <<handlerVars, sub>>

(* The handler's other steps; a walk under way counts the rows that come   *)
(* and go in its table.                                                    *)
WriteAside ==
  /\ Write
  /\ walk' = IF walk.phase # "walking" THEN WalkAfter
             ELSE LET old == Table(walk.table)
                      new == TableIn(walk.table, markers', trades', orders')
                  IN [walk EXCEPT !.added = @ + Cardinality(new \ old),
                                  !.removed = @ + Cardinality(old \ new)]
  /\ UNCHANGED sub

Next ==
  \/ WriteAside \/ AnnounceToRoom \/ PushToRoom
  \/ \E i \in Rooms : Subscribe(i)
  \/ Join \/ ReadCandles \/ SendCandles \/ ReadEvents \/ SendEvents \/ Confirm
  \/ \E desc \in BOOLEAN, limit \in Limits :
       WalkEvents(desc, limit) \/ WalkOrders(desc, limit) \/ WalkMints(desc, limit)
  \/ NextPage

Spec == Init /\ [][Next]_vars

-----------------------------------------------------------------------------
(* Types of every variable. *)
TypeOK ==
  /\ HandlerTypeOK
  /\ \/ walk \in {NoWalk, Finished}
     \/ walk.phase \in {"walking", "done"} /\ walk.got \in Seq(Nat \X Nat)
  /\ \/ sub = NoSub
     \/ /\ sub.phase \in {"opening", "live"} /\ sub.interval \in Intervals
        /\ sub.view \subseteq Candle /\ sub.seen \subseteq Nat \X (1..MaxEvents)

(* A confirmed subscriber has, between two events, the candles of the       *)
(* database: every candle it holds is current, and the newest CandleHistory *)
(* ones are among them.  The history is read and sent while the handler    *)
(* puts and pushes, so a push may overtake the history or fall before it.  *)
LiveViewCurrent ==
  sub.phase = "live" /\ todo = <<>> =>
    /\ sub.view \subseteq candles[sub.interval]
    /\ {r[2] : r \in FirstRows(CandleRows(sub.interval), CandleHistory)} \subseteq sub.view

(* A confirmed subscriber has seen, between two events, the newest events  *)
(* of the listing: none falls between the history and the announcements.   *)
LiveEventsComplete ==
  sub.phase = "live" /\ todo = <<>> => FirstRows(trades, EventHistory) \subseteq sub.seen

Got == ToSet(walk.got)

(* A walk that has reached the last page has missed at most one row of the *)
(* listing it began with for each row that was removed on the way, whatever *)
(* came in between two pages; the listings without removals miss nothing.  *)
WalkMissesLittle ==
  walk.phase = "done" => Cardinality(walk.base \ Got) <= walk.removed

(* A walk shows a row again at most once for each row that came in on the  *)
(* way; a walk from cursor to cursor shows none twice.                     *)
WalkRepeatsLittle ==
  walk.phase \in {"walking", "done"} =>
    Len(walk.got) - Cardinality(Got) <= IF walk.table = "mints" THEN 0 ELSE walk.added
=============================================================================
