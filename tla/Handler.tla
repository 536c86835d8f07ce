------------------------------- MODULE Handler -------------------------------
(***************************************************************************)
(* The event handler (KlineEventHandler::handle_event in                   *)
(* src/services/kline_socket.rs), one event at a time: the candles of the  *)
(* event are put one by one, its batch is written, the event is announced  *)
(* to the rooms of its mint, and the newest candle of each interval is     *)
(* read again and pushed.                                                  *)
(*                                                                         *)
(* An event counts here by what its storing leaves: a row of the event     *)
(* listing, a price, a mint marker, an order that opens or goes.  A swap   *)
(* is a BuySell, open a LongShort, close the liquidation of an order, which *)
(* carries no price; a FullClose leaves what a swap and a close leave.  An *)
(* error in store_event is logged and the event announced all the same.    *)
(* An event's time is the parser's clock, which here does not step back.   *)
(***************************************************************************)
EXTENDS Candles, Listings

CONSTANTS
  Creations,  (* the <<slot, account>> pairs of creations; late events make *)
              (* slots come in any order, and accounts are naturals in the *)
              (* order of their names                                      *)
  Trades,     (* the <<slot, price>> pairs of events that carry a price    *)
  Times,
  MaxEvents,  (* bound: events handled                                     *)
  MaxFaults,  (* bound: I/O errors                                         *)
  LastFaulty  (* bound: the last event an I/O error hits                   *)

ASSUME HandlerAssumption ==
  /\ Creations \subseteq Nat \X Nat /\ Trades \subseteq Nat \X Nat
  /\ Times \subseteq Nat /\ Times # {}
  /\ MaxEvents \in Nat /\ MaxFaults \in Nat /\ LastFaulty \in Nat

VARIABLES
  now,      \* the event being handled; its id counts the events so far
  todo,     \* what is still to do for it
  candles,  \* the candle table of each interval
  taken,    \* the prices each candle table has taken in, in order
  trades,   \* the event listing's rows: slot and id
  markers,  \* the mt: keys: slot and account
  orders,   \* the order listing's rows: start price and id
  faults

tables == <<candles, taken, trades, markers, orders>>
handlerVars == <<now, todo, tables, faults>>

Order == <<"s1", "s30", "m5">>
Puts == [i \in 1..3 |-> <<"put", Order[i]>>]
Pushes == [i \in 1..3 |-> <<"push", Order[i]>>]
Stores == << <<"store", "batch">>, <<"announce", "event">> >>

Priced(e) == e.kind \in {"swap", "open"}
WorkFaulty(e) ==   \* a slip a property must notice: the candles are pushed first
  IF Priced(e) THEN Pushes \o Puts \o Stores ELSE Stores
Work(e) == IF Priced(e) THEN Puts \o Stores \o Pushes ELSE Stores

Row(e) == <<e.slot, e.id>>
Kinds == {"create", "swap", "open", "close"}
FirstTime == CHOOSE t \in Times : \A u \in Times : t <= u
NoEvent == [kind |-> "none", id |-> 0, slot |-> 0, price |-> 0, time |-> FirstTime,
            account |-> 0, order |-> <<>>]

HandlerInit ==
  /\ now = NoEvent /\ todo = <<>>
  /\ candles = [i \in Intervals |-> {}] /\ taken = [i \in Intervals |-> <<>>]
  /\ trades = {} /\ markers = {} /\ orders = {} /\ faults = 0

-----------------------------------------------------------------------------
(* The next event, parsed at time t, comes from the channel.               *)
Handle(e, t) ==
  /\ todo = <<>> /\ now.id < MaxEvents
  /\ now.time <= t
  /\ now' = [e EXCEPT !.id = now.id + 1, !.time = t]
  /\ todo' = Work(e)
  /\ UNCHANGED <<tables, faults>>

Swap(x, t) == Handle([NoEvent EXCEPT !.kind = "swap", !.slot = x[1], !.price = x[2]], t)

(* An order opens, here in the second of the event before, at the price it *)
(* leaves behind; one closes, here in the slot of the event before.        *)
OpenOrder(x) ==
  Handle([NoEvent EXCEPT !.kind = "open", !.slot = x[1], !.price = x[2]], now.time)

CloseOrder(o) ==
  Handle([NoEvent EXCEPT !.kind = "close", !.slot = now.slot, !.order = o], now.time)

CreateMint(x) ==
  /\ \A m \in markers : m[2] # x[2]
  /\ Handle([NoEvent EXCEPT !.kind = "create", !.slot = x[1], !.account = x[2]], now.time)

Next1(what) == todo # <<>> /\ Head(todo)[1] = what /\ todo' = Tail(todo)

(* process_kline_data *)
Put ==
  /\ Next1("put")
  /\ LET i == Head(todo)[2]
     IN /\ candles' = [candles EXCEPT ![i] = PutPrice(@, Bucket(i, now.time), now.price)]
        /\ taken' = [taken EXCEPT ![i] = Append(@, [price |-> now.price, time |-> now.time])]
  /\ UNCHANGED <<now, trades, markers, orders, faults>>

Fault == faults < MaxFaults /\ now.id <= LastFaulty /\ faults' = faults + 1

(* An error in process_kline_data: the later intervals do not get the price. *)
PutFails ==
  /\ Fault
  /\ todo # <<>> /\ Head(todo)[1] = "put"
  /\ todo' = Stores \o Pushes
  /\ UNCHANGED <<now, tables>>

Store ==
  /\ Next1("store")
  /\ trades' = trades \cup {Row(now)}
  /\ markers' = IF now.kind = "create" THEN markers \cup {<<now.slot, now.account>>} ELSE markers
  /\ orders' = CASE now.kind = "open" -> orders \cup {<<now.price, now.id>>}
                 [] now.kind = "close" -> orders \ {now.order}
                 [] OTHER -> orders
  /\ UNCHANGED <<now, candles, taken, faults>>

(* store_event fails with an error, which is logged. *)
StoreFails ==
  /\ Fault
  /\ Next1("store")
  /\ UNCHANGED <<now, tables>>

(* broadcast_event_update: the event goes to who is in a room now. *)
Announce == Next1("announce") /\ UNCHANGED <<now, tables, faults>>

(* get_latest_kline: the first candle of the first page, newest first.     *)
CandleRows(i) == {<<c.time, c>> : c \in candles[i]}
Latest(i) == {r[2] : r \in FirstRows(CandleRows(i), 1)}

(* trigger_kline_push, one interval: no candle, no push.                   *)
Pushed == Latest(Head(todo)[2])
Push == Next1("push") /\ UNCHANGED <<now, tables, faults>>

(* What the handler does by itself; Announce and Push meet the subscribers. *)
Write ==
  \/ \E x \in Trades : OpenOrder(x) \/ \E t \in Times : Swap(x, t)
  \/ \E o \in orders : CloseOrder(o)
  \/ \E x \in Creations : CreateMint(x)
  \/ Put \/ PutFails \/ Store \/ StoreFails

-----------------------------------------------------------------------------
Event == [kind : Kinds \cup {"none"}, id : 0..MaxEvents, slot : Nat, price : Nat,
          time : Times, account : Nat, order : {<<>>} \cup (Nat \X Nat)]

HandlerTypeOK ==
  /\ now \in Event
  /\ \E w \in {Puts \o Stores \o Pushes, Stores} : \E n \in 1..Len(w) + 1 :
       todo = SubSeq(w, n, Len(w))
  /\ candles \in [Intervals -> SUBSET Candle]
  /\ taken \in [Intervals -> Seq([price : Nat, time : Times])]
  /\ trades \subseteq Nat \X (1..MaxEvents)
  /\ markers \subseteq Creations
  /\ orders \subseteq Nat \X (1..MaxEvents)
  /\ faults \in 0..MaxFaults

(* The candle of bucket b according to the prices themselves.              *)
Expected(i, b) ==
  LET s == taken[i]
      inside == {n \in 1..Len(s) : Bucket(i, s[n].time) = b}
      before == {n \in 1..Len(s) : Bucket(i, s[n].time) < b}
      last(N) == CHOOSE n \in N : \A m \in N : m <= n
      first(N) == CHOOSE n \in N : \A m \in N : n <= m
      prices == {s[n].price : n \in inside}
  IN [time |-> b,
      open |-> s[IF before = {} THEN first(inside) ELSE last(before)].price,
      high |-> CHOOSE p \in prices : \A q \in prices : q <= p,
      low |-> CHOOSE p \in prices : \A q \in prices : p <= q,
      close |-> s[last(inside)].price,
      update_count |-> Cardinality(inside)]

(* Every candle is what the whole history of prices says of its bucket: the *)
(* extremes and the last of the prices inside, opening at the last price   *)
(* before.  process_kline_data computes it price by price from what the    *)
(* table holds.                                                            *)
CandlesMatchPrices ==
  \A i \in Intervals :
    candles[i] = {Expected(i, Bucket(i, taken[i][n].time)) : n \in 1..Len(taken[i])}

(* A candle once written stays: no step takes it away, gives it another    *)
(* open, narrows its extremes or forgets an update; and what a step adds or *)
(* changes is the newest of its table, so that a closed candle is final.   *)
(* Clients keep the candles they were sent, and are not told of old ones.  *)
CandlesOnlyGrow ==
  [][\A i \in Intervals :
       /\ \A c \in candles[i] : \E d \in candles'[i] :
            /\ d.time = c.time /\ d.open = c.open
            /\ d.low <= c.low /\ c.high <= d.high /\ c.update_count <= d.update_count
       /\ \A d \in candles'[i] \ candles[i] : \A c \in candles[i] :
            c.time <= d.time]_handlerVars

(* The intervals agree: a candle summarises the finer candles inside it,   *)
(* as long as no error kept a price of process_kline_data from one of them. *)
CoarserSummarisesFiner ==
  \A pair \in {<<"s1", "s30">>, <<"s30", "m5">>} :
    taken[pair[1]] = taken[pair[2]] =>
      \A c \in candles[pair[2]] :
        LET inside == {f \in candles[pair[1]] : Bucket(pair[2], f.time) = c.time}
        IN /\ \A f \in inside : f.high <= c.high /\ c.low <= f.low
           /\ \E f \in inside : f.high = c.high
           /\ \E f \in inside : f.low = c.low
           /\ Newest(inside).close = c.close
=============================================================================
