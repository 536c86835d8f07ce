------------------------------- MODULE Candles -------------------------------
(***************************************************************************)
(* Candle data (process_kline_data and its helpers in                      *)
(* src/services/event_storage.rs): what one price does to one candle table. *)
(* A table is a set of candles, one per time bucket.  A price is a natural *)
(* number; the conversion from u128 is monotone and keeps what is compared. *)
(***************************************************************************)
EXTENDS Integers, FiniteSets

CONSTANT Width    (* of each interval's buckets: 1, 30 and 300 seconds     *)

Intervals == {"s1", "s30", "m5"}

ASSUME CandleAssumption ==
  /\ Width \in [Intervals -> Nat \ {0}]
  /\ Width["s1"] = 1
  /\ Width["s30"] % Width["s1"] = 0 /\ Width["m5"] % Width["s30"] = 0

Candle == {c \in [time : Nat, open : Nat, high : Nat, low : Nat, close : Nat,
                   update_count : Nat \ {0}] : c.low <= c.close /\ c.close <= c.high}

Bucket(i, t) == (t \div Width[i]) * Width[i]

At(table, b) == {c \in table : c.time = b}
Earlier(table, b) == {c \in table : c.time < b}
Newest(table) == CHOOSE c \in table : \A d \in table : d.time <= c.time

(* Faulty variants (named ..Faulty..) are not part of the specification: each *)
(* is a slip a property must notice.  Here: the first candle, not the last.  *)
OpenPriceFaulty(table, b, price) ==
  IF Earlier(table, b) = {} THEN price
  ELSE (CHOOSE c \in table : \A d \in table : c.time <= d.time).close

(* The close of the last candle before bucket b, else the price itself.    *)
OpenPrice(table, b, price) ==
  IF Earlier(table, b) = {} THEN price ELSE Newest(Earlier(table, b)).close

NewCandleFaulty(table, b, price) ==   \* the low is the open
  [time |-> b, open |-> OpenPrice(table, b, price), high |-> price,
   low |-> OpenPrice(table, b, price), close |-> price, update_count |-> 1]

(* A new candle opens where the last one closed; its high and low are its  *)
(* own prices, the open apart.                                             *)
NewCandle(table, b, price) ==
  [time |-> b, open |-> OpenPrice(table, b, price), high |-> price, low |-> price,
   close |-> price, update_count |-> 1]

UpdatedFaulty(c, price) ==   \* the low follows the price
  [c EXCEPT !.high = IF price > @ THEN price ELSE @,
            !.low = price,
            !.close = price,
            !.update_count = @ + 1]
Updated(c, price) ==
  [c EXCEPT !.high = IF price > @ THEN price ELSE @,
            !.low = IF price < @ THEN price ELSE @,
            !.close = price,
            !.update_count = @ + 1]

CandleOfFaulty(table, b, price) ==   \* the bucket's candle is not looked up
  NewCandle(table, b, price)
(* The candle the price is written to, and the table after the write.      *)
CandleOf(table, b, price) ==
  IF At(table, b) = {} THEN NewCandle(table, b, price)
                       ELSE Updated(CHOOSE c \in At(table, b) : TRUE, price)
PutPrice(table, b, price) == (table \ At(table, b)) \cup {CandleOf(table, b, price)}
=============================================================================
