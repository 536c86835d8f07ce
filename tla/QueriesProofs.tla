----------------------------- MODULE QueriesProofs -----------------------------
(* Theorems of Queries and of the Handler it contains, for every value of  *)
(* their constants.                                                        *)
EXTENDS Queries, Induction, SequenceTheorems, FunctionTheorems

-----------------------------------------------------------------------------
(* Buckets *)

LEMMA Quotient ==
  ASSUME NEW t \in Nat, NEW w \in Nat \ {0}
  PROVE  t \div w \in Nat /\ (t \div w) * w <= t /\ t < (t \div w + 1) * w
OBVIOUS

LEMMA Product ==
  ASSUME NEW p \in Nat, NEW q \in Nat, NEW w \in Nat, p <= q
  PROVE  p * w \in Nat /\ q * w \in Nat /\ p * w <= q * w
OBVIOUS

(* Later prices go to the same bucket or a later one. *)
LEMMA BucketsFollowTime ==
  ASSUME NEW i \in Intervals, NEW t \in Nat, NEW u \in Nat, t <= u
  PROVE  Bucket(i, t) \in Nat /\ Bucket(i, u) \in Nat /\ Bucket(i, t) <= Bucket(i, u)
<1>1. PICK w \in Nat \ {0} : w = Width[i]
  BY CandleAssumption
<1>2. PICK p \in Nat : p = t \div w /\ p * w <= t
  BY Quotient
<1>3. PICK q \in Nat : q = u \div w /\ u < (q + 1) * w
  BY Quotient
<1>4. p <= q
  <2>1. SUFFICES ASSUME q + 1 <= p PROVE FALSE  OBVIOUS
  <2>2. (q + 1) * w \in Nat /\ p * w \in Nat /\ (q + 1) * w <= p * w  BY <2>1, Product
  <2>. QED  BY <1>2, <1>3, <2>2
<1>5. p * w \in Nat /\ q * w \in Nat /\ p * w <= q * w
  BY <1>4, Product
<1>. QED  BY <1>1, <1>2, <1>3, <1>5 DEF Bucket

-----------------------------------------------------------------------------
(* What a candle says of a sequence of prices *)

Price == [price : Nat, time : Times]

Inside(i, s, b) == {n \in 1..Len(s) : Bucket(i, s[n].time) = b}
Before(i, s, b) == {n \in 1..Len(s) : Bucket(i, s[n].time) < b}
LastOf(n, N) == n \in N /\ \A m \in N : m <= n
FirstOf(n, N) == n \in N /\ \A m \in N : n <= m

SumsUp(c, i, s) ==
  LET inside == Inside(i, s, c.time)
      before == Before(i, s, c.time)
  IN /\ c \in Candle
     /\ \E n : LastOf(n, inside) /\ c.close = s[n].price
     /\ \E n \in inside : c.high = s[n].price
     /\ \A n \in inside : s[n].price <= c.high
     /\ \E n \in inside : c.low = s[n].price
     /\ \A n \in inside : c.low <= s[n].price
     /\ c.update_count = Cardinality(inside)
     /\ before = {} => \E n : FirstOf(n, inside) /\ c.open = s[n].price
     /\ before # {} => \E n : LastOf(n, before) /\ c.open = s[n].price

InTime(s, t) == \A n \in 1..Len(s) : s[n].time <= t /\ \A m \in 1..n : s[m].time <= s[n].time

(* The table has a candle for each price, and every candle sums up its     *)
(* bucket.                                                                 *)
TableSumsUp(table, i, s) ==
  /\ \A c \in table : SumsUp(c, i, s)
  /\ \A n \in 1..Len(s) : \E c \in table : c.time = Bucket(i, s[n].time)

LEMMA SummaryIsExpected ==
  ASSUME NEW i \in Intervals, taken[i] \in Seq(Price), NEW c, SumsUp(c, i, taken[i])
  PROVE  c = Expected(i, c.time)
<1>. DEFINE s == taken[i]
            inside == Inside(i, s, c.time)
            before == Before(i, s, c.time)
            prices == {s[n].price : n \in inside}
<1>1. \A n \in 1..Len(s) : s[n].price \in Nat
  <2>1. \A n \in 1..Len(s) : s[n] \in Price  OBVIOUS
  <2>. QED  BY <2>1 DEF Price
<1>2. inside \subseteq 1..Len(s) /\ before \subseteq 1..Len(s) /\ inside \subseteq Nat /\ before \subseteq Nat
  BY DEF Inside, Before
<1>3. c.close = s[CHOOSE n \in inside : \A m \in inside : m <= n].price
  <2>1. PICK n : LastOf(n, inside) /\ c.close = s[n].price  BY DEF SumsUp
  <2>2. (CHOOSE k \in inside : \A m \in inside : m <= k) = n
    BY <1>2, <2>1 DEF LastOf
  <2>. QED  BY <2>1, <2>2
<1>4. c.high = CHOOSE p \in prices : \A q \in prices : q <= p
  <2>1. prices \subseteq Nat /\ c.high \in prices /\ \A q \in prices : q <= c.high
    BY <1>1, <1>2 DEF SumsUp
  <2>. QED  BY <2>1
<1>5. c.low = CHOOSE p \in prices : \A q \in prices : p <= q
  <2>1. prices \subseteq Nat /\ c.low \in prices /\ \A q \in prices : c.low <= q
    BY <1>1, <1>2 DEF SumsUp
  <2>. QED  BY <2>1
<1>6. before = {} => c.open = s[CHOOSE n \in inside : \A m \in inside : n <= m].price
  <2>. SUFFICES ASSUME before = {}
                PROVE  c.open = s[CHOOSE n \in inside : \A m \in inside : n <= m].price
    OBVIOUS
  <2>1. PICK n : FirstOf(n, inside) /\ c.open = s[n].price  BY DEF SumsUp
  <2>2. (CHOOSE k \in inside : \A m \in inside : k <= m) = n
    BY <1>2, <2>1 DEF FirstOf
  <2>. QED  BY <2>1, <2>2
<1>7. before # {} => c.open = s[CHOOSE n \in before : \A m \in before : m <= n].price
  <2>. SUFFICES ASSUME before # {}
                PROVE  c.open = s[CHOOSE n \in before : \A m \in before : m <= n].price
    OBVIOUS
  <2>1. PICK n : LastOf(n, before) /\ c.open = s[n].price  BY DEF SumsUp
  <2>2. (CHOOSE k \in before : \A m \in before : m <= k) = n
    BY <1>2, <2>1 DEF LastOf
  <2>. QED  BY <2>1, <2>2
<1>8. c = [time |-> c.time, open |-> c.open, high |-> c.high, low |-> c.low,
           close |-> c.close, update_count |-> c.update_count]
  BY DEF SumsUp, Candle
<1>9. c.update_count = Cardinality(inside)
  BY DEF SumsUp
<1>. QED  BY <1>3, <1>4, <1>5, <1>6, <1>7, <1>8, <1>9 DEF Expected, Inside, Before

(* One more price, not earlier than the others: its bucket is the last one. *)
LEMMA OneMorePrice ==
  ASSUME NEW i \in Intervals, NEW s \in Seq(Price), NEW p \in Nat, NEW t \in Times,
         InTime(s, t)
  PROVE  LET more == Append(s, [price |-> p, time |-> t])
             L == Len(s) + 1
             b == Bucket(i, t)
         IN /\ more \in Seq(Price) /\ Len(more) = L /\ L \in Nat /\ b \in Nat /\ InTime(more, t)
            /\ more[L].price = p /\ Bucket(i, more[L].time) = b
            /\ \A n \in 1..Len(s) : /\ more[n] = s[n] /\ s[n] \in Price
                                    /\ Bucket(i, s[n].time) \in Nat
                                    /\ Bucket(i, s[n].time) <= b
            /\ \A n \in 1..Len(s) : \A m \in 1..n :
                 Bucket(i, s[m].time) <= Bucket(i, s[n].time)
            /\ Inside(i, more, b) = Inside(i, s, b) \cup {L}
            /\ Before(i, more, b) = Before(i, s, b)
            /\ \A d \in Nat : d # b /\ d <= b => /\ Inside(i, more, d) = Inside(i, s, d)
                                              /\ Before(i, more, d) = Before(i, s, d)
<1>. DEFINE more == Append(s, [price |-> p, time |-> t])
            L == Len(s) + 1
            b == Bucket(i, t)
<1>1. t \in Nat /\ Times \subseteq Nat
  BY HandlerAssumption
<1>2. /\ [price |-> p, time |-> t] \in Price /\ more \in Seq(Price) /\ Len(more) = L /\ L \in Nat
      /\ more[L] = [price |-> p, time |-> t]
      /\ \A n \in 1..Len(s) : more[n] = s[n] /\ s[n] \in Price /\ s[n].time \in Nat
  <2>1. [price |-> p, time |-> t] \in Price  BY DEF Price
  <2>2. \A n \in 1..Len(s) : s[n] \in Price  OBVIOUS
  <2>3. \A n \in 1..Len(s) : s[n].time \in Nat  BY <1>1, <2>2 DEF Price
  <2>. QED  BY <2>1, <2>2, <2>3
<1>3. b \in Nat /\ \A n \in 1..Len(s) : Bucket(i, s[n].time) \in Nat /\ Bucket(i, s[n].time) <= b
  <2>1. \A n \in 1..Len(s) : s[n].time \in Nat /\ s[n].time <= t  BY <1>2 DEF InTime
  <2>2. t <= t  BY <1>1
  <2>. QED  BY <1>1, <2>1, <2>2, BucketsFollowTime
<1>4. ASSUME NEW n \in 1..Len(s), NEW m \in 1..n PROVE Bucket(i, s[m].time) <= Bucket(i, s[n].time)
  <2>1. m \in 1..Len(s) /\ s[m].time <= s[n].time  BY DEF InTime
  <2>. QED  BY <1>2, <2>1, BucketsFollowTime
<1>5. InTime(more, t)
  <2>. HIDE DEF more
  <2>1. ASSUME NEW n \in 1..Len(more) PROVE more[n].time <= t /\ \A m \in 1..n : more[m].time <= more[n].time
    <3>1. CASE n \in 1..Len(s)  BY <1>2, <3>1 DEF InTime
    <3>2. CASE n = L
      <4>1. more[n].time = t /\ t <= t  BY <1>1, <1>2, <3>2
      <4>2. \A m \in 1..n : m = L \/ m \in 1..Len(s)  BY <1>2, <3>2
      <4>3. \A m \in 1..Len(s) : more[m].time <= t  BY <1>2 DEF InTime
      <4>. QED  BY <1>2, <4>1, <4>2, <4>3
    <3>. QED  BY <1>2, <3>1, <3>2
  <2>. QED  BY <2>1 DEF InTime
<1>6. /\ Inside(i, more, b) = Inside(i, s, b) \cup {L}
      /\ Before(i, more, b) = Before(i, s, b)
      /\ \A d \in Nat : d # b /\ d <= b => /\ Inside(i, more, d) = Inside(i, s, d)
                                        /\ Before(i, more, d) = Before(i, s, d)
  <2>. DEFINE B(n) == Bucket(i, more[n].time)
  <2>1. /\ 1..Len(more) = 1..Len(s) \cup {L} /\ L \notin 1..Len(s)
        /\ B(L) = b /\ \A n \in 1..Len(s) : Bucket(i, s[n].time) = B(n)
    <3>. HIDE DEF more
    <3>. QED  BY <1>2
  <2>. HIDE DEF more, B, b, L
  <2>2. \A d : /\ Inside(i, more, d) = {n \in 1..Len(more) : B(n) = d}
               /\ Before(i, more, d) = {n \in 1..Len(more) : B(n) < d}
    BY DEF Inside, Before, B
  <2>3. \A d : /\ Inside(i, s, d) = {n \in 1..Len(s) : B(n) = d}
               /\ Before(i, s, d) = {n \in 1..Len(s) : B(n) < d}
    BY <2>1 DEF Inside, Before
  <2>4. ~(b < b) /\ \A d \in Nat : d # b /\ d <= b => ~(b < d)
    BY <1>3
  <2>5. Inside(i, more, b) = Inside(i, s, b) \cup {L}  BY <2>1, <2>2, <2>3
  <2>6. Before(i, more, b) = Before(i, s, b)  BY <2>1, <2>2, <2>3, <2>4
  <2>7. ASSUME NEW d \in Nat, d # b, d <= b
        PROVE  Inside(i, more, d) = Inside(i, s, d) /\ Before(i, more, d) = Before(i, s, d)
    <3>1. B(L) # d /\ ~(B(L) < d)  BY <2>1, <2>4, <2>7
    <3>. DEFINE M == 1..Len(more)
                N == 1..Len(s)
    <3>4. M = N \cup {L}  BY <2>1
    <3>. HIDE DEF M, N
    <3>2. {n \in M : B(n) = d} = {n \in N : B(n) = d}  BY <3>1, <3>4
    <3>3. {n \in M : B(n) < d} = {n \in N : B(n) < d}  BY <3>1, <3>4
    <3>. QED  BY <2>2, <2>3, <3>2, <3>3 DEF M, N
  <2>. QED  BY <2>5, <2>6, <2>7
<1>7. more[L].price = p /\ Bucket(i, more[L].time) = b
  BY <1>2
<1>8. \A n \in 1..Len(s) : \A m \in 1..n : Bucket(i, s[m].time) <= Bucket(i, s[n].time)
  BY <1>4
<1>. HIDE DEF more, L, b
<1>9. /\ more \in Seq(Price) /\ Len(more) = L /\ L \in Nat /\ b \in Nat /\ InTime(more, t)
      /\ \A n \in 1..Len(s) : /\ more[n] = s[n] /\ s[n] \in Price
                              /\ Bucket(i, s[n].time) \in Nat /\ Bucket(i, s[n].time) <= b
  BY <1>2, <1>3, <1>5
<1>. QED  BY <1>6, <1>7, <1>8, <1>9 DEF more, L, b

(* The candle a price is written to sums up its bucket, and the others go  *)
(* on summing up theirs.                                                   *)
LEMMA PutSumsUp ==
  ASSUME NEW i \in Intervals, NEW table, NEW s \in Seq(Price), NEW p \in Nat, NEW t \in Times,
         InTime(s, t), TableSumsUp(table, i, s)
  PROVE  LET more == Append(s, [price |-> p, time |-> t])
         IN more \in Seq(Price) /\ InTime(more, t)
            /\ TableSumsUp(PutPrice(table, Bucket(i, t), p), i, more)
<1>. DEFINE more == Append(s, [price |-> p, time |-> t])
            L == Len(s) + 1
            b == Bucket(i, t)
            new == CandleOf(table, b, p)
<1>1. /\ more \in Seq(Price) /\ Len(more) = L /\ L \in Nat /\ b \in Nat /\ InTime(more, t)
      /\ more[L].price = p /\ Bucket(i, more[L].time) = b
      /\ \A n \in 1..Len(s) : /\ more[n] = s[n] /\ s[n] \in Price
                              /\ Bucket(i, s[n].time) \in Nat /\ Bucket(i, s[n].time) <= b
      /\ \A n \in 1..Len(s) : \A m \in 1..n : Bucket(i, s[m].time) <= Bucket(i, s[n].time)
      /\ Inside(i, more, b) = Inside(i, s, b) \cup {L}
      /\ Before(i, more, b) = Before(i, s, b)
      /\ \A d \in Nat : d # b /\ d <= b => /\ Inside(i, more, d) = Inside(i, s, d)
                                        /\ Before(i, more, d) = Before(i, s, d)
  BY OneMorePrice
<1>. HIDE DEF more, b
<1>. L = Len(s) + 1 /\ Len(s) \in Nat  OBVIOUS
<1>. HIDE DEF L
<1>2. \A d : Inside(i, s, d) \subseteq 1..Len(s) /\ Before(i, s, d) \subseteq 1..Len(s)
  BY DEF Inside, Before
<1>3. \A n \in 1..Len(s) : s[n].price \in Nat /\ more[n].price = s[n].price
  BY <1>1 DEF Price
<1>4. ASSUME NEW c \in table
      PROVE  /\ c \in Candle /\ c.time \in Nat /\ c.time <= b
             /\ \E n \in 1..Len(s) : c.time = Bucket(i, s[n].time)
  <2>1. SumsUp(c, i, s)  BY DEF TableSumsUp
  <2>2. c \in Candle /\ \E n \in 1..Len(s) : c.time = Bucket(i, s[n].time)
    BY <2>1 DEF SumsUp, LastOf, Inside
  <2>. QED  BY <1>1, <2>2
(* A candle of another bucket. *)
<1>5. ASSUME NEW c \in table, c.time # b PROVE SumsUp(c, i, more)
  <2>1. Inside(i, more, c.time) = Inside(i, s, c.time) /\ Before(i, more, c.time) = Before(i, s, c.time)
    BY <1>1, <1>4, <1>5
  <2>2. SumsUp(c, i, s)  BY DEF TableSumsUp
  <2>. QED  BY <1>2, <1>3, <2>1, <2>2 DEF SumsUp, LastOf, FirstOf
(* A new bucket: all the prices before are in earlier ones. *)
<1>6. ASSUME At(table, b) = {} PROVE SumsUp(new, i, more)
  <2>1. \A n \in 1..Len(s) : Bucket(i, s[n].time) < b
    <3>. SUFFICES ASSUME NEW n \in 1..Len(s), Bucket(i, s[n].time) = b PROVE FALSE  BY <1>1
    <3>1. \E c \in table : c.time = b  BY DEF TableSumsUp
    <3>. QED  BY <1>6, <3>1 DEF At
  <2>2. Inside(i, more, b) = {L}
    <3>1. Inside(i, s, b) = {}  BY <1>1, <2>1 DEF Inside
    <3>. QED  BY <1>1, <3>1
  <2>3. Before(i, more, b) = 1..Len(s)
    BY <1>1, <2>1 DEF Before
  <2>4. Earlier(table, b) = table
    BY <1>1, <1>4, <1>6 DEF Earlier, At
  <2>5. table = {} <=> 1..Len(s) = {}
    BY <1>4 DEF TableSumsUp
  <2>6. ASSUME table # {}
        PROVE  LastOf(Len(s), 1..Len(s)) /\ Newest(table).close = s[Len(s)].price
    <3>1. Len(s) \in 1..Len(s) /\ LastOf(Len(s), 1..Len(s))  BY <2>5, <2>6 DEF LastOf
    <3>2. PICK a \in table : a.time = Bucket(i, s[Len(s)].time)
      BY <3>1 DEF TableSumsUp
    <3>3. \A d \in table : d.time <= a.time
      BY <1>1, <1>4, <3>1, <3>2
    <3>4. PICK c \in table : c = Newest(table) /\ \A d \in table : d.time <= c.time
      BY <3>3 DEF Newest
    <3>5. c.time = Bucket(i, s[Len(s)].time)
      BY <1>4, <3>2, <3>3, <3>4
    <3>6. Len(s) \in Inside(i, s, c.time)
      BY <3>1, <3>5 DEF Inside
    <3>7. PICK n : LastOf(n, Inside(i, s, c.time)) /\ c.close = s[n].price
      BY DEF TableSumsUp, SumsUp
    <3>8. n = Len(s)
      <4>1. n \in 1..Len(s) /\ Len(s) <= n  BY <1>2, <3>6, <3>7 DEF LastOf
      <4>. QED  BY <4>1
    <3>. QED  BY <3>1, <3>4, <3>7, <3>8
  <2>7. new = [time |-> b, open |-> OpenPrice(table, b, p), high |-> p, low |-> p, close |-> p,
               update_count |-> 1]
    BY <1>6 DEF CandleOf, NewCandle
  <2>8. table = {} => OpenPrice(table, b, p) = p
    BY <2>4 DEF OpenPrice
  <2>9. table # {} => OpenPrice(table, b, p) = s[Len(s)].price
    BY <2>4, <2>6 DEF OpenPrice
  <2>10. OpenPrice(table, b, p) \in Nat
    BY <1>3, <2>5, <2>6, <2>8, <2>9 DEF LastOf
  <2>11. new \in Candle
    BY <1>1, <2>7, <2>10 DEF Candle
  <2>12. Cardinality({L}) = 1
    BY FS_Singleton
  <2>13. LastOf(L, {L}) /\ FirstOf(L, {L})
    BY DEF LastOf, FirstOf
  <2>14. table # {} => more[Len(s)].price = s[Len(s)].price
    BY <1>3, <2>6 DEF LastOf
  <2>. HIDE DEF new
  <2>15. new.time = b /\ new.high = p /\ new.low = p /\ new.close = p /\ new.update_count = 1
         /\ new.open = OpenPrice(table, b, p)
    BY <2>7
  <2>16. \A n \in {L} : n = L /\ more[n].price = p /\ p <= p
    BY <1>1
  <2>17. Before(i, more, b) = {} => FirstOf(L, {L}) /\ new.open = more[L].price
    BY <1>1, <2>3, <2>5, <2>8, <2>13, <2>15
  <2>18. Before(i, more, b) # {} => LastOf(Len(s), Before(i, more, b)) /\ new.open = more[Len(s)].price
    BY <2>3, <2>5, <2>6, <2>9, <2>14, <2>15
  <2>19. /\ \E n : LastOf(n, {L}) /\ new.close = more[n].price
         /\ \E n \in {L} : new.high = more[n].price /\ new.low = more[n].price
         /\ \A n \in {L} : more[n].price <= new.high /\ new.low <= more[n].price
    BY <2>13, <2>15, <2>16
  <2>. QED
    BY <2>2, <2>11, <2>12, <2>15, <2>17, <2>18, <2>19 DEF SumsUp
(* The last bucket again. *)
<1>7. ASSUME At(table, b) # {} PROVE SumsUp(new, i, more)
  <2>1. PICK c \in At(table, b) : new = Updated(c, p)
    BY <1>7 DEF CandleOf
  <2>2. c \in table /\ c.time = b /\ SumsUp(c, i, s) /\ c \in Candle
    BY <1>4, <2>1 DEF At, TableSumsUp
  <2>. DEFINE inside == Inside(i, s, b)
  <2>3. /\ inside \subseteq 1..Len(s) /\ inside # {} /\ Inside(i, more, b) = inside \cup {L}
        /\ L \notin inside
    BY <1>1, <1>2, <2>2 DEF SumsUp, LastOf
  <2>4. Cardinality(inside \cup {L}) = Cardinality(inside) + 1
    <3>1. IsFiniteSet(1..Len(s))  BY FS_Interval
    <3>2. IsFiniteSet(inside)  BY <2>3, <3>1, FS_Subset
    <3>. HIDE DEF inside
    <3>. QED  BY <2>3, <3>2, FS_AddElement
  <2>5. /\ new.time = b /\ new.open = c.open /\ new.close = p /\ new.update_count = c.update_count + 1
        /\ new.high = (IF p > c.high THEN p ELSE c.high) /\ new.low = (IF p < c.low THEN p ELSE c.low)
        /\ new \in Candle
    <3>1. /\ c.time \in Nat /\ c.open \in Nat /\ c.high \in Nat /\ c.low \in Nat /\ c.close \in Nat
          /\ c.update_count \in Nat \ {0}
          /\ c = [time |-> c.time, open |-> c.open, high |-> c.high, low |-> c.low, close |-> c.close,
                  update_count |-> c.update_count]
      BY <2>2 DEF Candle
    <3>2. new = [time |-> c.time, open |-> c.open,
                 high |-> IF p > c.high THEN p ELSE c.high, low |-> IF p < c.low THEN p ELSE c.low,
                 close |-> p, update_count |-> c.update_count + 1]
      BY <2>1, <3>1 DEF Updated
    <3>3. /\ (IF p > c.high THEN p ELSE c.high) \in Nat /\ p <= (IF p > c.high THEN p ELSE c.high)
          /\ (IF p < c.low THEN p ELSE c.low) \in Nat /\ (IF p < c.low THEN p ELSE c.low) <= p
          /\ c.update_count + 1 \in Nat \ {0}
      BY <3>1
    <3>. HIDE DEF new
    <3>. QED  BY <2>2, <3>1, <3>2, <3>3 DEF Candle
  <2>6. c.high \in Nat /\ c.low \in Nat
    BY <2>2 DEF Candle
  <2>. HIDE DEF new, inside
  <2>7. LastOf(L, inside \cup {L}) /\ new.close = more[L].price
    <3>1. \A m \in inside : m <= L  BY <2>3
    <3>2. L <= L  BY <1>1
    <3>3. \A m \in inside \cup {L} : m <= L  BY <3>1, <3>2
    <3>4. LastOf(L, inside \cup {L})  BY <3>3 DEF LastOf
    <3>5. new.close = p /\ more[L].price = p  BY <1>1, <2>5
    <3>. QED  BY <3>4, <3>5
  <2>8. \A n \in inside : more[n].price = s[n].price /\ s[n].price \in Nat
    BY <1>3, <2>3
  <2>9. /\ \E n \in inside \cup {L} : new.high = more[n].price
        /\ \A n \in inside \cup {L} : more[n].price <= new.high
    <3>1. /\ \E n \in inside : c.high = s[n].price
          /\ \A n \in inside : s[n].price <= c.high
      BY <2>2 DEF SumsUp, inside
    <3>2. new.high \in Nat /\ c.high <= new.high /\ p <= new.high /\ new.high \in {p, c.high}
      BY <2>5, <2>6
    <3>3. ASSUME NEW n \in inside PROVE more[n].price <= new.high
      BY <2>6, <2>8, <3>1, <3>2
    <3>. QED  BY <1>1, <2>8, <3>1, <3>2, <3>3
  <2>10. /\ \E n \in inside \cup {L} : new.low = more[n].price
         /\ \A n \in inside \cup {L} : new.low <= more[n].price
    <3>1. /\ \E n \in inside : c.low = s[n].price
          /\ \A n \in inside : c.low <= s[n].price
      BY <2>2 DEF SumsUp, inside
    <3>2. new.low \in Nat /\ new.low <= c.low /\ new.low <= p /\ new.low \in {p, c.low}
      BY <2>5, <2>6
    <3>3. ASSUME NEW n \in inside PROVE new.low <= more[n].price
      BY <2>6, <2>8, <3>1, <3>2
    <3>. QED  BY <1>1, <2>8, <3>1, <3>2, <3>3
  <2>11. new.update_count = Cardinality(inside \cup {L})
    BY <2>2, <2>4, <2>5 DEF SumsUp, inside
  <2>12. ASSUME Before(i, more, b) = {}
         PROVE  \E n : FirstOf(n, inside \cup {L}) /\ new.open = more[n].price
    <3>1. PICK n : FirstOf(n, inside) /\ c.open = s[n].price
      BY <1>1, <2>2, <2>12 DEF SumsUp, inside
    <3>2. n \in 1..Len(s) /\ n <= L  BY <2>3, <3>1 DEF FirstOf
    <3>. QED  BY <2>5, <2>8, <3>1, <3>2 DEF FirstOf
  <2>13. ASSUME Before(i, more, b) # {}
         PROVE  \E n : LastOf(n, Before(i, more, b)) /\ new.open = more[n].price
    <3>1. PICK n : LastOf(n, Before(i, s, b)) /\ c.open = s[n].price
      BY <1>1, <2>2, <2>13 DEF SumsUp
    <3>2. n \in 1..Len(s)  BY <1>2, <3>1 DEF LastOf
    <3>. QED  BY <1>1, <1>3, <2>5, <3>1, <3>2
  <2>. QED
    BY <2>3, <2>5, <2>7, <2>9, <2>10, <2>11, <2>12, <2>13 DEF SumsUp
<1>8. ASSUME NEW n \in 1..L
      PROVE  \E c \in PutPrice(table, b, p) : c.time = Bucket(i, more[n].time)
  <2>1. new.time = b
    BY <1>6, <1>7 DEF CandleOf, NewCandle, Updated, At, Candle, TableSumsUp, SumsUp
  <2>2. new \in PutPrice(table, b, p) /\ \A c \in table : c.time # b => c \in PutPrice(table, b, p)
    BY DEF PutPrice, At
  <2>. HIDE DEF new
  <2>3. CASE n = L \/ Bucket(i, more[n].time) = b  BY <1>1, <2>1, <2>2, <2>3
  <2>4. CASE n \in 1..Len(s) /\ Bucket(i, more[n].time) # b
    <3>1. \E c \in table : c.time = Bucket(i, s[n].time)  BY <2>4 DEF TableSumsUp
    <3>. QED  BY <1>1, <2>2, <2>4, <3>1
  <2>. QED  BY <2>3, <2>4
<1>9. ASSUME NEW c \in PutPrice(table, b, p) PROVE SumsUp(c, i, more)
  <2>1. c = new \/ (c \in table /\ c.time # b)
    BY DEF PutPrice, At
  <2>. HIDE DEF new
  <2>. QED  BY <1>5, <1>6, <1>7, <2>1
<1>10. TableSumsUp(PutPrice(table, b, p), i, more)
  BY <1>1, <1>8, <1>9 DEF TableSumsUp
<1>. QED  BY <1>1, <1>10 DEF more, b

-----------------------------------------------------------------------------
(* The handler *)

CandlesSumUp ==
  \A i \in Intervals : InTime(taken[i], now.time) /\ TableSumsUp(candles[i], i, taken[i])

(* The event being handled is numbered from 1, and a creation is one of    *)
(* the creations.                                                          *)
InHand ==
  /\ todo # <<>> => now.id # 0
  /\ now.kind = "create" => <<now.slot, now.account>> \in Creations

HandlerInv == HandlerTypeOK /\ InHand /\ CandlesSumUp

(* The tasks, and what may be left of a list of them. *)
Item == ({"put", "push"} \X Intervals) \cup ({"store", "announce"} \X {"batch", "event"})
Long == Puts \o Stores \o Pushes
Rests(w) == {SubSeq(w, n, Len(w)) : n \in 1..Len(w) + 1}

LEMMA Joined ==
  ASSUME NEW S, NEW s \in Seq(S), NEW t \in Seq(S)
  PROVE  /\ s \o t \in Seq(S) /\ Len(s \o t) = Len(s) + Len(t)
         /\ \A n \in 1..Len(s) : (s \o t)[n] = s[n]
         /\ \A n \in 1..Len(t) : (s \o t)[Len(s) + n] = t[n]
OBVIOUS

LEMMA WithoutFirst ==
  ASSUME NEW S, NEW s \in Seq(S), NEW t \in Seq(S), NEW u \in Seq(S)
  PROVE  /\ t \o u \in Seq(S)
         /\ SubSeq(s \o t \o u, Len(s) + 1, Len(s \o t \o u)) = t \o u
         /\ Len(s) + 1 \in 1..Len(s \o t \o u) + 1
<1>. DEFINE st == s \o t   stu == st \o u   tu == t \o u
            k == Len(s)   l == Len(t)   m == Len(u)
            r == SubSeq(stu, k + 1, k + (l + m))
<1>1. /\ st \in Seq(S) /\ Len(st) = k + l /\ \A n \in 1..l : st[k + n] = t[n]
      /\ stu \in Seq(S) /\ Len(stu) = Len(st) + m
      /\ \A n \in 1..Len(st) : stu[n] = st[n]
      /\ \A n \in 1..m : stu[Len(st) + n] = u[n]
      /\ tu \in Seq(S) /\ Len(tu) = l + m
      /\ \A n \in 1..l : tu[n] = t[n]
      /\ \A n \in 1..m : tu[l + n] = u[n]
      /\ k \in Nat /\ l \in Nat /\ m \in Nat
  BY Joined, LenProperties
<1>. HIDE DEF st, stu, tu, k, l, m
<1>2. Len(stu) = k + (l + m) /\ k + 1 \in 1..Len(stu) + 1
  BY <1>1
<1>3. r \in Seq(S) /\ Len(r) = l + m /\ \A n \in 1..l + m : r[n] = stu[k + n]
  BY <1>1, <1>2
<1>. HIDE DEF r
<1>4. ASSUME NEW n \in 1..l + m PROVE stu[k + n] = tu[n]
  <2>1. CASE n \in 1..l
    <3>1. k + n \in 1..Len(st)  BY <1>1, <2>1
    <3>. QED  BY <1>1, <2>1, <3>1
  <2>2. CASE n \in l + 1..l + m
    <3>1. PICK j \in 1..m : n = l + j /\ k + n = Len(st) + j
      <4>1. n - l \in 1..m /\ n = l + (n - l) /\ k + n = Len(st) + (n - l)  BY <1>1, <2>2
      <4>. QED  BY <4>1
    <3>. QED  BY <1>1, <3>1
  <2>. QED  BY <1>1, <2>1, <2>2
<1>5. r = tu
  BY <1>1, <1>3, <1>4, SeqEqual
<1>. QED  BY <1>1, <1>2, <1>5 DEF r, st, stu, tu, k, l, m

LEMMA Items ==
  ASSUME NEW S, NEW n \in Nat, NEW f \in [1..n -> S]
  PROVE  f \in Seq(S) /\ Len(f) = n
OBVIOUS

LEMMA WorkIs ==
  /\ Stores \in Seq(Item) /\ Len(Stores) \in Nat
  /\ Long \in Seq(Item) /\ Len(Long) \in Nat
  /\ Stores \o Pushes \in Rests(Long)
<1>1. \A n \in 1..3 : Order[n] \in Intervals
  <2>1. Order[1] = "s1" /\ Order[2] = "s30" /\ Order[3] = "m5"  BY DEF Order
  <2>. QED  BY <2>1 DEF Intervals
<1>2. Puts \in Seq(Item) /\ Pushes \in Seq(Item)
  <2>1. \A n \in 1..3 : <<"put", Order[n]>> \in Item /\ <<"push", Order[n]>> \in Item
    BY <1>1 DEF Item
  <2>2. Puts \in [1..3 -> Item] /\ Pushes \in [1..3 -> Item]
    BY <2>1 DEF Puts, Pushes
  <2>3. 3 \in Nat  OBVIOUS
  <2>. QED  BY <2>2, <2>3, Items, Zenon
<1>3. Stores \in Seq(Item)
  <2>1. <<"store", "batch">> \in Item /\ <<"announce", "event">> \in Item
    BY DEF Item
  <2>. QED  BY <2>1 DEF Stores
<1>4. Long \in Seq(Item)
  BY <1>2, <1>3, Joined, Zenon DEF Long
<1>5. Stores \o Pushes \in Rests(Long)
  <2>1. PICK a \in Seq(Item), b \in Seq(Item), c \in Seq(Item) : a = Puts /\ b = Stores /\ c = Pushes
    BY <1>2, <1>3
  <2>2. /\ b \o c \in Seq(Item)
        /\ SubSeq(a \o b \o c, Len(a) + 1, Len(a \o b \o c)) = b \o c
        /\ Len(a) + 1 \in 1..Len(a \o b \o c) + 1
    BY WithoutFirst, Zenon
  <2>3. Long = a \o b \o c  BY <2>1 DEF Long
  <2>. QED  BY <2>1, <2>2, <2>3 DEF Rests
<1>. QED  BY <1>3, <1>4, <1>5, LenProperties

(* The rest of a sequence: its head and its tail.                          *)
LEMMA RestIs ==
  ASSUME NEW S, NEW w \in Seq(S), NEW n \in 1..Len(w) + 1, NEW r, r = SubSeq(w, n, Len(w))
  PROVE  /\ r \in Seq(S) /\ Len(r) = Len(w) - n + 1
         /\ \A k \in 1..Len(r) : r[k] = w[n + k - 1]
         /\ r = <<>> <=> n = Len(w) + 1
         /\ r # <<>> => Head(r) = w[n] /\ Tail(r) = SubSeq(w, n + 1, Len(w))
<1>1. /\ r \in Seq(S) /\ Len(r) = Len(w) - n + 1
      /\ \A k \in 1..Len(r) : r[k] = w[n + k - 1]
  OBVIOUS
<1>2. r = <<>> <=> n = Len(w) + 1
  <2>1. r = <<>> <=> Len(r) = 0  BY <1>1, EmptySeq
  <2>2. Len(w) \in Nat  OBVIOUS
  <2>. QED  BY <1>1, <2>1, <2>2
<1>3. ASSUME r # <<>> PROVE Head(r) = w[n] /\ Tail(r) = SubSeq(w, n + 1, Len(w))
  <2>1. n \in 1..Len(w)  BY <1>2, <1>3
  <2>2. Head(r) = w[n]  BY <1>1, <2>1
  <2>3. /\ Tail(r) \in Seq(S) /\ Len(Tail(r)) = Len(w) - n
        /\ \A k \in 1..Len(w) - n : Tail(r)[k] = w[n + k]
    BY <1>1, <1>3, <2>1
  <2>4. /\ SubSeq(w, n + 1, Len(w)) \in Seq(S) /\ Len(SubSeq(w, n + 1, Len(w))) = Len(w) - n
        /\ \A k \in 1..Len(w) - n : SubSeq(w, n + 1, Len(w))[k] = w[n + k]
    BY <2>1
  <2>5. Tail(r) = SubSeq(w, n + 1, Len(w))  BY <2>3, <2>4, SeqEqual
  <2>. QED  BY <2>2, <2>5
<1>. QED  BY <1>1, <1>2, <1>3

(* What is left to do is a rest of the work, and its head says what.       *)
LEMMA RestsAre ==
  ASSUME NEW w \in Seq(Item), NEW r \in Rests(w)
  PROVE  /\ r \in Seq(Item)
         /\ r # <<>> => /\ Tail(r) \in Rests(w)
                        /\ Head(r)[1] \in {"put", "push"} => Head(r)[2] \in Intervals
<1>1. PICK n \in 1..Len(w) + 1 : r = SubSeq(w, n, Len(w))
  BY DEF Rests
<1>2. /\ r \in Seq(Item) /\ (r = <<>> <=> n = Len(w) + 1)
      /\ r # <<>> => Tail(r) = SubSeq(w, n + 1, Len(w))
  BY <1>1, RestIs
<1>3. ASSUME r # <<>>
      PROVE  Tail(r) \in Rests(w) /\ (Head(r)[1] \in {"put", "push"} => Head(r)[2] \in Intervals)
  <2>1. Head(r) \in Item  BY <1>2, <1>3, HeadTailProperties
  <2>2. Head(r)[1] \in {"put", "push"} => Head(r)[2] \in Intervals  BY <2>1 DEF Item
  <2>3. n + 1 \in 1..Len(w) + 1  BY <1>2, <1>3
  <2>4. Tail(r) \in Rests(w)  BY <1>2, <1>3, <2>3 DEF Rests
  <2>. QED  BY <2>2, <2>4
<1>. QED  BY <1>2, <1>3

LEMMA FirstTimeIs == FirstTime \in Times
<1>1. \E m \in Times : \A n \in Times : m <= n
  BY HandlerAssumption, LeastElement
<1>. QED  BY <1>1 DEF FirstTime

(* A new event is taken; its work is still to be done. *)
LEMMA HandleKeeps ==
  ASSUME HandlerInv, NEW t \in Times, NEW e, Handle(e, t),
         e.kind \in Kinds, e.slot \in Nat, e.price \in Nat, e.account \in Nat,
         e.order \in {<<>>} \cup (Nat \X Nat),
         e = [kind |-> e.kind, id |-> e.id, slot |-> e.slot, price |-> e.price, time |-> e.time,
              account |-> e.account, order |-> e.order],
         e.kind = "create" => <<e.slot, e.account>> \in Creations
  PROVE  HandlerInv'
<1>. USE DEF tables
<1>1. /\ now \in Event /\ now.id \in 0..MaxEvents /\ now.id < MaxEvents /\ now.time <= t
      /\ now.time \in Nat /\ t \in Nat
  BY HandlerAssumption DEF HandlerInv, HandlerTypeOK, Event, Handle
<1>2. now' = [kind |-> e.kind, id |-> now.id + 1, slot |-> e.slot, price |-> e.price, time |-> t,
              account |-> e.account, order |-> e.order]
  BY DEF Handle
<1>3. now' \in Event /\ now.id + 1 # 0
  BY <1>1, <1>2, HandlerAssumption DEF Event
<1>4. \E w \in {Long, Stores} : todo' \in Rests(w)
  <2>1. todo' \in {Long, Stores}  BY DEF Handle, Work, Long
  <2>2. ASSUME NEW w \in {Long, Stores} PROVE w \in Rests(w)
    <3>1. w \in Seq(Item)  BY WorkIs
    <3>2. w = SubSeq(w, 1, Len(w)) /\ 1 \in 1..Len(w) + 1
      BY <3>1
    <3>. QED  BY <3>2 DEF Rests
  <2>. QED  BY <2>1, <2>2
<1>5. HandlerTypeOK'
  BY <1>3, <1>4 DEF HandlerInv, HandlerTypeOK, Handle, Rests, Long
<1>6. InHand'
  BY <1>1, <1>2, <1>3 DEF InHand
<1>7. ASSUME NEW i \in Intervals PROVE InTime(taken[i], now'.time)
  <2>1. taken[i] \in Seq(Price) /\ InTime(taken[i], now.time)
    BY DEF HandlerInv, HandlerTypeOK, CandlesSumUp, Price
  <2>2. \A n \in 1..Len(taken[i]) : taken[i][n].time \in Nat
    <3>1. \A n \in 1..Len(taken[i]) : taken[i][n] \in Price  BY <2>1
    <3>. QED  BY <3>1, HandlerAssumption DEF Price
  <2>3. now'.time = t  BY <1>2
  <2>. QED  BY <1>1, <2>1, <2>2, <2>3 DEF InTime
<1>8. CandlesSumUp'
  BY <1>7 DEF HandlerInv, CandlesSumUp, Handle
<1>. QED  BY <1>5, <1>6, <1>8 DEF HandlerInv

(* A task is done; the rest is left. *)
LEMMA NextTask ==
  ASSUME HandlerTypeOK, todo # <<>>
  PROVE  /\ \E w \in {Long, Stores} : Tail(todo) \in Rests(w)
         /\ Head(todo)[1] \in {"put", "push"} => Head(todo)[2] \in Intervals
<1>1. PICK w \in {Long, Stores} : todo \in Rests(w)
  BY DEF HandlerTypeOK, Rests, Long
<1>2. w \in Seq(Item)
  BY WorkIs
<1>. QED  BY <1>1, <1>2, RestsAre

LEMMA PutKeeps ==
  ASSUME HandlerInv, Put
  PROVE  HandlerInv'
<1>. DEFINE i == Head(todo)[2]
<1>1. todo # <<>> /\ todo' = Tail(todo) /\ i \in Intervals /\ (\E w \in {Long, Stores} : Tail(todo) \in Rests(w))
  BY NextTask DEF Put, Next1, HandlerInv
<1>2. /\ candles' = [candles EXCEPT ![i] = PutPrice(@, Bucket(i, now.time), now.price)]
      /\ taken' = [taken EXCEPT ![i] = Append(@, [price |-> now.price, time |-> now.time])]
      /\ UNCHANGED <<now, trades, markers, orders, faults>>
  BY DEF Put
<1>3. /\ now \in Event /\ now.price \in Nat /\ now.time \in Times
      /\ taken \in [Intervals -> Seq(Price)] /\ candles \in [Intervals -> SUBSET Candle]
  BY DEF HandlerInv, HandlerTypeOK, Event, Price
<1>. DEFINE more == Append(taken[i], [price |-> now.price, time |-> now.time])
            table == PutPrice(candles[i], Bucket(i, now.time), now.price)
<1>4. more \in Seq(Price) /\ InTime(more, now.time) /\ TableSumsUp(table, i, more)
  <2>1. taken[i] \in Seq(Price) /\ InTime(taken[i], now.time) /\ TableSumsUp(candles[i], i, taken[i])
    BY <1>1, <1>3 DEF HandlerInv, CandlesSumUp
  <2>. QED  BY <1>1, <1>3, <2>1, PutSumsUp
<1>5. \A c \in table : c \in Candle
  BY <1>4 DEF TableSumsUp, SumsUp
<1>. HIDE DEF more, table, i
<1>6. taken' = [taken EXCEPT ![i] = more] /\ candles' = [candles EXCEPT ![i] = table]
  BY <1>2 DEF more, table, i
<1>7. /\ taken' \in [Intervals -> Seq(Price)] /\ candles' \in [Intervals -> SUBSET Candle]
      /\ \A j \in Intervals : /\ taken'[j] = IF j = i THEN more ELSE taken[j]
                             /\ candles'[j] = IF j = i THEN table ELSE candles[j]
  BY <1>1, <1>3, <1>4, <1>5, <1>6
<1>8. CandlesSumUp'
  BY <1>2, <1>4, <1>7 DEF HandlerInv, CandlesSumUp
<1>9. HandlerTypeOK'
  BY <1>1, <1>2, <1>7 DEF HandlerInv, HandlerTypeOK, Rests, Long, Price
<1>10. InHand'
  BY <1>1, <1>2 DEF HandlerInv, InHand
<1>. QED  BY <1>8, <1>9, <1>10 DEF HandlerInv

LEMMA HandlerStep ==
  ASSUME HandlerInv, Write \/ Announce \/ Push \/ UNCHANGED handlerVars
  PROVE  HandlerInv'
<1>. USE DEF handlerVars, tables
<1>1. /\ now \in Event /\ now.id \in 0..MaxEvents /\ now.slot \in Nat /\ now.price \in Nat
      /\ now.time \in Times
      /\ orders \subseteq Nat \X (1..MaxEvents) /\ MaxEvents \in Nat /\ MaxFaults \in Nat
      /\ faults \in 0..MaxFaults
  BY HandlerAssumption DEF HandlerInv, HandlerTypeOK, Event
<1>2. ASSUME UNCHANGED <<now, candles, taken>>, HandlerTypeOK', todo # <<>> \/ todo' = <<>> \/ UNCHANGED todo
      PROVE  HandlerInv'
  BY <1>2 DEF HandlerInv, CandlesSumUp, InHand
<1>13. /\ NoEvent.slot = 0 /\ NoEvent.price = 0 /\ NoEvent.account = 0 /\ NoEvent.order = <<>>
       /\ NoEvent = [kind |-> NoEvent.kind, id |-> NoEvent.id, slot |-> NoEvent.slot,
                      price |-> NoEvent.price, time |-> NoEvent.time,
                      account |-> NoEvent.account, order |-> NoEvent.order]
  BY DEF NoEvent
<1>3. ASSUME NEW x \in Trades, OpenOrder(x) PROVE HandlerInv'
  <2>1. x[1] \in Nat /\ x[2] \in Nat  BY HandlerAssumption
  <2>0. PICK e : e = [NoEvent EXCEPT !.kind = "open", !.slot = x[1], !.price = x[2]]
    OBVIOUS
  <2>2. /\ e.kind = "open" /\ e.slot = x[1] /\ e.price = x[2] /\ e.account = 0 /\ e.order = <<>>
        /\ e = [kind |-> e.kind, id |-> e.id, slot |-> e.slot, price |-> e.price, time |-> e.time,
                account |-> e.account, order |-> e.order]
    BY <1>13, <2>0
  <2>3. Handle(e, now.time)  BY <1>3, <2>0 DEF OpenOrder
  <2>4. /\ e.kind \in Kinds /\ e.kind # "create" /\ e.slot \in Nat /\ e.price \in Nat
        /\ e.account \in Nat /\ e.order \in {<<>>} \cup (Nat \X Nat)
    BY <1>1, <2>1, <2>2 DEF Kinds
  <2>. QED  BY <1>1, <2>2, <2>3, <2>4, HandleKeeps
<1>4. ASSUME NEW x \in Trades, NEW t \in Times, Swap(x, t) PROVE HandlerInv'
  <2>1. x[1] \in Nat /\ x[2] \in Nat  BY HandlerAssumption
  <2>0. PICK e : e = [NoEvent EXCEPT !.kind = "swap", !.slot = x[1], !.price = x[2]]
    OBVIOUS
  <2>2. /\ e.kind = "swap" /\ e.slot = x[1] /\ e.price = x[2] /\ e.account = 0 /\ e.order = <<>>
        /\ e = [kind |-> e.kind, id |-> e.id, slot |-> e.slot, price |-> e.price, time |-> e.time,
                account |-> e.account, order |-> e.order]
    BY <1>13, <2>0
  <2>3. Handle(e, t)  BY <1>4, <2>0 DEF Swap
  <2>4. /\ e.kind \in Kinds /\ e.kind # "create" /\ e.slot \in Nat /\ e.price \in Nat
        /\ e.account \in Nat /\ e.order \in {<<>>} \cup (Nat \X Nat)
    BY <1>1, <2>1, <2>2 DEF Kinds
  <2>. QED  BY <1>1, <2>2, <2>3, <2>4, HandleKeeps
<1>5. ASSUME NEW o \in orders, CloseOrder(o) PROVE HandlerInv'
  <2>1. o \in Nat \X Nat  BY <1>1
  <2>0. PICK e : e = [NoEvent EXCEPT !.kind = "close", !.slot = now.slot, !.order = o]
    OBVIOUS
  <2>2. /\ e.kind = "close" /\ e.slot = now.slot /\ e.price = 0 /\ e.account = 0 /\ e.order = o
        /\ e = [kind |-> e.kind, id |-> e.id, slot |-> e.slot, price |-> e.price, time |-> e.time,
                account |-> e.account, order |-> e.order]
    BY <1>13, <2>0
  <2>3. Handle(e, now.time)  BY <1>5, <2>0 DEF CloseOrder
  <2>4. /\ e.kind \in Kinds /\ e.kind # "create" /\ e.slot \in Nat /\ e.price \in Nat
        /\ e.account \in Nat /\ e.order \in {<<>>} \cup (Nat \X Nat)
    BY <1>1, <2>1, <2>2 DEF Kinds
  <2>. QED  BY <1>1, <2>2, <2>3, <2>4, HandleKeeps
<1>6. ASSUME NEW x \in Creations, CreateMint(x) PROVE HandlerInv'
  <2>1. x[1] \in Nat /\ x[2] \in Nat /\ <<x[1], x[2]>> \in Creations  BY HandlerAssumption
  <2>0. PICK e : e = [NoEvent EXCEPT !.kind = "create", !.slot = x[1], !.account = x[2]]
    OBVIOUS
  <2>2. /\ e.kind = "create" /\ e.slot = x[1] /\ e.price = 0 /\ e.account = x[2] /\ e.order = <<>>
        /\ e = [kind |-> e.kind, id |-> e.id, slot |-> e.slot, price |-> e.price, time |-> e.time,
                account |-> e.account, order |-> e.order]
    BY <1>13, <2>0
  <2>3. Handle(e, now.time)  BY <1>6, <2>0 DEF CreateMint
  <2>. QED  BY <1>1, <2>1, <2>2, <2>3, HandleKeeps DEF Kinds
<1>7. CASE Put  BY <1>7, PutKeeps
<1>8. CASE PutFails
  <2>1. \E w \in {Long, Stores} : todo' \in Rests(w)  BY <1>8, WorkIs DEF PutFails
  <2>2. faults' \in 0..MaxFaults  BY <1>1, <1>8 DEF PutFails, Fault
  <2>3. HandlerTypeOK'  BY <1>8, <2>1, <2>2 DEF PutFails, HandlerInv, HandlerTypeOK, Rests, Long
  <2>. QED  BY <1>2, <1>8, <2>3 DEF PutFails
<1>9. CASE Store
  <2>1. todo # <<>> /\ \E w \in {Long, Stores} : todo' \in Rests(w)
    BY <1>9, NextTask DEF Store, Next1, HandlerInv
  <2>2. now.id \in 1..MaxEvents  BY <1>1, <2>1 DEF HandlerInv, InHand
  <2>3. trades' \subseteq Nat \X (1..MaxEvents)
    BY <1>1, <1>9, <2>2 DEF Store, Row, HandlerInv, HandlerTypeOK
  <2>4. markers' \subseteq Creations
    BY <1>9 DEF Store, HandlerInv, HandlerTypeOK, InHand
  <2>5. orders' \subseteq Nat \X (1..MaxEvents)
    BY <1>1, <1>9, <2>2 DEF Store
  <2>6. HandlerTypeOK'
    BY <1>9, <2>1, <2>3, <2>4, <2>5 DEF Store, HandlerInv, HandlerTypeOK, Rests, Long
  <2>. QED  BY <1>2, <1>9, <2>1, <2>6 DEF Store
<1>10. CASE StoreFails
  <2>1. todo # <<>> /\ \E w \in {Long, Stores} : todo' \in Rests(w)
    BY <1>10, NextTask DEF StoreFails, Next1, HandlerInv
  <2>2. faults' \in 0..MaxFaults  BY <1>1, <1>10 DEF StoreFails, Fault
  <2>3. HandlerTypeOK'  BY <1>10, <2>1, <2>2 DEF StoreFails, HandlerInv, HandlerTypeOK, Rests, Long
  <2>. QED  BY <1>2, <1>10, <2>1, <2>3 DEF StoreFails
<1>11. CASE Announce \/ Push
  <2>1. todo # <<>> /\ \E w \in {Long, Stores} : todo' \in Rests(w)
    BY <1>11, NextTask DEF Announce, Push, Next1, HandlerInv
  <2>2. HandlerTypeOK'
    BY <1>11, <2>1 DEF Announce, Push, HandlerInv, HandlerTypeOK, Rests, Long
  <2>. QED  BY <1>2, <1>11, <2>1, <2>2 DEF Announce, Push
<1>12. CASE UNCHANGED handlerVars
  <2>1. HandlerTypeOK'  BY <1>12 DEF HandlerInv, HandlerTypeOK
  <2>. QED  BY <1>2, <1>12, <2>1
<1>. QED  BY <1>3, <1>4, <1>5, <1>6, <1>7, <1>8, <1>9, <1>10, <1>11, <1>12 DEF Write

LEMMA HandlerStarts == ASSUME HandlerInit PROVE HandlerInv
<1>1. NoEvent \in Event
  BY FirstTimeIs, HandlerAssumption DEF NoEvent, Event
<1>2. \E w \in {Long, Stores} : todo \in Rests(w)
  <2>1. Len(Stores) \in Nat /\ Stores \in Seq(Item)  BY WorkIs
  <2>2. SubSeq(Stores, Len(Stores) + 1, Len(Stores)) = <<>> /\ Len(Stores) + 1 \in 1..Len(Stores) + 1
    BY <2>1
  <2>. QED  BY <2>2 DEF HandlerInit, Rests
<1>3. HandlerTypeOK
  BY <1>1, <1>2, HandlerAssumption DEF HandlerInit, HandlerTypeOK, Rests, Long
<1>4. CandlesSumUp
  BY DEF HandlerInit, CandlesSumUp, InTime, TableSumsUp
<1>5. InHand
  BY DEF HandlerInit, InHand, NoEvent
<1>. QED  BY <1>3, <1>4, <1>5 DEF HandlerInv

LEMMA HandlerActs ==
  ASSUME [Next]_vars
  PROVE  Write \/ Announce \/ Push \/ UNCHANGED handlerVars
BY DEF Next, vars, WriteAside, AnnounceToRoom, PushToRoom, Subscribe, SubStep, Join, ReadCandles,
       SendCandles, ReadEvents, SendEvents, Confirm, WalkEvents, WalkOrders, WalkMints,
       StartWalk, NextPage

LEMMA HandlerAlways == Spec => []HandlerInv
<1>1. Init => HandlerInv
  BY HandlerStarts DEF Init
<1>2. HandlerInv /\ [Next]_vars => HandlerInv'
  BY HandlerActs, HandlerStep
<1>. QED  BY <1>1, <1>2, PTL DEF Spec

(* Each candle is what the whole history of prices says of its bucket: the *)
(* code computes it one price at a time, from what the table holds.        *)
THEOREM CandlesAreExact == Spec => []CandlesMatchPrices
<1>1. HandlerInv => CandlesMatchPrices
  <2>. SUFFICES ASSUME HandlerInv, NEW i \in Intervals
                PROVE  candles[i] = {Expected(i, Bucket(i, taken[i][n].time)) : n \in 1..Len(taken[i])}
    BY DEF CandlesMatchPrices
  <2>1. taken[i] \in Seq(Price) /\ TableSumsUp(candles[i], i, taken[i])
    BY DEF HandlerInv, HandlerTypeOK, CandlesSumUp, Price
  <2>2. \A c \in candles[i] : c = Expected(i, c.time)
    BY <2>1, SummaryIsExpected DEF TableSumsUp
  <2>3. \A c \in candles[i] : \E n \in 1..Len(taken[i]) : c.time = Bucket(i, taken[i][n].time)
    BY <2>1 DEF TableSumsUp, SumsUp, LastOf, Inside
  <2>4. \A n \in 1..Len(taken[i]) : \E c \in candles[i] : c.time = Bucket(i, taken[i][n].time)
    BY <2>1 DEF TableSumsUp
  <2>. QED  BY <2>2, <2>3, <2>4
<1>. QED  BY <1>1, HandlerAlways, PTL

-----------------------------------------------------------------------------
(* Listings: rows in an order *)

IsOrder(S, order) ==
  /\ IsFiniteSet(S)
  /\ \A x \in S : <<x, x>> \notin order
  /\ \A x, y \in S : x # y => <<x, y>> \in order \/ <<y, x>> \in order
  /\ \A x, y, z \in S : <<x, y>> \in order /\ <<y, z>> \in order => <<x, z>> \in order

Rank(S, r, order) == Cardinality(Preceding(S, r, order))

LEMMA RanksAre ==
  ASSUME NEW S, NEW order, IsOrder(S, order), NEW x \in S
  PROVE  /\ Cardinality(S) \in Nat /\ Rank(S, x, order) \in Nat
         /\ Rank(S, x, order) < Cardinality(S)
         /\ \A y \in S : <<x, y>> \in order => Rank(S, x, order) < Rank(S, y, order)
<1>. DEFINE P(y) == Preceding(S, y, order)
<1>1. IsFiniteSet(S) /\ Cardinality(S) \in Nat
  BY FS_CardinalityType DEF IsOrder
<1>2. \A y \in S : IsFiniteSet(P(y)) /\ Cardinality(P(y)) \in Nat
  BY <1>1, FS_Subset, FS_CardinalityType DEF Preceding
<1>3. x \notin P(x) /\ P(x) \cup {x} \subseteq S
  BY DEF IsOrder, Preceding
<1>4. IsFiniteSet(P(x) \cup {x}) /\ Cardinality(P(x) \cup {x}) = Cardinality(P(x)) + 1
  <2>. HIDE DEF P
  <2>. QED  BY <1>2, <1>3, FS_AddElement
<1>5. Cardinality(P(x)) + 1 <= Cardinality(S)
  BY <1>1, <1>3, <1>4, FS_Subset
<1>6. ASSUME NEW y \in S, <<x, y>> \in order PROVE Cardinality(P(x)) < Cardinality(P(y))
  <2>1. P(x) \cup {x} \subseteq P(y)  BY <1>6 DEF IsOrder, Preceding
  <2>2. Cardinality(P(x)) + 1 <= Cardinality(P(y))  BY <1>2, <1>4, <2>1, FS_Subset
  <2>. QED  BY <1>2, <2>2
<1>. QED  BY <1>1, <1>2, <1>5, <1>6 DEF Rank

(* Every row is listed once, after the rows that precede it.               *)
LEMMA ListedOnce ==
  ASSUME NEW S, NEW order, IsOrder(S, order)
  PROVE  /\ InOrder(S, order) \in Seq(S) /\ Len(InOrder(S, order)) = Cardinality(S)
         /\ \A i \in 1..Cardinality(S) : InOrder(S, order)[i] \in S
                                       /\ Rank(S, InOrder(S, order)[i], order) = i - 1
         /\ \A x \in S : Rank(S, x, order) + 1 \in 1..Cardinality(S)
                       /\ InOrder(S, order)[Rank(S, x, order) + 1] = x
<1>. DEFINE n == Cardinality(S)
            f == [x \in S |-> Rank(S, x, order) + 1]
            s == InOrder(S, order)
<1>1. IsFiniteSet(S) /\ n \in Nat
  BY FS_CardinalityType DEF IsOrder
<1>2. \A x \in S : Rank(S, x, order) \in Nat /\ Rank(S, x, order) + 1 \in 1..n
  BY <1>1, RanksAre
<1>3. \A x, y \in S : Rank(S, x, order) = Rank(S, y, order) => x = y
  <2>1. \A x, y \in S : <<x, y>> \in order => Rank(S, x, order) < Rank(S, y, order)
    BY RanksAre
  <2>2. ASSUME NEW x \in S, NEW y \in S, x # y PROVE Rank(S, x, order) # Rank(S, y, order)
    <3>1. <<x, y>> \in order \/ <<y, x>> \in order  BY <2>2 DEF IsOrder
    <3>2. Rank(S, x, order) \in Nat /\ Rank(S, y, order) \in Nat  BY <1>2
    <3>3. Rank(S, x, order) < Rank(S, y, order) \/ Rank(S, y, order) < Rank(S, x, order)
      BY <2>1, <3>1
    <3>. QED  BY <3>2, <3>3
  <2>. QED  BY <2>2
<1>4. f \in Injection(S, 1..n)
  <2>1. f \in [S -> 1..n] /\ \A a, b \in S : f[a] = f[b] => a = b
    BY <1>2, <1>3
  <2>. QED  BY <2>1, Fun_IsInj
<1>5. \A i \in 1..n : \E x \in S : Rank(S, x, order) = i - 1
  <2>1. IsFiniteSet(1..n) /\ Cardinality(1..n) = n
    BY <1>1, FS_Interval
  <2>2. f \in Surjection(S, 1..n)
    <3>. HIDE DEF f
    <3>. QED  BY <1>4, <2>1, FS_Injection
  <2>3. \A i \in 1..n : \E x \in S : f[x] = i
    <3>. HIDE DEF f
    <3>. QED  BY <2>2, Fun_SurjectionProperties
  <2>. QED  BY <1>2, <2>3
<1>6. \A i \in 1..n : s[i] \in S /\ Rank(S, s[i], order) = i - 1
  BY <1>5 DEF InOrder, Rank
<1>7. s \in [1..n -> S]
  BY <1>6 DEF InOrder
<1>. HIDE DEF s, n
<1>8. s \in Seq(S) /\ Len(s) = n
  BY <1>1, <1>7, Items
<1>9. ASSUME NEW x \in S PROVE s[Rank(S, x, order) + 1] = x
  BY <1>2, <1>3, <1>6
<1>. QED  BY <1>2, <1>6, <1>8, <1>9 DEF s, n

(* Rows that can be sorted: two that agree on the value have keys that do  *)
(* not.                                                                    *)
Sortable(S) ==
  /\ IsFiniteSet(S)
  /\ \A p \in S : p[1] \in Nat
  /\ \A p, q \in S : p # q /\ p[1] = q[1] => p[2] \in Nat /\ q[2] \in Nat /\ p[2] # q[2]

LEMMA ByValueIsOrder ==
  ASSUME NEW S, Sortable(S), NEW desc \in BOOLEAN
  PROVE  IsOrder(S, ByValue(S, desc))
<1>. DEFINE V(x, y) == IF desc THEN y[1] < x[1] ELSE x[1] < y[1]
            W(x, y) == V(x, y) \/ (x[1] = y[1] /\ x[2] < y[2])
<1>1. \A x, y \in S : <<x, y>> \in ByValue(S, desc) <=> x # y /\ W(x, y)
  BY DEF ByValue
<1>2. ASSUME NEW x \in S, NEW y \in S, x # y PROVE W(x, y) \/ W(y, x)
  BY <1>2 DEF Sortable
<1>3. ASSUME NEW x \in S, NEW y \in S, NEW z \in S, x # y, y # z, W(x, y), W(y, z)
      PROVE  x # z /\ W(x, z)
  <2>1. x[1] \in Nat /\ y[1] \in Nat /\ z[1] \in Nat  BY DEF Sortable
  <2>2. x[1] = y[1] => x[2] \in Nat /\ y[2] \in Nat  BY <1>3 DEF Sortable
  <2>3. y[1] = z[1] => y[2] \in Nat /\ z[2] \in Nat  BY <1>3 DEF Sortable
  <2>. QED  BY <1>3, <2>1, <2>2, <2>3
<1>. HIDE DEF W
<1>. QED  BY <1>1, <1>2, <1>3 DEF IsOrder, Sortable

LEMMA Prefix ==
  ASSUME NEW S, NEW s \in Seq(S), NEW k \in 0..Len(s)
  PROVE  /\ SubSeq(s, 1, k) \in Seq(S) /\ Len(SubSeq(s, 1, k)) = k
         /\ \A i \in 1..k : SubSeq(s, 1, k)[i] = s[i]
OBVIOUS

(* The first page: the rows that fewer than limit others precede.          *)
LEMMA FirstRowsAre ==
  ASSUME NEW S, Sortable(S), NEW limit \in Nat
  PROVE  FirstRows(S, limit) = {x \in S : Rank(S, x, ByValue(S, TRUE)) < limit}
<1>. DEFINE order == ByValue(S, TRUE)
            all == InOrder(S, order)
            n == Cardinality(S)
            last == IF limit < n THEN limit ELSE n
<1>1. IsOrder(S, order) /\ n \in Nat
  BY ByValueIsOrder, FS_CardinalityType DEF Sortable
<1>2. /\ all \in Seq(S) /\ Len(all) = n
      /\ \A i \in 1..n : all[i] \in S /\ Rank(S, all[i], order) = i - 1
      /\ \A x \in S : Rank(S, x, order) + 1 \in 1..n /\ all[Rank(S, x, order) + 1] = x
  BY <1>1, ListedOnce
<1>3. FirstRows(S, limit) = ToSet(SubSeq(all, 1, last))
  <2>1. (1 - 1) * limit = 0 /\ 0 + 1 = 1 /\ 0 + limit = limit  OBVIOUS
  <2>2. FirstRows(S, limit)
        = ToSet(SubSeq(all, (1 - 1) * limit + 1,
                       IF (1 - 1) * limit + limit < Len(all) THEN (1 - 1) * limit + limit ELSE Len(all)))
    BY DEF FirstRows, PageOf, Sorted
  <2>. HIDE DEF all, n
  <2>. QED  BY <1>2, <2>1, <2>2
<1>. HIDE DEF all, order, n
<1>4. last \in 0..n /\ \A i \in Nat : i \in 1..last <=> i \in 1..n /\ i <= limit
  BY <1>1
<1>. HIDE DEF last
<1>5. Len(SubSeq(all, 1, last)) = last /\ \A i \in 1..last : SubSeq(all, 1, last)[i] = all[i]
      /\ SubSeq(all, 1, last) \in Seq(S)
  BY <1>2, <1>4, Prefix
<1>6. FirstRows(S, limit) = {all[i] : i \in 1..last}
  <2>. DEFINE t == SubSeq(all, 1, last)
  <2>1. DOMAIN t = 1..last /\ FirstRows(S, limit) = {t[i] : i \in DOMAIN t}
    BY <1>3, <1>4, <1>5 DEF ToSet
  <2>. HIDE DEF t
  <2>2. \A i \in 1..last : t[i] = all[i]  BY <1>5 DEF t
  <2>. QED  BY <2>1, <2>2
<1>7. ASSUME NEW i \in 1..last PROVE all[i] \in S /\ Rank(S, all[i], order) < limit
  <2>1. i \in 1..n /\ i <= limit /\ i \in Nat  BY <1>1, <1>4
  <2>2. all[i] \in S /\ Rank(S, all[i], order) = i - 1  BY <1>2, <2>1
  <2>. QED  BY <2>1, <2>2
<1>8. ASSUME NEW x \in S, Rank(S, x, order) < limit PROVE \E i \in 1..last : all[i] = x
  <2>1. Rank(S, x, order) \in Nat  BY <1>1, RanksAre
  <2>2. Rank(S, x, order) + 1 \in 1..last  BY <1>2, <1>4, <1>8, <2>1
  <2>. QED  BY <1>2, <2>2
<1>. QED  BY <1>6, <1>7, <1>8 DEF order

(* A row that comes in displaces others from the first page, no more.      *)
LEMMA FirstRowsOfMore ==
  ASSUME NEW T, Sortable(T), NEW S \in SUBSET T, NEW limit \in Nat
  PROVE  Sortable(S) /\ FirstRows(T, limit) \cap S \subseteq FirstRows(S, limit)
<1>1. Sortable(S)
  <2>1. IsFiniteSet(S)  BY FS_Subset DEF Sortable
  <2>. QED  BY <2>1 DEF Sortable
<1>2. ASSUME NEW x \in S
      PROVE  /\ Rank(S, x, ByValue(S, TRUE)) \in Nat /\ Rank(T, x, ByValue(T, TRUE)) \in Nat
             /\ Rank(S, x, ByValue(S, TRUE)) <= Rank(T, x, ByValue(T, TRUE))
  <2>1. Preceding(S, x, ByValue(S, TRUE)) \subseteq Preceding(T, x, ByValue(T, TRUE))
    BY DEF Preceding, ByValue
  <2>2. IsFiniteSet(Preceding(T, x, ByValue(T, TRUE)))
    BY FS_Subset DEF Preceding, Sortable
  <2>. DEFINE A == Preceding(S, x, ByValue(S, TRUE))
              B == Preceding(T, x, ByValue(T, TRUE))
  <2>. HIDE DEF A, B
  <2>3. A \in SUBSET B /\ IsFiniteSet(B)  BY <2>1, <2>2 DEF A, B
  <2>4. IsFiniteSet(A) /\ Cardinality(A) <= Cardinality(B)  BY <2>3, FS_Subset
  <2>5. Cardinality(A) \in Nat /\ Cardinality(B) \in Nat  BY <2>3, <2>4, FS_CardinalityType
  <2>. QED  BY <2>4, <2>5 DEF Rank, A, B
<1>3. ASSUME NEW x \in FirstRows(T, limit) \cap S PROVE x \in FirstRows(S, limit)
  <2>1. Rank(T, x, ByValue(T, TRUE)) < limit  BY FirstRowsAre
  <2>2. /\ x \in S /\ Rank(S, x, ByValue(S, TRUE)) \in Nat /\ Rank(T, x, ByValue(T, TRUE)) \in Nat
        /\ Rank(S, x, ByValue(S, TRUE)) <= Rank(T, x, ByValue(T, TRUE))
    BY <1>2
  <2>3. Rank(S, x, ByValue(S, TRUE)) < limit
    <3>1. \A a, b \in Nat : a <= b /\ b < limit => a < limit  OBVIOUS
    <3>. QED  BY <2>1, <2>2, <3>1, Zenon
  <2>. QED  BY <1>1, <2>2, <2>3, FirstRowsAre
<1>. QED  BY <1>1, <1>3

(* Candles are rows by their time. *)
RowsOf(table) == {<<c.time, c>> : c \in table}
Top(table, limit) == {r[2] : r \in FirstRows(RowsOf(table), limit)}

GoodTable(table) ==
  /\ IsFiniteSet(table) /\ table \subseteq Candle
  /\ \A c, d \in table : c.time = d.time => c = d

LaterIn(table, c) == {d \in table : c.time < d.time}

LEMMA TopAre ==
  ASSUME NEW table, GoodTable(table), NEW limit \in Nat
  PROVE  /\ Top(table, limit) = {c \in table : Cardinality(LaterIn(table, c)) < limit}
         /\ \A c \in table : Cardinality(LaterIn(table, c)) \in Nat
<1>. DEFINE S == RowsOf(table)
            order == ByValue(S, TRUE)
            g == [c \in table |-> <<c.time, c>>]
<1>1. \A c \in table : c.time \in Nat
  BY DEF GoodTable, Candle
<1>2. g \in Bijection(table, S)
  <2>1. g \in [table -> S] /\ \A a, b \in table : g[a] = g[b] => a = b
    BY DEF RowsOf
  <2>2. \A t \in S : \E c \in table : g[c] = t
    BY DEF RowsOf
  <2>. HIDE DEF g, S
  <2>. QED  BY <2>1, <2>2, Fun_IsBij
<1>3. IsFiniteSet(S)
  <2>1. ExistsBijection(table, S)  BY <1>2, Fun_ExistsBij
  <2>. QED  BY <2>1, FS_Bijection DEF GoodTable
<1>4. Sortable(S)
  BY <1>1, <1>3 DEF Sortable, RowsOf, GoodTable
<1>5. ASSUME NEW c \in table
      PROVE  /\ Cardinality(LaterIn(table, c)) \in Nat
             /\ Rank(S, <<c.time, c>>, order) = Cardinality(LaterIn(table, c))
  <2>. DEFINE A == LaterIn(table, c)
              B == Preceding(S, <<c.time, c>>, order)
              h == [d \in A |-> <<d.time, d>>]
  <2>1. B = {q \in S : c.time < q[1]}
    <3>1. \A q \in S : q[1] = c.time => q = <<c.time, c>>
      BY DEF RowsOf, GoodTable
    <3>2. ~(c.time < c.time)  BY <1>1
    <3>3. <<c.time, c>> \in S  BY DEF RowsOf
    <3>. QED  BY <3>1, <3>2, <3>3 DEF Preceding, ByValue
  <2>2. h \in [A -> B] /\ \A a, b \in A : h[a] = h[b] => a = b
    <3>. HIDE DEF B
    <3>. QED  BY <2>1 DEF RowsOf, LaterIn
  <2>3. \A t \in B : \E d \in A : h[d] = t
    <3>. HIDE DEF B
    <3>. QED  BY <2>1 DEF RowsOf, LaterIn
  <2>4. IsFiniteSet(A)  BY FS_Subset DEF GoodTable, LaterIn
  <2>. HIDE DEF A, B, h
  <2>5. ExistsBijection(A, B)
    <3>1. h \in Bijection(A, B)  BY <2>2, <2>3, Fun_IsBij
    <3>. QED  BY <3>1, Fun_ExistsBij
  <2>6. Cardinality(B) = Cardinality(A) /\ Cardinality(A) \in Nat
    BY <2>4, <2>5, FS_Bijection, FS_CardinalityType
  <2>. QED  BY <2>6 DEF Rank, A, B
<1>6. FirstRows(S, limit) = {x \in S : Rank(S, x, order) < limit}
  BY <1>4, FirstRowsAre
<1>. HIDE DEF order
<1>7. Top(table, limit) = {c \in table : Rank(S, <<c.time, c>>, order) < limit}
  <2>1. \A r \in S : \E c \in table : r = <<c.time, c>> /\ r[2] = c  BY DEF RowsOf
  <2>2. \A c \in table : <<c.time, c>> \in S /\ <<c.time, c>>[2] = c  BY DEF RowsOf
  <2>3. Top(table, limit) = {r[2] : r \in FirstRows(S, limit)}  BY DEF Top
  <2>. HIDE DEF S
  <2>4. ASSUME NEW c \in Top(table, limit) PROVE c \in table /\ Rank(S, <<c.time, c>>, order) < limit
    <3>1. PICK r \in S : c = r[2] /\ Rank(S, r, order) < limit  BY <1>6, <2>3
    <3>. QED  BY <2>1, <3>1
  <2>5. ASSUME NEW c \in table, Rank(S, <<c.time, c>>, order) < limit PROVE c \in Top(table, limit)
    <3>1. <<c.time, c>> \in FirstRows(S, limit)  BY <1>6, <2>2, <2>5
    <3>. QED  BY <2>2, <2>3, <3>1
  <2>. QED  BY <2>4, <2>5
<1>. QED  BY <1>5, <1>7

(* The newest candle is the first page of one. *)
LEMMA NewestIsTop ==
  ASSUME NEW table, GoodTable(table)
  PROVE  Top(table, 1) = {c \in table : \A d \in table : d.time <= c.time}
<1>1. \A c \in table : c.time \in Nat
  BY DEF GoodTable, Candle
<1>2. Top(table, 1) = {c \in table : Cardinality(LaterIn(table, c)) < 1}
  BY TopAre
<1>3. ASSUME NEW c \in table
      PROVE  Cardinality(LaterIn(table, c)) < 1 <=> LaterIn(table, c) = {}
  <2>1. IsFiniteSet(LaterIn(table, c))  BY FS_Subset DEF GoodTable, LaterIn
  <2>. QED  BY <2>1, FS_EmptySet, FS_CardinalityType
<1>4. \A c \in table : LaterIn(table, c) = {} <=> \A d \in table : d.time <= c.time
  BY <1>1 DEF LaterIn
<1>. QED  BY <1>2, <1>3, <1>4

(* A put of the last bucket changes the newest candle, or adds one.        *)
LEMMA TopAfterPut ==
  ASSUME NEW table, GoodTable(table), NEW new \in Candle, NEW limit \in Nat,
         \A c \in table : c.time <= new.time
  PROVE  LET after == (table \ At(table, new.time)) \cup {new}
         IN GoodTable(after) /\ Top(after, limit) \subseteq Top(table, limit) \cup {new}
<1>. DEFINE others == table \ At(table, new.time)
            after == others \cup {new}
<1>1. \A c \in table : c.time \in Nat /\ c \in Candle
  BY DEF GoodTable, Candle
<1>2. new.time \in Nat
  BY DEF Candle
<1>3. \A c \in others : c \in table /\ c.time < new.time /\ c # new
  BY <1>1, <1>2 DEF At
<1>4. IsFiniteSet(others)
  BY FS_Subset DEF GoodTable
<1>5. GoodTable(after)
  <2>1. IsFiniteSet(after)
    <3>. HIDE DEF others
    <3>. QED  BY <1>4, FS_AddElement
  <2>. QED  BY <1>1, <1>2, <1>3, <2>1 DEF GoodTable
<1>6. ASSUME NEW c \in others
      PROVE  Cardinality(LaterIn(table, c)) <= Cardinality(LaterIn(after, c))
  <2>. DEFINE L == LaterIn(others, c)
  <2>1. IsFiniteSet(L) /\ Cardinality(L) \in Nat
    BY <1>4, FS_Subset, FS_CardinalityType DEF LaterIn
  <2>2. LaterIn(after, c) = L \cup {new} /\ new \notin L
    BY <1>3 DEF LaterIn
  <2>3. PICK x : LaterIn(table, c) \subseteq L \cup {x}
    <3>1. CASE At(table, new.time) = {}
      <4>1. LaterIn(table, c) \subseteq L \cup {new}  BY <3>1 DEF LaterIn
      <4>. QED  BY <4>1
    <3>2. CASE At(table, new.time) # {}
      <4>1. PICK x \in At(table, new.time) : TRUE  BY <3>2
      <4>2. At(table, new.time) = {x}  BY <4>1 DEF At, GoodTable
      <4>3. LaterIn(table, c) \subseteq L \cup {x}  BY <4>2 DEF LaterIn
      <4>. QED  BY <4>3
    <3>. QED  BY <3>1, <3>2
  <2>. HIDE DEF L
  <2>4. Cardinality(L \cup {new}) = Cardinality(L) + 1
    BY <2>1, <2>2, FS_AddElement
  <2>5. IsFiniteSet(L \cup {x}) /\ Cardinality(L \cup {x}) <= Cardinality(L) + 1
        /\ Cardinality(L \cup {x}) \in Nat
    <3>1. IsFiniteSet(L \cup {x})
          /\ Cardinality(L \cup {x}) = IF x \in L THEN Cardinality(L) ELSE Cardinality(L) + 1
      BY <2>1, FS_AddElement
    <3>. QED  BY <2>1, <3>1
  <2>6. Cardinality(LaterIn(table, c)) <= Cardinality(L \cup {x})
        /\ Cardinality(LaterIn(table, c)) \in Nat
    BY <2>3, <2>5, FS_Subset, FS_CardinalityType
  <2>. QED  BY <2>1, <2>2, <2>4, <2>5, <2>6
<1>. HIDE DEF others
<1>7. ASSUME NEW c \in Top(after, limit), c # new PROVE c \in Top(table, limit)
  <2>1. c \in others /\ Cardinality(LaterIn(after, c)) < limit /\ Cardinality(LaterIn(after, c)) \in Nat
    BY <1>5, <1>7, TopAre
  <2>2. c \in table /\ Cardinality(LaterIn(table, c)) \in Nat
    BY <1>3, <2>1, TopAre
  <2>3. Cardinality(LaterIn(table, c)) < limit
    BY <1>6, <2>1, <2>2
  <2>. QED  BY <2>2, <2>3, TopAre
<1>. QED  BY <1>5, <1>7 DEF others

-----------------------------------------------------------------------------
(* The tables stay finite *)

TablesFinite ==
  /\ IsFiniteSet(trades) /\ IsFiniteSet(markers) /\ IsFiniteSet(orders)
  /\ \A i \in Intervals : IsFiniteSet(candles[i])

LEMMA FiniteStep ==
  ASSUME HandlerInv, TablesFinite, Write \/ Announce \/ Push \/ UNCHANGED handlerVars
  PROVE  TablesFinite'
<1>. USE DEF handlerVars, tables
<1>1. ASSUME UNCHANGED tables PROVE TablesFinite'
  BY <1>1 DEF TablesFinite
<1>2. CASE Put
  <2>. DEFINE i == Head(todo)[2]
              b == Bucket(i, now.time)
  <2>1. i \in Intervals /\ candles \in [Intervals -> SUBSET Candle]
        /\ candles' = [candles EXCEPT ![i] = PutPrice(@, b, now.price)]
        /\ UNCHANGED <<trades, markers, orders>>
    BY <1>2, NextTask DEF Put, Next1, HandlerInv, HandlerTypeOK
  <2>. HIDE DEF i, b
  <2>2. IsFiniteSet(PutPrice(candles[i], b, now.price))
    <3>. DEFINE others == candles[i] \ At(candles[i], b)
    <3>1. IsFiniteSet(others)  BY <2>1, FS_Subset DEF TablesFinite
    <3>. HIDE DEF others
    <3>2. IsFiniteSet(others \cup {CandleOf(candles[i], b, now.price)})  BY <3>1, FS_AddElement
    <3>. QED  BY <3>2 DEF PutPrice, others
  <2>3. \A j \in Intervals : candles'[j] = IF j = i THEN PutPrice(candles[i], b, now.price) ELSE candles[j]
    BY <2>1
  <2>. QED  BY <2>1, <2>2, <2>3 DEF TablesFinite
<1>3. CASE Store
  <2>1. IsFiniteSet(trades \cup {Row(now)})  BY FS_AddElement DEF TablesFinite
  <2>2. IsFiniteSet(markers \cup {<<now.slot, now.account>>})  BY FS_AddElement DEF TablesFinite
  <2>3. IsFiniteSet(orders \cup {<<now.price, now.id>>})  BY FS_AddElement DEF TablesFinite
  <2>4. IsFiniteSet(orders \ {now.order})  BY FS_RemoveElement DEF TablesFinite
  <2>. QED  BY <1>3, <2>1, <2>2, <2>3, <2>4 DEF Store, TablesFinite
<1>. QED
  BY <1>1, <1>2, <1>3 DEF Write, OpenOrder, Swap, CloseOrder, CreateMint, Handle, PutFails, StoreFails,
                          Announce, Push

LEMMA FiniteAlways == Spec => []TablesFinite
<1>1. Init => TablesFinite
  BY FS_EmptySet DEF Init, HandlerInit, TablesFinite
<1>2. HandlerInv /\ TablesFinite /\ [Next]_vars => TablesFinite'
  BY HandlerActs, FiniteStep
<1>. QED  BY <1>1, <1>2, HandlerAlways, PTL DEF Spec

LEMMA TablesGood ==
  ASSUME HandlerInv, TablesFinite, NEW i \in Intervals
  PROVE  /\ GoodTable(candles[i])
         /\ taken[i] \in Seq(Price) /\ InTime(taken[i], now.time)
         /\ TableSumsUp(candles[i], i, taken[i])
<1>1. /\ taken[i] \in Seq(Price) /\ candles[i] \subseteq Candle /\ IsFiniteSet(candles[i])
      /\ InTime(taken[i], now.time) /\ TableSumsUp(candles[i], i, taken[i])
  BY DEF HandlerInv, HandlerTypeOK, CandlesSumUp, Price, TablesFinite
<1>2. ASSUME NEW c \in candles[i], NEW d \in candles[i], c.time = d.time PROVE c = d
  <2>1. c = Expected(i, c.time) /\ d = Expected(i, d.time)
    BY <1>1, SummaryIsExpected DEF TableSumsUp
  <2>2. Expected(i, c.time) = Expected(i, d.time)  BY <1>2
  <2>. QED  BY <2>1, <2>2
<1>. QED  BY <1>1, <1>2 DEF GoodTable

-----------------------------------------------------------------------------
(* The intervals agree *)

LEMMA QuotientIs ==
  ASSUME NEW x \in Nat, NEW v \in Nat \ {0}, NEW q \in Nat, q * v <= x, x < (q + 1) * v
  PROVE  x \div v = q
<1>1. PICK p \in Nat : p = x \div v /\ p * v <= x /\ x < (p + 1) * v
  BY Quotient
<1>2. ASSUME p + 1 <= q PROVE FALSE
  <2>1. (p + 1) * v \in Nat /\ q * v \in Nat /\ (p + 1) * v <= q * v  BY <1>2, Product
  <2>. QED  BY <1>1, <2>1
<1>3. ASSUME q + 1 <= p PROVE FALSE
  <2>1. (q + 1) * v \in Nat /\ p * v \in Nat /\ (q + 1) * v <= p * v  BY <1>3, Product
  <2>. QED  BY <1>1, <2>1
<1>. QED  BY <1>1, <1>2, <1>3

LEMMA Times3 ==
  ASSUME NEW q \in Nat, NEW k \in Nat, NEW w \in Nat
  PROVE  q * (k * w) = (q * k) * w /\ q * k \in Nat /\ k * w \in Nat
OBVIOUS

LEMMA Nested ==
  ASSUME NEW t \in Nat, NEW w \in Nat \ {0}, NEW v \in Nat \ {0}, v % w = 0
  PROVE  (((t \div w) * w) \div v) * v = (t \div v) * v
<1>1. PICK k \in Nat : v = k * w
  <2>1. v \div w \in Nat /\ v = (v \div w) * w  OBVIOUS
  <2>. QED  BY <2>1
<1>2. PICK a \in Nat : a = t \div w /\ a * w <= t /\ t < (a + 1) * w
  BY Quotient
<1>3. PICK q \in Nat : q = t \div v /\ q * v <= t /\ t < (q + 1) * v
  BY Quotient
<1>4. q * v = (q * k) * w /\ q * k \in Nat
  BY <1>1, Times3
<1>5. q * k <= a
  <2>1. SUFFICES ASSUME a + 1 <= q * k PROVE FALSE  BY <1>4
  <2>2. (a + 1) * w \in Nat /\ (q * k) * w \in Nat /\ (a + 1) * w <= (q * k) * w
    BY <1>4, <2>1, Product
  <2>. QED  BY <1>2, <1>3, <1>4, <2>2
<1>6. (q * k) * w <= a * w /\ a * w \in Nat /\ (q + 1) * v \in Nat
  BY <1>4, <1>5, Product
<1>7. q * v <= a * w /\ a * w < (q + 1) * v
  BY <1>2, <1>3, <1>4, <1>6
<1>8. (a * w) \div v = q
  BY <1>6, <1>7, QuotientIs
<1>. QED  BY <1>2, <1>3, <1>8

(* A candle summarises the finer candles inside it. *)
LEMMA Summarises ==
  ASSUME NEW f \in Intervals, NEW g \in Intervals, Width[g] % Width[f] = 0,
         NEW s \in Seq(Price), NEW t, InTime(s, t),
         NEW fine, GoodTable(fine), TableSumsUp(fine, f, s),
         NEW c, SumsUp(c, g, s),
         NEW inside, inside = {d \in fine : Bucket(g, d.time) = c.time}
  PROVE  /\ \A d \in inside : d.high <= c.high /\ c.low <= d.low
         /\ \E d \in inside : d.high = c.high
         /\ \E d \in inside : d.low = c.low
         /\ Newest(inside).close = c.close
<1>1. \A n \in 1..Len(s) : s[n].price \in Nat /\ s[n].time \in Nat
  <2>1. \A n \in 1..Len(s) : s[n] \in Price  OBVIOUS
  <2>. QED  BY <2>1, HandlerAssumption DEF Price
<1>2. \A n \in 1..Len(s) : Bucket(g, Bucket(f, s[n].time)) = Bucket(g, s[n].time)
  <2>1. Width[f] \in Nat \ {0} /\ Width[g] \in Nat \ {0}  BY CandleAssumption
  <2>. QED  BY <1>1, <2>1, Nested DEF Bucket
<1>3. \A d \in inside : /\ SumsUp(d, f, s) /\ d \in Candle /\ d \in fine
                        /\ \A n \in Inside(f, s, d.time) : n \in Inside(g, s, c.time)
  <2>1. SUFFICES ASSUME NEW d \in inside
                 PROVE  /\ SumsUp(d, f, s) /\ d \in Candle /\ d \in fine
                        /\ \A n \in Inside(f, s, d.time) : n \in Inside(g, s, c.time)
    OBVIOUS
  <2>2. d \in fine /\ Bucket(g, d.time) = c.time  OBVIOUS
  <2>3. SumsUp(d, f, s)  BY <2>2 DEF TableSumsUp
  <2>4. d \in Candle  BY <2>3 DEF SumsUp
  <2>5. \A n \in Inside(f, s, d.time) : n \in Inside(g, s, c.time)
    <3>1. \A n \in Inside(f, s, d.time) : n \in 1..Len(s) /\ Bucket(f, s[n].time) = d.time
      BY DEF Inside
    <3>2. \A n \in Inside(f, s, d.time) : Bucket(g, s[n].time) = c.time
      BY <1>2, <2>2, <3>1
    <3>. QED  BY <3>1, <3>2 DEF Inside
  <2>. QED  BY <2>2, <2>3, <2>4, <2>5
<1>4. c \in Candle
  BY DEF SumsUp
<1>5. \A n \in Inside(g, s, c.time) :
        n \in 1..Len(s) /\ \E d \in inside : d.time = Bucket(f, s[n].time) /\ n \in Inside(f, s, d.time)
  BY <1>2 DEF TableSumsUp, Inside
<1>6. \A d \in inside : d.high <= c.high /\ c.low <= d.low
  BY <1>3 DEF SumsUp
<1>7. \E d \in inside : d.high = c.high
  <2>1. PICK n \in Inside(g, s, c.time) : c.high = s[n].price  BY DEF SumsUp
  <2>2. PICK d \in inside : n \in Inside(f, s, d.time)  BY <1>5
  <2>3. c.high <= d.high  BY <1>3, <2>1, <2>2 DEF SumsUp
  <2>4. d.high \in Nat /\ c.high \in Nat  BY <1>3, <1>4 DEF Candle
  <2>. QED  BY <1>6, <2>3, <2>4
<1>8. \E d \in inside : d.low = c.low
  <2>1. PICK n \in Inside(g, s, c.time) : c.low = s[n].price  BY DEF SumsUp
  <2>2. PICK d \in inside : n \in Inside(f, s, d.time)  BY <1>5
  <2>3. d.low <= c.low  BY <1>3, <2>1, <2>2 DEF SumsUp
  <2>4. d.low \in Nat /\ c.low \in Nat  BY <1>3, <1>4 DEF Candle
  <2>. QED  BY <1>6, <2>3, <2>4
<1>9. Newest(inside).close = c.close
  <2>1. PICK n : LastOf(n, Inside(g, s, c.time)) /\ c.close = s[n].price  BY DEF SumsUp
  <2>2. n \in Inside(g, s, c.time) /\ n \in 1..Len(s)  BY <2>1 DEF LastOf, Inside
  <2>3. PICK d \in inside : d.time = Bucket(f, s[n].time) /\ n \in Inside(f, s, d.time)  BY <1>5, <2>2
  <2>4. ASSUME NEW e \in inside PROVE e.time <= d.time
    <3>1. PICK m \in Inside(f, s, e.time) : TRUE  BY <1>3 DEF SumsUp
    <3>2. m \in Inside(g, s, c.time) /\ m \in 1..Len(s) /\ e.time = Bucket(f, s[m].time)
      BY <1>3, <3>1 DEF Inside
    <3>3. m <= n  BY <2>1, <3>2 DEF LastOf
    <3>4. s[m].time <= s[n].time  BY <2>2, <3>2, <3>3 DEF InTime
    <3>. QED  BY <1>1, <2>2, <2>3, <3>2, <3>4, BucketsFollowTime
  <2>5. Newest(inside) = d
    <3>1. \A e \in inside : e.time \in Nat  BY <1>3 DEF Candle
    <3>2. \A x \in inside : (\A e \in inside : e.time <= x.time) => x = d
      BY <1>3, <2>4, <3>1 DEF GoodTable
    <3>. QED  BY <2>4, <3>2 DEF Newest
  <2>6. PICK k : LastOf(k, Inside(f, s, d.time)) /\ d.close = s[k].price  BY <1>3 DEF SumsUp
  <2>7. k = n
    <3>1. k \in Inside(g, s, c.time) /\ k \in 1..Len(s)  BY <1>3, <2>6 DEF LastOf, Inside
    <3>2. n <= k /\ k <= n  BY <2>1, <2>3, <2>6, <3>1 DEF LastOf
    <3>. QED  BY <2>2, <3>1, <3>2
  <2>. QED  BY <2>1, <2>5, <2>6, <2>7
<1>. QED  BY <1>6, <1>7, <1>8, <1>9

(* Whatever the prices and the widths, a candle spans the finer candles    *)
(* inside it and closes with the last of them, in a database whose two     *)
(* tables have taken in the same prices.                                   *)
THEOREM IntervalsAgree == Spec => []CoarserSummarisesFiner
<1>1. HandlerInv /\ TablesFinite => CoarserSummarisesFiner
  <2>1. ASSUME HandlerInv, TablesFinite, NEW f \in Intervals, NEW g \in Intervals,
               Width[g] % Width[f] = 0, taken[f] = taken[g], NEW c \in candles[g],
               NEW inside, inside = {d \in candles[f] : Bucket(g, d.time) = c.time}
        PROVE  /\ \A d \in inside : d.high <= c.high /\ c.low <= d.low
               /\ \E d \in inside : d.high = c.high
               /\ \E d \in inside : d.low = c.low
               /\ Newest(inside).close = c.close
    <3>1. /\ GoodTable(candles[f]) /\ taken[f] \in Seq(Price) /\ InTime(taken[f], now.time)
          /\ TableSumsUp(candles[f], f, taken[f]) /\ TableSumsUp(candles[g], g, taken[g])
      BY <2>1, TablesGood
    <3>2. SumsUp(c, g, taken[f])
      BY <2>1, <3>1 DEF TableSumsUp
    <3>3. PICK s \in Seq(Price) : s = taken[f]
      BY <3>1
    <3>4. PICK fine, t : fine = candles[f] /\ t = now.time
      OBVIOUS
    <3>5. /\ InTime(s, t) /\ GoodTable(fine) /\ TableSumsUp(fine, f, s) /\ SumsUp(c, g, s)
          /\ inside = {d \in fine : Bucket(g, d.time) = c.time} /\ Width[g] % Width[f] = 0
      BY <2>1, <3>1, <3>2, <3>3, <3>4
    <3>. QED  BY <3>5, Summarises
  <2>2. /\ "s1" \in Intervals /\ "s30" \in Intervals /\ "m5" \in Intervals
        /\ Width["s30"] % Width["s1"] = 0 /\ Width["m5"] % Width["s30"] = 0
    BY CandleAssumption DEF Intervals
  <2>3. ASSUME NEW pair \in {<<"s1", "s30">>, <<"s30", "m5">>}
        PROVE  /\ pair[1] \in Intervals /\ pair[2] \in Intervals
               /\ Width[pair[2]] % Width[pair[1]] = 0
    BY <2>2, <2>3
  <2>. QED  BY <2>1, <2>3 DEF CoarserSummarisesFiner
<1>. QED  BY <1>1, HandlerAlways, FiniteAlways, PTL

-----------------------------------------------------------------------------
Wider(d, c) == d.open = c.open /\ d.low <= c.low /\ c.high <= d.high

(* What Put does to the table of its interval.                             *)
LEMMA PutDoes ==
  ASSUME HandlerInv, TablesFinite, Put
  PROVE  \E i \in Intervals : \E new \in Candle :
           /\ Head(todo) = <<"put", i>> /\ UNCHANGED <<trades, now>>
           /\ \A j \in Intervals : j # i => candles'[j] = candles[j]
           /\ candles'[i] = (candles[i] \ At(candles[i], new.time)) \cup {new}
           /\ \A c \in candles[i] : c.time <= new.time
           /\ \A c \in At(candles[i], new.time) : new.update_count = c.update_count + 1 /\ Wider(new, c)
           /\ \A limit \in Nat : Top(candles'[i], limit) \subseteq Top(candles[i], limit) \cup {new}
<1>. DEFINE i == Head(todo)[2]
            b == Bucket(i, now.time)
            new == CandleOf(candles[i], b, now.price)
<1>1. /\ i \in Intervals /\ candles \in [Intervals -> SUBSET Candle] /\ now.time \in Times
      /\ now.price \in Nat
      /\ candles' = [candles EXCEPT ![i] = PutPrice(@, b, now.price)]
      /\ UNCHANGED <<trades, now>>
      /\ todo # <<>> /\ Head(todo)[1] = "put"
  BY NextTask DEF Put, Next1, HandlerInv, HandlerTypeOK, Event
<1>2. Head(todo) = <<"put", i>>
  <2>1. \E w \in {Long, Stores} : todo \in Rests(w)  BY DEF HandlerInv, HandlerTypeOK, Rests, Long
  <2>2. todo \in Seq(Item)  BY <2>1, WorkIs, RestsAre
  <2>3. Head(todo) \in Item  BY <1>1, <2>2, HeadTailProperties
  <2>. QED  BY <1>1, <2>3 DEF Item
<1>. HIDE DEF i
<1>3. /\ GoodTable(candles[i]) /\ taken[i] \in Seq(Price) /\ InTime(taken[i], now.time)
      /\ TableSumsUp(candles[i], i, taken[i])
  BY <1>1, TablesGood
<1>4. \A c \in candles[i] : c.time <= b
  <2>1. \A c \in candles[i] : \E n \in 1..Len(taken[i]) : c.time = Bucket(i, taken[i][n].time)
    BY <1>3 DEF TableSumsUp, SumsUp, LastOf, Inside
  <2>2. \A n \in 1..Len(taken[i]) : taken[i][n] \in Price  BY <1>3
  <2>3. \A n \in 1..Len(taken[i]) : taken[i][n].time \in Nat /\ taken[i][n].time <= now.time
    BY <1>3, <2>2, HandlerAssumption DEF Price, InTime
  <2>4. now.time \in Nat  BY <1>1, HandlerAssumption
  <2>. QED  BY <1>1, <2>1, <2>3, <2>4, BucketsFollowTime
<1>5. new.time = b /\ new \in Candle /\ \A c \in At(candles[i], b) :
                               new.update_count = c.update_count + 1 /\ Wider(new, c)
  <2>1. HandlerInv'  BY HandlerStep DEF Write
  <2>2. candles'[i] = PutPrice(candles[i], b, now.price)  BY <1>1
  <2>3. new \in candles'[i]  BY <2>2 DEF PutPrice
  <2>4. new \in Candle  BY <1>1, <2>1, <2>3 DEF HandlerInv, HandlerTypeOK
  <2>5. CASE At(candles[i], b) = {}
    BY <2>4, <2>5 DEF CandleOf, NewCandle
  <2>6. CASE At(candles[i], b) # {}
    <3>1. PICK c \in At(candles[i], b) : new = Updated(c, now.price)  BY <2>6 DEF CandleOf
    <3>2. At(candles[i], b) = {c} /\ c \in Candle /\ c.time = b  BY <1>3, <3>1 DEF At, GoodTable
    <3>3. new.time = c.time /\ new.update_count = c.update_count + 1
      BY <3>1, <3>2 DEF Updated, Candle
    <3>4. Wider(new, c)
      BY <1>1, <3>1, <3>2 DEF Updated, Candle, Wider
    <3>. QED  BY <2>4, <3>2, <3>3, <3>4
  <2>. QED  BY <2>5, <2>6
<1>6. candles'[i] = (candles[i] \ At(candles[i], new.time)) \cup {new}
  BY <1>1, <1>5 DEF PutPrice
<1>. HIDE DEF new, b
<1>7. \A limit \in Nat : Top(candles'[i], limit) \subseteq Top(candles[i], limit) \cup {new}
  BY <1>3, <1>4, <1>5, <1>6, TopAfterPut
<1>. QED  BY <1>1, <1>2, <1>4, <1>5, <1>6, <1>7

(* Nothing the handler does takes a candle away, rewrites its open, narrows *)
(* it or changes any candle but the newest of its table.                   *)
THEOREM CandlesGrow == Spec => CandlesOnlyGrow
<1>. DEFINE Stays(i) == \A c \in candles[i] : \E d \in candles'[i] :
                          /\ d.time = c.time /\ d.open = c.open
                          /\ d.low <= c.low /\ c.high <= d.high /\ c.update_count <= d.update_count
            NewestOnly(i) == \A d \in candles'[i] \ candles[i] : \A c \in candles[i] : c.time <= d.time
            Grows == \A i \in Intervals : Stays(i) /\ NewestOnly(i)
<1>1. ASSUME HandlerInv, NEW i \in Intervals, NEW c \in candles[i]
      PROVE  c.low <= c.low /\ c.high <= c.high /\ c.update_count <= c.update_count
  BY <1>1 DEF HandlerInv, HandlerTypeOK, Candle
<1>2. ASSUME HandlerInv, NEW i \in Intervals, candles'[i] = candles[i] PROVE Stays(i) /\ NewestOnly(i)
  BY <1>1, <1>2
<1>3. ASSUME HandlerInv, TablesFinite, Put PROVE Grows
  <2>1. PICK i \in Intervals, new \in Candle :
          /\ \A j \in Intervals : j # i => candles'[j] = candles[j]
          /\ candles'[i] = (candles[i] \ At(candles[i], new.time)) \cup {new}
          /\ \A c \in candles[i] : c.time <= new.time
          /\ \A c \in At(candles[i], new.time) : new.update_count = c.update_count + 1 /\ Wider(new, c)
    BY <1>3, PutDoes
  <2>2. ASSUME NEW c \in candles[i]
        PROVE  \E d \in candles'[i] :
                 /\ d.time = c.time /\ d.open = c.open
                 /\ d.low <= c.low /\ c.high <= d.high /\ c.update_count <= d.update_count
    <3>1. CASE c \in At(candles[i], new.time)
      <4>1. c.update_count \in Nat  BY <1>3 DEF HandlerInv, HandlerTypeOK, Candle
      <4>2. new \in candles'[i] /\ new.time = c.time /\ c.update_count <= new.update_count
        BY <2>1, <3>1, <4>1 DEF At
      <4>. QED  BY <2>1, <3>1, <4>2 DEF Wider
    <3>2. CASE c \notin At(candles[i], new.time)
      BY <1>1, <1>3, <2>1, <3>2
    <3>. QED  BY <3>1, <3>2
  <2>3. \A d \in candles'[i] \ candles[i] : d = new
    BY <2>1
  <2>4. Stays(i) /\ NewestOnly(i)
    BY <2>1, <2>2, <2>3
  <2>. HIDE DEF Stays, NewestOnly
  <2>5. \A j \in Intervals : j # i => Stays(j) /\ NewestOnly(j)
    BY <1>2, <1>3, <2>1
  <2>. QED  BY <2>4, <2>5
<1>4. ASSUME HandlerInv, Write \/ Announce \/ Push \/ UNCHANGED handlerVars, ~Put
      PROVE  Grows
  <2>1. candles' = candles
    BY <1>4 DEF Write, Announce, Push, OpenOrder, Swap, CloseOrder, CreateMint, Handle, PutFails,
                Store, StoreFails, handlerVars, tables
  <2>. HIDE DEF Stays, NewestOnly
  <2>. QED  BY <1>2, <1>4, <2>1
<1>5. HandlerInv /\ TablesFinite /\ [Next]_vars => [Grows]_handlerVars
  <2>. HIDE DEF Grows
  <2>. QED  BY <1>3, <1>4, HandlerActs
<1>6. HandlerInv /\ TablesFinite /\ [Next]_vars =>
        [\A i \in Intervals :
           /\ \A c \in candles[i] : \E d \in candles'[i] :
                /\ d.time = c.time /\ d.open = c.open
                /\ d.low <= c.low /\ c.high <= d.high /\ c.update_count <= d.update_count
           /\ \A d \in candles'[i] \ candles[i] : \A c \in candles[i] :
                c.time <= d.time]_handlerVars
  BY <1>5
<1>. QED  BY <1>6, HandlerAlways, FiniteAlways, PTL DEF Spec, CandlesOnlyGrow

-----------------------------------------------------------------------------
(* Tasks are done in order *)

DueIn(t, x) == \E k \in 1..Len(t) : t[k] = x

LEMMA TasksAre ==
  /\ Puts \in Seq(Item) /\ Stores \in Seq(Item) /\ Pushes \in Seq(Item)
  /\ Len(Puts) = 3 /\ Len(Stores) = 2 /\ Len(Pushes) = 3
  /\ \A n \in 1..3 : Puts[n] = <<"put", Order[n]>> /\ Pushes[n] = <<"push", Order[n]>>
  /\ Stores[1] = <<"store", "batch">> /\ Stores[2] = <<"announce", "event">>
<1>1. Order[1] = "s1" /\ Order[2] = "s30" /\ Order[3] = "m5"  BY DEF Order
<1>2. \A n \in 1..3 : Order[n] \in Intervals  BY <1>1 DEF Intervals
<1>3. \A n \in 1..3 : <<"put", Order[n]>> \in Item /\ <<"push", Order[n]>> \in Item
  BY <1>2 DEF Item
<1>4. Puts \in [1..3 -> Item] /\ Pushes \in [1..3 -> Item]
  BY <1>3 DEF Puts, Pushes
<1>5. 3 \in Nat  OBVIOUS
<1>6. Puts \in Seq(Item) /\ Pushes \in Seq(Item) /\ Len(Puts) = 3 /\ Len(Pushes) = 3
  BY <1>4, <1>5, Items, Zenon
<1>7. \A n \in 1..3 : Puts[n] = <<"put", Order[n]>> /\ Pushes[n] = <<"push", Order[n]>>
  BY DEF Puts, Pushes
<1>8. Len(Stores) = 2 /\ Stores[1] = <<"store", "batch">> /\ Stores[2] = <<"announce", "event">>
  BY DEF Stores
<1>. QED  BY <1>6, <1>7, <1>8, WorkIs

LEMMA LongItems ==
  /\ Len(Long) = 8 /\ Long \in Seq(Item)
  /\ \A n \in 1..3 : Long[n] = <<"put", Order[n]>> /\ Long[5 + n] = <<"push", Order[n]>>
  /\ Long[4] = <<"store", "batch">> /\ Long[5] = <<"announce", "event">>
<1>1. /\ Puts \in Seq(Item) /\ Stores \in Seq(Item) /\ Pushes \in Seq(Item)
      /\ Len(Puts) = 3 /\ Len(Stores) = 2 /\ Len(Pushes) = 3
      /\ \A n \in 1..3 : Puts[n] = <<"put", Order[n]>> /\ Pushes[n] = <<"push", Order[n]>>
      /\ Stores[1] = <<"store", "batch">> /\ Stores[2] = <<"announce", "event">>
  BY TasksAre
<1>. DEFINE a == Puts \o Stores
<1>2. /\ a \in Seq(Item) /\ Len(a) = Len(Puts) + Len(Stores)
      /\ \A n \in 1..Len(Puts) : a[n] = Puts[n]
      /\ \A n \in 1..Len(Stores) : a[Len(Puts) + n] = Stores[n]
  <2>1. PICK s \in Seq(Item), t \in Seq(Item) : s = Puts /\ t = Stores  BY <1>1
  <2>2. /\ s \o t \in Seq(Item) /\ Len(s \o t) = Len(s) + Len(t)
        /\ \A n \in 1..Len(s) : (s \o t)[n] = s[n]
        /\ \A n \in 1..Len(t) : (s \o t)[Len(s) + n] = t[n]
    OBVIOUS
  <2>. QED  BY <2>1, <2>2
<1>3. /\ Long \in Seq(Item) /\ Len(Long) = Len(a) + Len(Pushes)
      /\ \A n \in 1..Len(a) : Long[n] = a[n]
      /\ \A n \in 1..Len(Pushes) : Long[Len(a) + n] = Pushes[n]
  <2>1. PICK s \in Seq(Item), t \in Seq(Item) : s = a /\ t = Pushes  BY <1>1, <1>2
  <2>2. /\ s \o t \in Seq(Item) /\ Len(s \o t) = Len(s) + Len(t)
        /\ \A n \in 1..Len(s) : (s \o t)[n] = s[n]
        /\ \A n \in 1..Len(t) : (s \o t)[Len(s) + n] = t[n]
    OBVIOUS
  <2>3. Long = s \o t  BY <2>1 DEF Long
  <2>. QED  BY <2>1, <2>2, <2>3
<1>. HIDE DEF a
<1>4. Len(a) = 5 /\ Len(Long) = 8
  BY <1>1, <1>2, <1>3
<1>5. a[4] = Stores[1] /\ a[5] = Stores[2]
  <2>1. 1 \in 1..Len(Stores) /\ 2 \in 1..Len(Stores) /\ Len(Puts) + 1 = 4 /\ Len(Puts) + 2 = 5
    BY <1>1
  <2>. QED  BY <1>2, <2>1
<1>6. Long[4] = a[4] /\ Long[5] = a[5]
  BY <1>3, <1>4
<1>7. ASSUME NEW n \in 1..3 PROVE Long[n] = Puts[n] /\ Long[5 + n] = Pushes[n]
  <2>1. n \in 1..Len(a) /\ n \in 1..Len(Puts) /\ n \in 1..Len(Pushes)  BY <1>1, <1>4
  <2>. QED  BY <1>2, <1>3, <1>4, <2>1
<1>. QED  BY <1>1, <1>3, <1>4, <1>5, <1>6, <1>7

(* A task done is not due any more; the pushes come after the puts, and the *)
(* announcement after the store.                                           *)
LEMMA TasksInOrder ==
  ASSUME HandlerTypeOK, todo # <<>>, NEW rest, rest = Tail(todo)
  PROVE  /\ Head(todo) \in Item
         /\ \A x : DueIn(rest, x) => DueIn(todo, x)
         /\ \A x : DueIn(todo, x) /\ x # Head(todo) => DueIn(rest, x)
         /\ \A i \in Intervals : Head(todo) = <<"put", i>> =>
              ~DueIn(rest, <<"put", i>>) /\ DueIn(rest, <<"push", i>>)
         /\ Head(todo)[1] = "store" => DueIn(rest, <<"announce", "event">>)
<1>1. PICK w \in {Long, Stores} : todo \in Rests(w)
  BY DEF HandlerTypeOK, Rests, Long
<1>2. PICK n \in 1..Len(w) + 1 : todo = SubSeq(w, n, Len(w))
  BY <1>1 DEF Rests
<1>3. w \in Seq(Item)
  BY WorkIs
<1>4. /\ n \in 1..Len(w) /\ Head(todo) = w[n] /\ rest = SubSeq(w, n + 1, Len(w))
      /\ Len(todo) = Len(w) - n + 1 /\ \A k \in 1..Len(todo) : todo[k] = w[n + k - 1]
  BY <1>2, <1>3, RestIs
<1>5. n + 1 \in 1..Len(w) + 1
  BY <1>3, <1>4
<1>6. Len(rest) = Len(w) - n /\ \A k \in 1..Len(rest) : rest[k] = w[n + k]
  <2>1. /\ Len(rest) = Len(w) - (n + 1) + 1
        /\ \A k \in 1..Len(rest) : rest[k] = w[(n + 1) + k - 1]
    BY <1>3, <1>4, <1>5, RestIs
  <2>2. Len(w) - (n + 1) + 1 = Len(w) - n /\ \A k \in Nat : (n + 1) + k - 1 = n + k
    BY <1>3, <1>4
  <2>3. \A k \in 1..Len(rest) : k \in Nat  OBVIOUS
  <2>. QED  BY <2>1, <2>2, <2>3
<1>7. \A x : DueIn(todo, x) <=> \E m \in n..Len(w) : w[m] = x
  <2>1. \A m \in n..Len(w) : (m - n + 1) \in 1..Len(todo) /\ todo[m - n + 1] = w[m]
    BY <1>3, <1>4
  <2>2. \A k \in 1..Len(todo) : n + k - 1 \in n..Len(w) /\ todo[k] = w[n + k - 1]
    BY <1>3, <1>4
  <2>. QED  BY <2>1, <2>2 DEF DueIn
<1>8. \A x : DueIn(rest, x) <=> \E m \in (n + 1)..Len(w) : w[m] = x
  <2>1. ASSUME NEW m \in (n + 1)..Len(w) PROVE (m - n) \in 1..Len(rest) /\ rest[m - n] = w[m]
    <3>1. (m - n) \in 1..Len(rest) /\ n + (m - n) = m  BY <1>3, <1>4, <1>6
    <3>. QED  BY <1>6, <3>1
  <2>2. \A k \in 1..Len(rest) : n + k \in (n + 1)..Len(w) /\ rest[k] = w[n + k]
    <3>1. \A k \in 1..Len(rest) : n + k \in (n + 1)..Len(w)  BY <1>3, <1>4, <1>6
    <3>. QED  BY <1>6, <3>1
  <2>3. ASSUME NEW x, DueIn(rest, x) PROVE \E m \in (n + 1)..Len(w) : w[m] = x
    <3>1. PICK k \in 1..Len(rest) : rest[k] = x  BY <2>3 DEF DueIn
    <3>. QED  BY <2>2, <3>1
  <2>4. ASSUME NEW x, NEW m \in (n + 1)..Len(w), w[m] = x PROVE DueIn(rest, x)
    BY <2>1, <2>4 DEF DueIn
  <2>. QED  BY <2>3, <2>4
<1>9. Head(todo) \in Item
  BY <1>3, <1>4
<1>10. \A x : DueIn(rest, x) => DueIn(todo, x)
  <2>1. (n + 1)..Len(w) \subseteq n..Len(w)  BY <1>3, <1>4
  <2>. QED  BY <1>7, <1>8, <2>1
<1>11. \A x : DueIn(todo, x) /\ x # Head(todo) => DueIn(rest, x)
  <2>1. \A m \in n..Len(w) : m = n \/ m \in (n + 1)..Len(w)  BY <1>3, <1>4
  <2>. QED  BY <1>4, <1>7, <1>8, <2>1
<1>12. Order[1] = "s1" /\ Order[2] = "s30" /\ Order[3] = "m5"
  BY DEF Order
<1>13. ASSUME NEW i \in Intervals, Head(todo) = <<"put", i>>
       PROVE  ~DueIn(rest, <<"put", i>>) /\ DueIn(rest, <<"push", i>>)
  <2>1. w[n] = <<"put", i>>  BY <1>4, <1>13
  <2>2. w = Long
    <3>1. Len(Stores) = 2 /\ Stores[1] = <<"store", "batch">> /\ Stores[2] = <<"announce", "event">>
      BY DEF Stores
    <3>2. \A m \in 1..2 : m = 1 \/ m = 2  OBVIOUS
    <3>. QED  BY <1>4, <2>1, <3>1, <3>2
  <2>3. \A m \in 1..8 : m \in 1..3 \/ m = 4 \/ m = 5 \/ (m - 5 \in 1..3 /\ m = 5 + (m - 5))
    OBVIOUS
  <2>4. n \in 1..3 /\ i = Order[n]
    <3>1. n \in 1..8  BY <1>4, <2>2, LongItems
    <3>. QED  BY <2>1, <2>2, <2>3, <3>1, LongItems
  <2>5. ASSUME NEW m \in (n + 1)..8, Long[m] = <<"put", i>> PROVE FALSE
    <3>1. m \in 1..8  BY <2>4
    <3>2. m \in 1..3 /\ i = Order[m]  BY <2>3, <2>5, <3>1, LongItems
    <3>3. m = n
      <4>1. \A k \in 1..3 : k = 1 \/ k = 2 \/ k = 3  OBVIOUS
      <4>. QED  BY <1>12, <2>4, <3>2, <4>1
    <3>. QED  BY <2>4, <3>3
  <2>6. 5 + n \in (n + 1)..8 /\ Long[5 + n] = <<"push", i>>
    BY <2>4, LongItems
  <2>. QED  BY <1>8, <2>2, <2>5, <2>6, LongItems
<1>14. ASSUME Head(todo)[1] = "store" PROVE DueIn(rest, <<"announce", "event">>)
  <2>1. w[n][1] = "store"  BY <1>4, <1>14
  <2>2. CASE w = Stores
    <3>1. Len(Stores) = 2 /\ Stores[1] = <<"store", "batch">> /\ Stores[2] = <<"announce", "event">>
      BY DEF Stores
    <3>2. n = 1  BY <1>4, <2>1, <2>2, <3>1
    <3>3. 2 \in (n + 1)..Len(w)  BY <2>2, <3>1, <3>2
    <3>. QED  BY <1>8, <2>2, <3>1, <3>3
  <2>3. CASE w = Long
    <3>1. \A m \in 1..8 : m \in 1..3 \/ m = 4 \/ m = 5 \/ (m - 5 \in 1..3 /\ m = 5 + (m - 5))
      OBVIOUS
    <3>2. n \in 1..8  BY <1>4, <2>3, LongItems
    <3>3. n = 4
      <4>1. \A m \in 1..3 : Long[m][1] = "put" /\ Long[5 + m][1] = "push"  BY LongItems
      <4>2. Long[5][1] = "announce"  BY LongItems
      <4>. QED  BY <2>1, <2>3, <3>1, <3>2, <4>1, <4>2
    <3>4. 5 \in (n + 1)..Len(w)  BY <2>3, <3>3, LongItems
    <3>. QED  BY <1>8, <2>3, <3>4, LongItems
  <2>. QED  BY <2>2, <2>3
<1>. QED  BY <1>9, <1>10, <1>11, <1>13, <1>14

-----------------------------------------------------------------------------
(* The subscriber.  n is the next step of its task; 7 when it is confirmed. *)

StepNames == {"join", "readCandles", "sendCandles", "readEvents", "sendEvents", "confirm"}
StepsFrom(n) == SubSeq(SubscribeSteps, n, Len(SubscribeSteps))

(* The subscription has come to its n-th step. *)
Stage(n) ==
  /\ sub = [phase |-> sub.phase, interval |-> sub.interval, steps |-> sub.steps,
            joined |-> sub.joined, read |-> sub.read, view |-> sub.view, seen |-> sub.seen]
  /\ sub.interval \in Intervals
  /\ sub.steps = StepsFrom(n)
  /\ sub.phase = IF n = 7 THEN "live" ELSE "opening"
  /\ n # 1 => sub.joined = TRUE
  /\ n = 1 => sub.joined = FALSE

LEMMA SubscribeStepsAre ==
  /\ SubscribeSteps \in Seq(StepNames) /\ Len(SubscribeSteps) = 6
  /\ SubscribeSteps[1] = "join" /\ SubscribeSteps[2] = "readCandles"
  /\ SubscribeSteps[3] = "sendCandles" /\ SubscribeSteps[4] = "readEvents"
  /\ SubscribeSteps[5] = "sendEvents" /\ SubscribeSteps[6] = "confirm"
BY DEF SubscribeSteps, StepNames

LEMMA StepsFromAre ==
  /\ StepsFrom(1) = SubscribeSteps /\ StepsFrom(7) = <<>>
  /\ \A n \in 1..6 : /\ StepsFrom(n) # <<>> /\ Head(StepsFrom(n)) = SubscribeSteps[n]
                     /\ Tail(StepsFrom(n)) = StepsFrom(n + 1)
<1>1. SubscribeSteps \in Seq(StepNames) /\ Len(SubscribeSteps) = 6
  BY SubscribeStepsAre
<1>2. ASSUME NEW n \in 1..6
      PROVE  /\ StepsFrom(n) # <<>> /\ Head(StepsFrom(n)) = SubscribeSteps[n]
             /\ Tail(StepsFrom(n)) = StepsFrom(n + 1)
  <2>. DEFINE w == SubscribeSteps
              r == StepsFrom(n)
  <2>1. w \in Seq(StepNames) /\ n \in 1..Len(w) + 1 /\ n # Len(w) + 1 /\ r = SubSeq(w, n, Len(w))
    BY <1>1 DEF StepsFrom
  <2>2. Tail(r) = SubSeq(w, n + 1, Len(w)) => Tail(r) = StepsFrom(n + 1)
    BY DEF StepsFrom
  <2>. HIDE DEF w, r
  <2>3. r # <<>>
    <3>1. Len(r) = Len(w) - n + 1  BY <2>1, RestIs
    <3>2. Len(r) # 0  BY <2>1, <3>1
    <3>. QED  BY <3>2
  <2>4. Head(r) = w[n] /\ Tail(r) = SubSeq(w, n + 1, Len(w))
    BY <2>1, <2>3, RestIs
  <2>. QED  BY <2>2, <2>3, <2>4 DEF w, r
<1>3. StepsFrom(7) = <<>>
  <2>1. 7 \in 1..Len(SubscribeSteps) + 1 /\ 7 = Len(SubscribeSteps) + 1  BY <1>1
  <2>. QED  BY <1>1, <2>1, RestIs DEF StepsFrom
<1>4. StepsFrom(1) = SubscribeSteps
  <2>1. \A S : \A w \in Seq(S) : SubSeq(w, 1, Len(w)) = w  OBVIOUS
  <2>. QED  BY <1>1, <2>1 DEF StepsFrom
<1>. QED  BY <1>2, <1>3, <1>4

(* The step a subscription is about to take tells where it is. *)
LEMMA StepTells ==
  ASSUME NEW n \in 1..7, Stage(n), NEW what, SubStep(what)
  PROVE  n \in 1..6 /\ Rest = StepsFrom(n + 1) /\ what = SubscribeSteps[n] /\ UNCHANGED <<handlerVars, walk>>
<1>1. n \in 1..6
  BY DEF SubStep, Stage
<1>2. what = SubscribeSteps[n] /\ Rest = StepsFrom(n + 1)
  BY <1>1, StepsFromAre DEF SubStep, Stage, Rest
<1>. QED  BY <1>1, <1>2 DEF SubStep

LEMMA StepNumber ==
  ASSUME NEW n \in 1..6
  PROVE  /\ SubscribeSteps[n] = "join" => n = 1
         /\ SubscribeSteps[n] = "readCandles" => n = 2
         /\ SubscribeSteps[n] = "sendCandles" => n = 3
         /\ SubscribeSteps[n] = "readEvents" => n = 4
         /\ SubscribeSteps[n] = "sendEvents" => n = 5
         /\ SubscribeSteps[n] = "confirm" => n = 6
<1>1. n = 1 \/ n = 2 \/ n = 3 \/ n = 4 \/ n = 5 \/ n = 6
  OBVIOUS
<1>. QED  BY <1>1, SubscribeStepsAre

-----------------------------------------------------------------------------
(* What the client holds.  Every candle it holds (has in view, or is about *)
(* to be sent) is a candle of the table or an older state of one, and the  *)
(* current state of that one is held too, or late: put and still to be     *)
(* pushed.  Once the history is read, so are the newest candles.           *)

ViewGood(n, view, held, table, late) ==
  /\ n = 1 => view = {}
  /\ view \subseteq held /\ held \subseteq Candle
  /\ \A c \in held : \E d \in table :
       /\ d.time = c.time /\ c.update_count <= d.update_count
       /\ (c.update_count = d.update_count => c = d)
       /\ d \in held \cup late
  /\ n >= 3 => Top(table, CandleHistory) \subseteq held \cup late
  /\ \A c, d \in view : c.time = d.time => c.update_count = d.update_count

Held(n) == sub.view \cup (IF n = 3 THEN sub.read ELSE {})
Table1 == candles[sub.interval]
Behind == DueIn(todo, <<"push", sub.interval>>) /\ ~DueIn(todo, <<"put", sub.interval>>)
Late == {d \in Table1 : Behind /\ \A e \in Table1 : e.time <= d.time}
ViewInv(n) == ViewGood(n, sub.view, Held(n), Table1, Late)

(* What is merged is held, and the current states among it are kept.       *)
LEMMA MergeKeeps ==
  ASSUME NEW view, NEW new, \A c \in view \cup new : c \in Candle
  PROVE  /\ Merge(view, new) \subseteq view \cup new
         /\ \A c, d \in Merge(view, new) : c.time = d.time => c.update_count = d.update_count
         /\ \A d \in view \cup new :
              (\A c \in view \cup new : c.time = d.time => c.update_count <= d.update_count)
              => d \in Merge(view, new)
<1>1. \A c \in view \cup new : c.update_count \in Nat
  BY DEF Candle
<1>. QED  BY <1>1 DEF Merge

(* More may be late. *)
LEMMA MoreLate ==
  ASSUME NEW n, NEW view, NEW held, NEW table, NEW late, ViewGood(n, view, held, table, late),
         NEW late2, late \subseteq late2
  PROVE  ViewGood(n, view, held, table, late2)
BY DEF ViewGood

(* A candle is put, and is late. *)
LEMMA PutView ==
  ASSUME NEW n, NEW view, NEW held, NEW table, NEW late, ViewGood(n, view, held, table, late), late = {},
         NEW new \in Candle, NEW table2, table2 = (table \ At(table, new.time)) \cup {new},
         \A c \in At(table, new.time) : new.update_count = c.update_count + 1,
         table \subseteq Candle,
         Top(table2, CandleHistory) \subseteq Top(table, CandleHistory) \cup {new},
         NEW late2, new \in late2
  PROVE  ViewGood(n, view, held, table2, late2)
<1>1. ASSUME NEW c \in held
      PROVE  \E d \in table2 : /\ d.time = c.time /\ c.update_count <= d.update_count
                               /\ (c.update_count = d.update_count => c = d)
                               /\ d \in held \cup late2
  <2>1. PICK d \in table : /\ d.time = c.time /\ c.update_count <= d.update_count
                           /\ (c.update_count = d.update_count => c = d)
                           /\ d \in held \cup {}
    BY DEF ViewGood
  <2>2. CASE d.time = new.time
    <3>1. new.update_count = d.update_count + 1  BY <2>1, <2>2 DEF At
    <3>2. c.update_count \in Nat /\ d.update_count \in Nat  BY <2>1 DEF ViewGood, Candle
    <3>3. new \in table2 /\ new.time = c.time /\ c.update_count < new.update_count
      BY <2>1, <2>2, <3>1, <3>2
    <3>. QED  BY <3>2, <3>3 DEF Candle
  <2>3. CASE d.time # new.time
    <3>1. d \in table2  BY <2>1, <2>3 DEF At
    <3>. QED  BY <2>1, <3>1
  <2>. QED  BY <2>2, <2>3
<1>2. n >= 3 => Top(table2, CandleHistory) \subseteq held \cup late2
  BY DEF ViewGood
<1>. QED  BY <1>1, <1>2 DEF ViewGood

(* What is sent to the client is merged into its view; what of it is       *)
(* current stays.                                                          *)
LEMMA MergedView ==
  ASSUME NEW n, NEW view, NEW held, NEW table, NEW late, GoodTable(table),
         ViewGood(n, view, held, table, late), n # 1,
         NEW new, NEW read, NEW late2,
         held \cup late \subseteq (view \cup new) \cup read \cup late2,
         view \cup new \cup read \subseteq held \cup table,
         NEW m, m # 1, m >= 3 => n >= 3
  PROVE  ViewGood(m, Merge(view, new), Merge(view, new) \cup read, table, late2)
<1>. DEFINE kept == Merge(view, new)
            Current(c, d) == /\ d.time = c.time /\ c.update_count <= d.update_count
                             /\ (c.update_count = d.update_count => c = d)
<1>1. \A c \in view \cup new \cup read : c \in Candle
  BY DEF ViewGood, GoodTable
<1>2. /\ kept \subseteq view \cup new
      /\ \A c, d \in kept : c.time = d.time => c.update_count = d.update_count
      /\ \A d \in view \cup new :
           (\A c \in view \cup new : c.time = d.time => c.update_count <= d.update_count) => d \in kept
  BY <1>1, MergeKeeps
<1>. HIDE DEF kept
<1>3. ASSUME NEW c \in held \cup table PROVE \E d \in table : Current(c, d)
  <2>1. CASE c \in held  BY <2>1 DEF ViewGood
  <2>2. CASE c \in table
    <3>1. c.update_count \in Nat  BY <2>2 DEF GoodTable, Candle
    <3>. QED  BY <2>2, <3>1
  <2>. QED  BY <2>1, <2>2
<1>4. ASSUME NEW d \in table, d \in view \cup new PROVE d \in kept
  <2>1. ASSUME NEW c \in view \cup new, c.time = d.time PROVE c.update_count <= d.update_count
    <3>1. PICK e \in table : Current(c, e)  BY <1>3
    <3>2. e = d  BY <2>1, <3>1 DEF GoodTable
    <3>. QED  BY <3>1, <3>2
  <2>. QED  BY <1>2, <1>4, <2>1
<1>5. ASSUME NEW d \in table, d \in held \cup late PROVE d \in kept \cup read \cup late2
  BY <1>4, <1>5
<1>6. ASSUME NEW c \in kept \cup read
      PROVE  \E d \in table : Current(c, d) /\ d \in kept \cup read \cup late2
  <2>1. CASE c \in held
    <3>1. PICK d \in table : Current(c, d) /\ d \in held \cup late  BY <2>1 DEF ViewGood
    <3>. QED  BY <1>5, <3>1
  <2>2. CASE c \in table
    <3>1. Current(c, c)
      <4>1. c.update_count \in Nat  BY <2>2 DEF GoodTable, Candle
      <4>. QED  BY <4>1
    <3>2. c \in kept \cup read  BY <1>6
    <3>. QED  BY <2>2, <3>1, <3>2
  <2>. QED  BY <1>2, <1>6, <2>1, <2>2
<1>7. m >= 3 => Top(table, CandleHistory) \subseteq kept \cup read \cup late2
  <2>. SUFFICES ASSUME m >= 3, NEW d \in Top(table, CandleHistory) PROVE d \in kept \cup read \cup late2
    OBVIOUS
  <2>1. d \in held \cup late  BY DEF ViewGood
  <2>2. d \in table  BY TopAre, QueriesAssumption
  <2>. QED  BY <1>5, <2>1, <2>2
<1>. QED  BY <1>1, <1>2, <1>6, <1>7 DEF ViewGood, kept

(* The history is read. *)
LEMMA ReadView ==
  ASSUME NEW view, NEW table, NEW late, GoodTable(table), ViewGood(2, view, view, table, late)
  PROVE  ViewGood(3, view, view \cup Top(table, CandleHistory), table, late)
<1>. DEFINE read == Top(table, CandleHistory)
<1>1. \A c \in read : c \in table /\ c \in Candle /\ c.update_count \in Nat
  BY TopAre, QueriesAssumption DEF GoodTable, Candle
<1>. HIDE DEF read
<1>. QED  BY <1>1 DEF ViewGood, read

-----------------------------------------------------------------------------
(* What the client has heard *)

Heard(n) == sub.seen \cup (IF n = 5 THEN sub.read ELSE {})
Announcing == IF DueIn(todo, <<"announce", "event">>) THEN {Row(now)} ELSE {}

(* The events seen or about to be sent, and the one about to be announced, *)
(* are the newest ones once the history is read.                           *)
SeenGood(n, heard, rows, announcing) ==
  /\ heard \subseteq Nat \X (1..MaxEvents)
  /\ n >= 5 => FirstRows(rows, EventHistory) \subseteq heard \cup announcing
SeenInv(n) == SeenGood(n, Heard(n), trades, Announcing)

SubInv == sub = NoSub \/ \E n \in 1..7 : Stage(n) /\ ViewInv(n) /\ SeenInv(n)

LEMMA MoreAnnounced ==
  ASSUME NEW n, NEW heard, NEW rows, NEW announcing, SeenGood(n, heard, rows, announcing),
         NEW announcing2, announcing \subseteq announcing2
  PROVE  SeenGood(n, heard, rows, announcing2)
BY DEF SeenGood

(* The event listing's rows can be sorted: their ids differ.               *)
LEMMA RowsSortable ==
  ASSUME NEW rows, rows \subseteq Nat \X (1..MaxEvents), IsFiniteSet(rows)
  PROVE  Sortable(rows) /\ FirstRows(rows, EventHistory) \subseteq rows
<1>1. \A p \in rows : p[1] \in Nat /\ p[2] \in Nat /\ p = <<p[1], p[2]>>
  <2>1. \A p \in Nat \X (1..MaxEvents) : p[1] \in Nat /\ p[2] \in Nat /\ p = <<p[1], p[2]>>
    BY HandlerAssumption
  <2>. QED  BY <2>1
<1>2. \A p \in rows : p[1] \in Nat
  BY <1>1
<1>3. \A p, q \in rows : p # q /\ p[1] = q[1] => p[2] \in Nat /\ q[2] \in Nat /\ p[2] # q[2]
  BY <1>1
<1>4. Sortable(rows)
  BY <1>2, <1>3 DEF Sortable
<1>5. EventHistory \in Nat
  BY QueriesAssumption
<1>6. FirstRows(rows, EventHistory) = {x \in rows : Rank(rows, x, ByValue(rows, TRUE)) < EventHistory}
  BY <1>4, <1>5, FirstRowsAre
<1>. QED  BY <1>4, <1>6

LEMMA RowNow ==
  ASSUME HandlerInv, todo # <<>>
  PROVE  Row(now) \in Nat \X (1..MaxEvents)
<1>1. now.slot \in Nat /\ now.id \in 0..MaxEvents /\ now.id # 0
  BY DEF HandlerInv, HandlerTypeOK, InHand, Event
<1>2. now.id \in 1..MaxEvents
  BY <1>1, HandlerAssumption
<1>. QED  BY <1>1, <1>2 DEF Row

LEMMA StoreSeen ==
  ASSUME HandlerInv, TablesFinite, HandlerInv', TablesFinite', trades' = trades \cup {Row(now)},
         NEW n, NEW heard, NEW announcing, SeenGood(n, heard, trades, announcing)
  PROVE  SeenGood(n, heard, trades', announcing \cup {Row(now)})
<1>. DEFINE T == trades \cup {Row(now)}
            S == trades
<1>1. Sortable(T) /\ FirstRows(T, EventHistory) \subseteq T
  <2>1. T \subseteq Nat \X (1..MaxEvents) /\ IsFiniteSet(T)
    BY DEF HandlerInv, HandlerTypeOK, TablesFinite
  <2>. HIDE DEF T
  <2>. QED  BY <2>1, RowsSortable
<1>2. FirstRows(T, EventHistory) \cap S \subseteq FirstRows(S, EventHistory)
  <2>1. S \in SUBSET T /\ EventHistory \in Nat  BY QueriesAssumption
  <2>. HIDE DEF S, T
  <2>. QED  BY <1>1, <2>1, FirstRowsOfMore
<1>. QED  BY <1>1, <1>2 DEF SeenGood

-----------------------------------------------------------------------------
(* The subscriber and the handler *)

(* What the handler has still to do, after a step that does the next task. *)
LEMMA Due ==
  ASSUME HandlerInv, todo # <<>>, todo' = Tail(todo)
  PROVE  /\ Head(todo) \in Item /\ DueIn(todo, Head(todo))
         /\ \A x : DueIn(todo', x) => DueIn(todo, x)
         /\ \A x : DueIn(todo, x) /\ x # Head(todo) => DueIn(todo', x)
         /\ \A i \in Intervals : Head(todo) = <<"put", i>> =>
              ~DueIn(todo', <<"put", i>>) /\ DueIn(todo', <<"push", i>>)
         /\ Head(todo)[1] = "store" => DueIn(todo', <<"announce", "event">>)
<1>1. todo \in Seq(Item)
  <2>1. \E w \in {Long, Stores} : todo \in Rests(w)  BY DEF HandlerInv, HandlerTypeOK, Rests, Long
  <2>. QED  BY <2>1, WorkIs, RestsAre
<1>2. 1 \in 1..Len(todo) /\ todo[1] = Head(todo)
  BY <1>1
<1>3. DueIn(todo, Head(todo))
  BY <1>2 DEF DueIn
<1>4. HandlerTypeOK
  BY DEF HandlerInv
<1>. QED  BY <1>3, <1>4, TasksInOrder

(* A put that fails leaves the event to be stored, announced and pushed.   *)
LEMMA LeftByFailure ==
  LET left == Stores \o Pushes
  IN /\ DueIn(left, <<"announce", "event">>)
     /\ \A i \in Intervals : DueIn(left, <<"push", i>>) /\ ~DueIn(left, <<"put", i>>)
<1>1. Stores \in Seq(Item) /\ Pushes \in Seq(Item) /\ Len(Stores) = 2 /\ Len(Pushes) = 3
      /\ Stores[1] = <<"store", "batch">> /\ Stores[2] = <<"announce", "event">>
      /\ \A n \in 1..3 : Pushes[n] = <<"push", Order[n]>>
  BY TasksAre
<1>. DEFINE left == Stores \o Pushes
<1>2. /\ left \in Seq(Item) /\ Len(left) = Len(Stores) + Len(Pushes)
      /\ \A n \in 1..Len(Stores) : left[n] = Stores[n]
      /\ \A n \in 1..Len(Pushes) : left[Len(Stores) + n] = Pushes[n]
  <2>1. PICK a \in Seq(Item), b \in Seq(Item) : a = Stores /\ b = Pushes  BY <1>1
  <2>2. /\ a \o b \in Seq(Item) /\ Len(a \o b) = Len(a) + Len(b)
        /\ \A n \in 1..Len(a) : (a \o b)[n] = a[n]
        /\ \A n \in 1..Len(b) : (a \o b)[Len(a) + n] = b[n]
    BY Joined
  <2>. QED  BY <2>1, <2>2
<1>. HIDE DEF left
<1>3. Len(left) = 5 /\ left[1] = <<"store", "batch">> /\ left[2] = <<"announce", "event">>
      /\ \A n \in 1..3 : left[2 + n] = <<"push", Order[n]>>
  BY <1>1, <1>2
<1>4. \A k \in 1..5 : k = 1 \/ k = 2 \/ (k - 2 \in 1..3 /\ k = 2 + (k - 2))
  OBVIOUS
<1>5. \A i \in Intervals : \E n \in 1..3 : Order[n] = i
  BY DEF Order, Intervals
<1>6. ASSUME NEW i \in Intervals PROVE DueIn(left, <<"push", i>>)
  <2>1. PICK n \in 1..3 : Order[n] = i  BY <1>5
  <2>2. 2 + n \in 1..5 /\ left[2 + n] = <<"push", i>>  BY <1>3, <2>1
  <2>. QED  BY <1>3, <2>2 DEF DueIn
<1>7. ASSUME NEW i \in Intervals, NEW k \in 1..5, left[k] = <<"put", i>> PROVE FALSE
  BY <1>3, <1>4, <1>7
<1>8. DueIn(left, <<"announce", "event">>)
  BY <1>3 DEF DueIn
<1>. QED  BY <1>3, <1>6, <1>7, <1>8 DEF left, DueIn

LEMMA NothingDue == ASSUME todo = <<>>, NEW x PROVE ~DueIn(todo, x)
BY DEF DueIn

(* A step that leaves the subscription, its table and the listing alone,   *)
(* and what is late or to be announced if it was.                          *)
LEMMA SameForSubscriber ==
  ASSUME SubInv, UNCHANGED <<sub, trades>>, sub # NoSub => Table1' = Table1,
         sub # NoSub => (Behind => Behind'), Announcing \subseteq Announcing'
  PROVE  SubInv'
<1>. SUFFICES ASSUME sub # NoSub, NEW n \in 1..7, Stage(n), ViewInv(n), SeenInv(n)
              PROVE  Stage(n)' /\ ViewInv(n)' /\ SeenInv(n)'
  BY DEF SubInv
<1>1. Stage(n)'
  BY DEF Stage
<1>2. Held(n)' = Held(n) /\ Heard(n)' = Heard(n) /\ sub.view' = sub.view
  BY DEF Held, Heard
<1>3. Late \subseteq Late'
  BY DEF Late
<1>4. ViewInv(n)'
  BY <1>2, <1>3, MoreLate DEF ViewInv
<1>5. SeenInv(n)'
  BY <1>2, MoreAnnounced DEF SeenInv
<1>. QED  BY <1>1, <1>4, <1>5

(* The steps of the handler that do not meet the subscriber.               *)
LEMMA WriteForSubscriber ==
  ASSUME HandlerInv, TablesFinite, SubInv, Write, UNCHANGED sub
  PROVE  SubInv'
<1>. USE DEF tables
<1>1. HandlerInv' /\ TablesFinite'
  BY HandlerStep, FiniteStep
<1>2. ASSUME todo = <<>>, UNCHANGED tables PROVE SubInv'
  <2>1. ~Behind /\ Announcing = {}
    BY <1>2, NothingDue DEF Behind, Announcing
  <2>. QED  BY <1>2, <2>1, SameForSubscriber DEF Table1
<1>3. CASE Put
  <2>1. PICK i \in Intervals, new \in Candle :
           /\ Head(todo) = <<"put", i>> /\ UNCHANGED <<trades, now>>
           /\ \A j \in Intervals : j # i => candles'[j] = candles[j]
           /\ candles'[i] = (candles[i] \ At(candles[i], new.time)) \cup {new}
           /\ \A c \in candles[i] : c.time <= new.time
           /\ \A c \in At(candles[i], new.time) : new.update_count = c.update_count + 1
           /\ \A limit \in Nat : Top(candles'[i], limit) \subseteq Top(candles[i], limit) \cup {new}
    BY <1>3, PutDoes
  <2>2. todo # <<>> /\ todo' = Tail(todo)
    BY <1>3 DEF Put, Next1
  <2>3. Announcing \subseteq Announcing'
    BY <2>1, <2>2, Due DEF Announcing, Row
  <2>4. ASSUME sub # NoSub, sub.interval \in Intervals, sub.interval # i
        PROVE  Table1' = Table1 /\ (Behind => Behind')
    BY <2>1, <2>2, <2>4, Due DEF Table1, Behind
  <2>5. CASE sub = NoSub
    BY <2>5 DEF SubInv
  <2>6. CASE sub # NoSub
    <3>1. PICK n \in 1..7 : Stage(n) /\ ViewInv(n) /\ SeenInv(n)  BY <2>6 DEF SubInv
    <3>2. sub.interval \in Intervals  BY <3>1 DEF Stage
    <3>3. CASE sub.interval # i
      BY <2>1, <2>3, <2>4, <2>6, <3>2, <3>3, SameForSubscriber
    <3>4. CASE sub.interval = i
      <4>1. ~Behind /\ Behind'
        BY <2>1, <2>2, <3>4, Due DEF Behind
      <4>2. Late = {} /\ new \in Late'
        <5>1. \A c \in Table1' : c.time <= new.time
          <6>1. new.time <= new.time  BY DEF Candle
          <6>. QED  BY <2>1, <3>4, <6>1 DEF Table1
        <5>2. new \in Table1'  BY <2>1, <3>4 DEF Table1
        <5>. QED  BY <4>1, <5>1, <5>2 DEF Late
      <4>3. /\ Table1 \subseteq Candle /\ Table1' = (Table1 \ At(Table1, new.time)) \cup {new}
            /\ \A c \in At(Table1, new.time) : new.update_count = c.update_count + 1
            /\ Top(Table1', CandleHistory) \subseteq Top(Table1, CandleHistory) \cup {new}
        <5>1. candles[i] \subseteq Candle  BY DEF HandlerInv, HandlerTypeOK
        <5>2. CandleHistory \in Nat  BY QueriesAssumption
        <5>3. Top(candles'[i], CandleHistory) \subseteq Top(candles[i], CandleHistory) \cup {new}
          BY <2>1, <5>2
        <5>4. Table1 = candles[i] /\ Table1' = candles'[i]  BY <3>4 DEF Table1
        <5>. QED  BY <2>1, <5>1, <5>3, <5>4
      <4>4. ViewGood(n, sub.view, Held(n), Table1, Late)
        BY <3>1 DEF ViewInv
      <4>5. ViewGood(n, sub.view, Held(n), Table1', Late')
        BY <4>2, <4>3, <4>4, PutView
      <4>6. Held(n)' = Held(n) /\ Heard(n)' = Heard(n) /\ sub.view' = sub.view
        BY DEF Held, Heard
      <4>7. Stage(n)' /\ ViewInv(n)'
        BY <3>1, <4>5, <4>6 DEF Stage, ViewInv
      <4>8. SeenInv(n)'
        BY <2>1, <2>3, <3>1, <4>6, MoreAnnounced DEF SeenInv
      <4>. QED  BY <4>7, <4>8 DEF SubInv
    <3>. QED  BY <3>3, <3>4
  <2>. QED  BY <2>5, <2>6
<1>4. CASE PutFails
  <2>1. todo' = Stores \o Pushes /\ UNCHANGED <<candles, trades, now>>
    BY <1>4 DEF PutFails
  <2>2. Announcing \subseteq Announcing'
    BY <2>1, LeftByFailure DEF Announcing, Row
  <2>3. ASSUME sub # NoSub PROVE Table1' = Table1 /\ Behind'
    <3>1. sub.interval \in Intervals  BY <2>3 DEF SubInv, Stage
    <3>. QED  BY <2>1, <3>1, LeftByFailure DEF Behind, Table1
  <2>. QED  BY <2>1, <2>2, <2>3, SameForSubscriber
<1>5. ASSUME todo # <<>>, Head(todo)[1] = "store", todo' = Tail(todo), UNCHANGED <<candles, now>>
      PROVE  /\ sub # NoSub => Table1' = Table1 /\ (Behind => Behind')
             /\ Announcing' = {Row(now)} /\ Announcing \subseteq Announcing'
  <2>1. \A i : Head(todo) # <<"push", i>>
    BY <1>5
  <2>2. sub # NoSub => Table1' = Table1 /\ (Behind => Behind')
    BY <1>5, <2>1, Due DEF Table1, Behind
  <2>3. Announcing' = {Row(now)}
    BY <1>5, Due DEF Announcing, Row
  <2>. QED  BY <2>2, <2>3 DEF Announcing
<1>6. CASE StoreFails
  <2>1. /\ todo # <<>> /\ Head(todo)[1] = "store" /\ todo' = Tail(todo)
        /\ UNCHANGED <<candles, now, trades>>
    BY <1>6 DEF StoreFails, Next1
  <2>. QED  BY <1>5, <2>1, SameForSubscriber
<1>7. CASE Store
  <2>1. /\ todo # <<>> /\ Head(todo)[1] = "store" /\ todo' = Tail(todo)
        /\ UNCHANGED <<candles, now>> /\ trades' = trades \cup {Row(now)}
    BY <1>7 DEF Store, Next1
  <2>2. CASE sub = NoSub
    BY <2>2 DEF SubInv
  <2>3. CASE sub # NoSub
    <3>1. PICK n \in 1..7 : Stage(n) /\ ViewInv(n) /\ SeenInv(n)  BY <2>3 DEF SubInv
    <3>2. Table1' = Table1 /\ (Behind => Behind') /\ Announcing' = {Row(now)}
          /\ Announcing \cup {Row(now)} = Announcing'
      BY <1>5, <2>1, <2>3
    <3>3. Held(n)' = Held(n) /\ Heard(n)' = Heard(n) /\ sub.view' = sub.view /\ Late \subseteq Late'
      BY <3>2 DEF Held, Heard, Late
    <3>4. Stage(n)' /\ ViewInv(n)'
      BY <3>1, <3>2, <3>3, MoreLate DEF Stage, ViewInv
    <3>5. SeenGood(n, Heard(n), trades', Announcing \cup {Row(now)})
      BY <1>1, <2>1, <3>1, StoreSeen DEF SeenInv
    <3>6. SeenInv(n)'
      BY <3>2, <3>3, <3>5 DEF SeenInv
    <3>. QED  BY <3>4, <3>6 DEF SubInv
  <2>. QED  BY <2>2, <2>3
<1>. QED
  BY <1>2, <1>3, <1>4, <1>6, <1>7 DEF Write, OpenOrder, Swap, CloseOrder, CreateMint, Handle

(* The announcement and the push reach a subscriber that is in the room.   *)
LEMMA AnnounceForSubscriber ==
  ASSUME HandlerInv, SubInv, AnnounceToRoom
  PROVE  SubInv'
<1>1. /\ todo # <<>> /\ Head(todo)[1] = "announce" /\ todo' = Tail(todo)
      /\ UNCHANGED <<candles, now, trades>>
      /\ sub' = IF Hears THEN [sub EXCEPT !.seen = @ \cup {Row(now)}] ELSE sub
  BY DEF AnnounceToRoom, Announce, Next1, tables
<1>2. CASE sub = NoSub
  BY <1>1, <1>2 DEF SubInv, Hears
<1>3. CASE sub # NoSub
  <2>1. PICK n \in 1..7 : Stage(n) /\ ViewInv(n) /\ SeenInv(n)  BY <1>3 DEF SubInv
  <2>2. /\ sub'.view = sub.view /\ sub'.read = sub.read /\ sub'.interval = sub.interval
        /\ sub'.phase = sub.phase /\ sub'.steps = sub.steps /\ sub'.joined = sub.joined
        /\ sub' = [phase |-> sub'.phase, interval |-> sub'.interval, steps |-> sub'.steps,
                   joined |-> sub'.joined, read |-> sub'.read, view |-> sub'.view, seen |-> sub'.seen]
        /\ sub'.seen = IF Hears THEN sub.seen \cup {Row(now)} ELSE sub.seen
    BY <1>1, <2>1 DEF Stage
  <2>3. Stage(n)'
    BY <2>1, <2>2 DEF Stage
  <2>4. Table1' = Table1 /\ (Behind => Behind')
    <3>1. \A i : Head(todo) # <<"push", i>>  BY <1>1
    <3>. QED  BY <1>1, <2>2, <3>1, Due DEF Table1, Behind
  <2>5. Held(n)' = Held(n) /\ Late \subseteq Late'
    BY <2>2, <2>4 DEF Held, Late
  <2>6. ViewInv(n)'
    BY <2>1, <2>2, <2>4, <2>5, MoreLate DEF ViewInv
  <2>7. Heard(n)' = IF Hears THEN Heard(n) \cup {Row(now)} ELSE Heard(n)
    BY <2>2 DEF Heard
  <2>8. n # 1 => Hears
    BY <1>3, <2>1 DEF Hears, Stage
  <2>9. SeenInv(n)'
    <3>1. Row(now) \in Nat \X (1..MaxEvents)  BY <1>1, RowNow
    <3>2. Announcing \subseteq {Row(now)}  BY DEF Announcing
    <3>3. Heard(n)' \subseteq Nat \X (1..MaxEvents)  BY <2>1, <2>7, <3>1 DEF SeenInv, SeenGood
    <3>4. n >= 5 => FirstRows(trades, EventHistory) \subseteq Heard(n)'
      <4>1. n >= 5 => Hears  BY <2>8
      <4>. QED  BY <2>1, <2>7, <3>2, <4>1 DEF SeenInv, SeenGood
    <3>. QED  BY <1>1, <3>3, <3>4 DEF SeenInv, SeenGood
  <2>. QED  BY <2>3, <2>6, <2>9 DEF SubInv
<1>. QED  BY <1>2, <1>3

(* Nothing is held yet. *)
LEMMA NoView ==
  ASSUME NEW n \in 1..2, NEW table, NEW late
  PROVE  ViewGood(n, {}, {}, table, late)
BY DEF ViewGood

LEMMA PushForSubscriber ==
  ASSUME HandlerInv, TablesFinite, SubInv, PushToRoom
  PROVE  SubInv'
<1>1. /\ todo # <<>> /\ Head(todo)[1] = "push" /\ todo' = Tail(todo)
      /\ UNCHANGED <<candles, now, trades>>
      /\ sub' = IF Hears /\ sub.interval = Head(todo)[2]
                THEN [sub EXCEPT !.view = Merge(@, Pushed)] ELSE sub
  BY DEF PushToRoom, Push, Next1, tables
<1>2. Announcing \subseteq Announcing'
  <2>1. Head(todo) # <<"announce", "event">>  BY <1>1
  <2>. QED  BY <1>1, <2>1, Due DEF Announcing
<1>3. CASE sub = NoSub
  BY <1>1, <1>3 DEF SubInv, Hears
<1>4. CASE sub # NoSub
  <2>1. PICK n \in 1..7 : Stage(n) /\ ViewInv(n) /\ SeenInv(n)  BY <1>4 DEF SubInv
  <2>2. CASE sub.interval # Head(todo)[2]
    <3>1. sub' = sub  BY <1>1, <2>2
    <3>2. Head(todo) # <<"push", sub.interval>>  BY <2>2
    <3>3. Table1' = Table1 /\ (Behind => Behind')  BY <1>1, <3>1, <3>2, Due DEF Table1, Behind
    <3>. QED  BY <1>1, <1>2, <3>1, <3>3, SameForSubscriber
  <2>3. CASE sub.interval = Head(todo)[2] /\ ~Hears
    <3>1. sub' = sub /\ n = 1  BY <1>1, <1>4, <2>1, <2>3 DEF Hears, Stage
    <3>2. sub.view = {} /\ Held(1) = {}  BY <2>1, <3>1 DEF ViewInv, ViewGood, Held
    <3>3. ViewInv(1)'
      <4>1. sub.view' = {} /\ Held(1)' = {}  BY <3>1, <3>2 DEF Held
      <4>. QED  BY <4>1, NoView DEF ViewInv
    <3>4. Stage(n)' /\ SeenInv(n)'
      <4>1. Heard(n)' = Heard(n)  BY <3>1 DEF Heard
      <4>. QED  BY <1>1, <1>2, <2>1, <3>1, <4>1, MoreAnnounced DEF Stage, SeenInv
    <3>. QED  BY <3>1, <3>3, <3>4 DEF SubInv
  <2>4. CASE sub.interval = Head(todo)[2] /\ Hears
    <3>. DEFINE read == IF n = 3 THEN sub.read ELSE {}
    <3>1. sub.interval \in Intervals /\ n # 1
      BY <2>1, <2>4 DEF Stage, Hears
    <3>2. GoodTable(Table1)
      BY <3>1, TablesGood DEF Table1
    <3>3. Pushed = Top(Table1, 1)
      BY <2>4 DEF Pushed, Latest, CandleRows, Top, RowsOf, Table1
    <3>4. Pushed \subseteq Table1 /\ Late \subseteq Pushed
      BY <3>2, <3>3, NewestIsTop DEF Late
    <3>5. /\ sub'.view = Merge(sub.view, Pushed) /\ sub'.seen = sub.seen
          /\ sub'.read = sub.read /\ sub'.interval = sub.interval
          /\ sub'.phase = sub.phase /\ sub'.steps = sub.steps /\ sub'.joined = sub.joined
          /\ sub' = [phase |-> sub'.phase, interval |-> sub'.interval, steps |-> sub'.steps,
                     joined |-> sub'.joined, read |-> sub'.read, view |-> sub'.view, seen |-> sub'.seen]
      BY <1>1, <2>1, <2>4 DEF Stage
    <3>6. Stage(n)'
      BY <2>1, <3>5 DEF Stage
    <3>7. Held(n) = sub.view \cup read /\ Held(n)' = Merge(sub.view, Pushed) \cup read
          /\ Table1' = Table1 /\ Heard(n)' = Heard(n)
      BY <1>1, <3>5 DEF Held, Table1, Heard
    <3>. HIDE DEF read
    <3>8. ViewGood(n, Merge(sub.view, Pushed), Merge(sub.view, Pushed) \cup read, Table1, Late')
      <4>1. ViewGood(n, sub.view, Held(n), Table1, Late)  BY <2>1 DEF ViewInv
      <4>2. Held(n) \cup Late \subseteq (sub.view \cup Pushed) \cup read \cup Late'
            /\ sub.view \cup Pushed \cup read \subseteq Held(n) \cup Table1
        BY <3>4, <3>7
      <4>. QED  BY <3>1, <3>2, <4>1, <4>2, MergedView
    <3>9. ViewInv(n)' /\ SeenInv(n)'
      BY <1>1, <1>2, <2>1, <3>5, <3>7, <3>8, MoreAnnounced DEF ViewInv, SeenInv
    <3>. QED  BY <3>6, <3>9 DEF SubInv
  <2>. QED  BY <2>2, <2>3, <2>4
<1>. QED  BY <1>3, <1>4

(* The subscription's own steps. *)
LEMMA LaterStage ==
  ASSUME NEW n \in 3..7, NEW m \in 3..7, NEW view, NEW held, NEW table, NEW late,
         ViewGood(n, view, held, table, late)
  PROVE  ViewGood(m, view, held, table, late)
BY DEF ViewGood

LEMMA TaskForSubscriber ==
  ASSUME HandlerInv, TablesFinite, SubInv,
         \/ \E i \in Rooms : Subscribe(i)
         \/ Join \/ ReadCandles \/ SendCandles \/ ReadEvents \/ SendEvents \/ Confirm
  PROVE  SubInv'
<1>. USE DEF handlerVars, tables
<1>1. ASSUME NEW i \in Rooms, Subscribe(i) PROVE SubInv'
  <2>1. sub' = [phase |-> "opening", interval |-> i, steps |-> SubscribeSteps,
                joined |-> FALSE, read |-> {}, view |-> {}, seen |-> {}]
    BY <1>1 DEF Subscribe
  <2>2. Stage(1)'
    BY <2>1, StepsFromAre, QueriesAssumption DEF Stage
  <2>3. ViewInv(1)'
    <3>1. sub'.view = {} /\ Held(1)' = {}  BY <2>1 DEF Held
    <3>. QED  BY <3>1, NoView DEF ViewInv
  <2>4. SeenInv(1)'
    <3>1. Heard(1)' = {}  BY <2>1 DEF Heard
    <3>. QED  BY <3>1 DEF SeenInv, SeenGood
  <2>. QED  BY <2>2, <2>3, <2>4 DEF SubInv
<1>2. ASSUME Join \/ ReadCandles \/ SendCandles \/ ReadEvents \/ SendEvents \/ Confirm PROVE SubInv'
  <2>1. sub # NoSub
    BY <1>2 DEF Join, ReadCandles, SendCandles, ReadEvents, SendEvents, Confirm, SubStep, NoSub
  <2>2. PICK n \in 1..7 : Stage(n) /\ ViewInv(n) /\ SeenInv(n)
    BY <2>1 DEF SubInv
  <2>3. UNCHANGED handlerVars
    BY <1>2 DEF Join, ReadCandles, SendCandles, ReadEvents, SendEvents, Confirm, SubStep
  <2>. DEFINE Fields == sub' = [phase |-> sub'.phase, interval |-> sub'.interval, steps |-> sub'.steps,
                                joined |-> sub'.joined, read |-> sub'.read, view |-> sub'.view,
                                seen |-> sub'.seen]
  <2>4. ASSUME UNCHANGED sub.interval
        PROVE  Table1' = Table1 /\ Late' = Late /\ trades' = trades /\ Announcing' = Announcing
    <3>1. Table1' = Table1 /\ (Behind' <=> Behind)  BY <2>3, <2>4 DEF Table1, Behind
    <3>. QED  BY <2>3, <3>1 DEF Late, Announcing
  <2>5. GoodTable(Table1)
    BY <2>2, TablesGood DEF Table1, Stage
  <2>6. CASE Join
    <3>1. n = 1 /\ Rest = StepsFrom(2) /\ sub.phase = "opening"
      BY <2>2, <2>6, StepTells, StepNumber DEF Join, SubStep
    <3>2. /\ Fields /\ UNCHANGED <<sub.interval, sub.phase, sub.view, sub.seen>>
          /\ sub'.joined = TRUE /\ sub'.steps = Rest
      BY <2>2, <2>6 DEF Join, Stage
    <3>3. Stage(2)'
      BY <2>2, <3>1, <3>2 DEF Stage
    <3>4. ViewInv(2)'
      <4>1. sub'.view = {} /\ Held(2)' = {}
        BY <2>2, <3>1, <3>2 DEF Held, ViewInv, ViewGood
      <4>. QED  BY <4>1, NoView DEF ViewInv
    <3>5. SeenInv(2)'
      <4>1. Heard(2)' = Heard(1)  BY <3>2 DEF Heard
      <4>. QED  BY <2>2, <3>1, <4>1 DEF SeenInv, SeenGood
    <3>. QED  BY <3>3, <3>4, <3>5 DEF SubInv
  <2>7. CASE ReadCandles
    <3>1. n = 2 /\ Rest = StepsFrom(3) /\ sub.phase = "opening"
      BY <2>2, <2>7, StepTells, StepNumber DEF ReadCandles, SubStep
    <3>2. /\ Fields /\ UNCHANGED <<sub.interval, sub.phase, sub.view, sub.seen>>
          /\ sub'.joined = TRUE /\ sub'.steps = Rest /\ sub'.read = Top(Table1, CandleHistory)
      BY <2>2, <2>7, <3>1 DEF ReadCandles, Stage, Top, RowsOf, CandleRows, Table1
    <3>3. /\ Stage(3)' /\ Table1' = Table1 /\ Late' = Late /\ trades' = trades
          /\ Announcing' = Announcing
      <4>1. Stage(3)'  BY <2>2, <3>1, <3>2 DEF Stage
      <4>. QED  BY <2>4, <3>2, <4>1
    <3>4. ViewInv(3)'
      <4>1. Held(2) = sub.view /\ Held(3)' = sub.view \cup Top(Table1, CandleHistory)
        BY <3>2 DEF Held
      <4>2. ViewGood(2, sub.view, sub.view, Table1, Late)
        BY <2>2, <3>1, <4>1 DEF ViewInv
      <4>3. ViewGood(3, sub.view, sub.view \cup Top(Table1, CandleHistory), Table1, Late)
        BY <2>5, <4>2, ReadView
      <4>. QED  BY <3>2, <3>3, <4>1, <4>3 DEF ViewInv
    <3>5. SeenInv(3)'
      <4>1. Heard(3)' = Heard(2)  BY <3>2 DEF Heard
      <4>. QED  BY <2>2, <3>1, <4>1 DEF SeenInv, SeenGood
    <3>. QED  BY <3>3, <3>4, <3>5 DEF SubInv
  <2>8. CASE SendCandles
    <3>1. n = 3 /\ Rest = StepsFrom(4) /\ sub.phase = "opening"
      BY <2>2, <2>8, StepTells, StepNumber DEF SendCandles, SubStep
    <3>2. /\ Fields /\ UNCHANGED <<sub.interval, sub.phase, sub.seen>>
          /\ sub'.joined = TRUE /\ sub'.steps = Rest /\ sub'.view = Merge(sub.view, sub.read)
      BY <2>2, <2>8, <3>1 DEF SendCandles, Stage
    <3>3. /\ Stage(4)' /\ Table1' = Table1 /\ Late' = Late /\ trades' = trades
          /\ Announcing' = Announcing
      <4>1. Stage(4)'  BY <2>2, <3>1, <3>2 DEF Stage
      <4>. QED  BY <2>4, <3>2, <4>1
    <3>4. ViewInv(4)'
      <4>1. Held(3) = sub.view \cup sub.read /\ Held(4)' = Merge(sub.view, sub.read)
        BY <3>2 DEF Held
      <4>2. ViewGood(3, sub.view, Held(3), Table1, Late)
        BY <2>2, <3>1 DEF ViewInv
      <4>3. ViewGood(4, Merge(sub.view, sub.read), Merge(sub.view, sub.read) \cup {}, Table1, Late)
        <5>1. PICK none : none = {}  OBVIOUS
        <5>2. Held(3) \cup Late \subseteq (sub.view \cup sub.read) \cup none \cup Late
              /\ sub.view \cup sub.read \cup none \subseteq Held(3) \cup Table1
          BY <4>1, <5>1
        <5>3. PICK from, to : from = 3 /\ to = 4  OBVIOUS
        <5>4. ViewGood(from, sub.view, Held(3), Table1, Late) /\ from # 1 /\ to # 1 /\ (to >= 3 => from >= 3)
          BY <4>2, <5>3
        <5>5. ViewGood(to, Merge(sub.view, sub.read), Merge(sub.view, sub.read) \cup none, Table1, Late)
          BY <2>5, <5>2, <5>4, MergedView
        <5>. QED  BY <5>1, <5>3, <5>5
      <4>4. Merge(sub.view, sub.read) \cup {} = Held(4)'  BY <4>1
      <4>. QED  BY <3>2, <3>3, <4>3, <4>4 DEF ViewInv
    <3>5. SeenInv(4)'
      <4>1. Heard(4)' = Heard(3)  BY <3>2 DEF Heard
      <4>. QED  BY <2>2, <3>1, <4>1 DEF SeenInv, SeenGood
    <3>. QED  BY <3>3, <3>4, <3>5 DEF SubInv
  <2>9. CASE ReadEvents
    <3>1. n = 4 /\ Rest = StepsFrom(5) /\ sub.phase = "opening"
      BY <2>2, <2>9, StepTells, StepNumber DEF ReadEvents, SubStep
    <3>2. /\ Fields /\ UNCHANGED <<sub.interval, sub.phase, sub.view, sub.seen>>
          /\ sub'.joined = TRUE /\ sub'.steps = Rest /\ sub'.read = FirstRows(trades, EventHistory)
      BY <2>2, <2>9, <3>1 DEF ReadEvents, Stage
    <3>3. /\ Stage(5)' /\ Table1' = Table1 /\ Late' = Late /\ trades' = trades
          /\ Announcing' = Announcing
      <4>1. Stage(5)'  BY <2>2, <3>1, <3>2 DEF Stage
      <4>. QED  BY <2>4, <3>2, <4>1
    <3>4. ViewInv(5)'
      <4>1. Held(4) = sub.view /\ Held(5)' = sub.view  BY <3>2 DEF Held
      <4>. QED  BY <2>2, <3>1, <3>2, <3>3, <4>1, LaterStage DEF ViewInv
    <3>5. SeenInv(5)'
      <4>1. Heard(5)' = Heard(4) \cup FirstRows(trades, EventHistory)  BY <3>2 DEF Heard
      <4>2. FirstRows(trades, EventHistory) \subseteq Nat \X (1..MaxEvents)
        <5>1. trades \subseteq Nat \X (1..MaxEvents) /\ IsFiniteSet(trades)
          BY DEF HandlerInv, HandlerTypeOK, TablesFinite
        <5>. QED  BY <5>1, RowsSortable
      <4>. QED  BY <2>2, <3>1, <3>3, <4>1, <4>2 DEF SeenInv, SeenGood
    <3>. QED  BY <3>3, <3>4, <3>5 DEF SubInv
  <2>10. CASE SendEvents
    <3>1. n = 5 /\ Rest = StepsFrom(6) /\ sub.phase = "opening"
      BY <2>2, <2>10, StepTells, StepNumber DEF SendEvents, SubStep
    <3>2. /\ Fields /\ UNCHANGED <<sub.interval, sub.phase, sub.view>>
          /\ sub'.joined = TRUE /\ sub'.steps = Rest /\ sub'.seen = sub.seen \cup sub.read
      <4>1. sub' = [sub EXCEPT !.steps = Rest, !.seen = @ \cup sub.read, !.read = {}]
        BY <2>10 DEF SendEvents
      <4>2. sub.joined = TRUE  BY <2>2, <3>1 DEF Stage
      <4>3. Fields  BY <2>2, <4>1 DEF Stage
      <4>. QED  BY <2>2, <4>1, <4>2, <4>3 DEF Stage
    <3>3. /\ Stage(6)' /\ Table1' = Table1 /\ Late' = Late /\ trades' = trades
          /\ Announcing' = Announcing
      <4>1. Stage(6)'  BY <2>2, <3>1, <3>2 DEF Stage
      <4>. QED  BY <2>4, <3>2, <4>1
    <3>4. ViewInv(6)'
      <4>1. Held(5) = sub.view /\ Held(6)' = sub.view  BY <3>2 DEF Held
      <4>. QED  BY <2>2, <3>1, <3>2, <3>3, <4>1, LaterStage DEF ViewInv
    <3>5. SeenInv(6)'
      <4>1. Heard(6)' = Heard(5)  BY <3>2 DEF Heard
      <4>. QED  BY <2>2, <3>1, <3>3, <4>1 DEF SeenInv, SeenGood
    <3>. QED  BY <3>3, <3>4, <3>5 DEF SubInv
  <2>11. CASE Confirm
    <3>1. n = 6
      BY <2>2, <2>11, StepTells, StepNumber DEF Confirm
    <3>2. /\ Fields /\ UNCHANGED <<sub.interval, sub.view, sub.seen>>
          /\ sub'.joined = TRUE /\ sub'.steps = <<>> /\ sub'.phase = "live"
      <4>1. sub' = [sub EXCEPT !.phase = "live", !.steps = <<>>]
        BY <2>11 DEF Confirm
      <4>2. sub.joined = TRUE  BY <2>2, <3>1 DEF Stage
      <4>3. Fields  BY <2>2, <4>1 DEF Stage
      <4>. QED  BY <2>2, <4>1, <4>2, <4>3 DEF Stage
    <3>3. Table1' = Table1 /\ Late' = Late /\ trades' = trades /\ Announcing' = Announcing
      BY <2>4, <3>2
    <3>4. Stage(7)'
      BY <2>2, <3>2, StepsFromAre DEF Stage
    <3>5. ViewInv(7)'
      <4>1. Held(6) = sub.view /\ Held(7)' = sub.view  BY <3>2 DEF Held
      <4>. QED  BY <2>2, <3>1, <3>2, <3>3, <4>1, LaterStage DEF ViewInv
    <3>6. SeenInv(7)'
      <4>1. Heard(7)' = Heard(6)  BY <3>2 DEF Heard
      <4>. QED  BY <2>2, <3>1, <3>3, <4>1 DEF SeenInv, SeenGood
    <3>. QED  BY <3>4, <3>5, <3>6 DEF SubInv
  <2>. QED  BY <1>2, <2>6, <2>7, <2>8, <2>9, <2>10, <2>11
<1>. QED  BY <1>1, <1>2

LEMMA SubscriberAlways == Spec => []SubInv
<1>1. Init => SubInv
  BY DEF Init, SubInv
<1>2. ASSUME HandlerInv, TablesFinite, SubInv, [Next]_vars PROVE SubInv'
  <2>1. CASE WriteAside
    BY <1>2, <2>1, WriteForSubscriber DEF WriteAside
  <2>2. CASE AnnounceToRoom
    BY <1>2, <2>2, AnnounceForSubscriber
  <2>3. CASE PushToRoom
    BY <1>2, <2>3, PushForSubscriber
  <2>4. CASE (\E i \in Rooms : Subscribe(i)) \/ Join \/ ReadCandles \/ SendCandles
             \/ ReadEvents \/ SendEvents \/ Confirm
    BY <1>2, <2>4, TaskForSubscriber
  <2>5. ASSUME UNCHANGED <<handlerVars, sub>> PROVE SubInv'
    BY <1>2, <2>5, SameForSubscriber DEF handlerVars, tables, Table1, Behind, Announcing
  <2>6. CASE \E desc \in BOOLEAN, limit \in Limits :
               WalkEvents(desc, limit) \/ WalkOrders(desc, limit) \/ WalkMints(desc, limit)
    BY <2>5, <2>6 DEF WalkEvents, WalkOrders, WalkMints, StartWalk
  <2>7. CASE NextPage
    BY <2>5, <2>7 DEF NextPage
  <2>8. CASE UNCHANGED vars
    BY <2>5, <2>8 DEF vars
  <2>. QED  BY <1>2, <2>1, <2>2, <2>3, <2>4, <2>6, <2>7, <2>8 DEF Next
<1>. QED  BY <1>1, <1>2, HandlerAlways, FiniteAlways, PTL DEF Spec

(* Between two events a confirmed subscriber holds current candles only,   *)
(* the newest CandleHistory of them all, however the steps of its          *)
(* subscription fell between the puts and the pushes.                      *)
THEOREM SubscriberIsCurrent == Spec => []LiveViewCurrent
<1>1. HandlerInv /\ TablesFinite /\ SubInv => LiveViewCurrent
  <2>. SUFFICES ASSUME HandlerInv, TablesFinite, SubInv, sub.phase = "live", todo = <<>>
                PROVE  /\ sub.view \subseteq Table1
                       /\ Top(Table1, CandleHistory) \subseteq sub.view
    BY DEF LiveViewCurrent, Table1, Top, RowsOf, CandleRows
  <2>1. Stage(7) /\ ViewInv(7)
    BY DEF SubInv, Stage, NoSub
  <2>2. Held(7) = sub.view /\ Late = {}
    BY NothingDue DEF Held, Late, Behind
  <2>3. ViewGood(7, sub.view, sub.view, Table1, {})
    BY <2>1, <2>2 DEF ViewInv
  <2>4. ASSUME NEW c \in sub.view PROVE c \in Table1
    <3>1. PICK d \in Table1 : d.time = c.time /\ d \in sub.view
                              /\ (c.update_count = d.update_count => c = d)
      BY <2>3 DEF ViewGood
    <3>2. c.update_count = d.update_count  BY <2>3, <3>1 DEF ViewGood
    <3>. QED  BY <3>1, <3>2
  <2>. QED  BY <2>3, <2>4 DEF ViewGood
<1>. QED  BY <1>1, HandlerAlways, FiniteAlways, SubscriberAlways, PTL

(* Between two events a confirmed subscriber has seen the newest events of *)
(* the listing: an event stored while the history is read is announced to  *)
(* a client that is in the room already.                                   *)
THEOREM SubscriberHearsAll == Spec => []LiveEventsComplete
<1>1. SubInv => LiveEventsComplete
  <2>. SUFFICES ASSUME SubInv, sub.phase = "live", todo = <<>>
                PROVE  FirstRows(trades, EventHistory) \subseteq sub.seen
    BY DEF LiveEventsComplete
  <2>1. SeenInv(7)
    BY DEF SubInv, Stage, NoSub
  <2>2. Heard(7) = sub.seen /\ Announcing = {}
    BY NothingDue DEF Heard, Announcing
  <2>. QED  BY <2>1, <2>2 DEF SeenInv, SeenGood
<1>. QED  BY <1>1, SubscriberAlways, PTL

-----------------------------------------------------------------------------
(* Pages *)

LEMMA NoRepeats ==
  ASSUME NEW S, NEW s \in Seq(S), \A i, j \in 1..Len(s) : s[i] = s[j] => i = j
  PROVE  IsFiniteSet(ToSet(s)) /\ Cardinality(ToSet(s)) = Len(s)
<1>. DEFINE n == Len(s)
            V == ToSet(s)
<1>1. n \in Nat /\ DOMAIN s = 1..n /\ s \in [1..n -> S] /\ V = {s[i] : i \in 1..n}
  BY DEF ToSet
<1>2. s \in [1..n -> V] /\ (\A i, j \in 1..n : s[i] = s[j] => i = j) /\ \A v \in V : \E i \in 1..n : s[i] = v
  <2>. HIDE DEF n, V
  <2>1. \A i, j \in 1..n : s[i] = s[j] => i = j  BY DEF n
  <2>. QED  BY <1>1, <2>1
<1>. HIDE DEF n, V
<1>3. ExistsBijection(1..n, V)
  <2>1. s \in Bijection(1..n, V)  BY <1>2, Fun_IsBij
  <2>. QED  BY <2>1, Fun_ExistsBij
<1>4. IsFiniteSet(1..n) /\ Cardinality(1..n) = n
  BY <1>1, FS_Interval
<1>. QED  BY <1>3, <1>4, FS_Bijection DEF n, V

LEMMA Added ==
  ASSUME NEW S, NEW s \in Seq(S), NEW t \in Seq(S)
  PROVE  s \o t \in Seq(S) /\ Len(s \o t) = Len(s) + Len(t) /\ ToSet(s \o t) = ToSet(s) \cup ToSet(t)
<1>. DEFINE u == s \o t
<1>1. /\ u \in Seq(S) /\ Len(u) = Len(s) + Len(t)
      /\ \A n \in 1..Len(s) : u[n] = s[n]
      /\ \A n \in 1..Len(t) : u[Len(s) + n] = t[n]
      /\ Len(s) \in Nat /\ Len(t) \in Nat
  BY Joined
<1>. HIDE DEF u
<1>2. DOMAIN u = 1..Len(u) /\ DOMAIN s = 1..Len(s) /\ DOMAIN t = 1..Len(t)
  BY <1>1
<1>3. ASSUME NEW x \in ToSet(u) PROVE x \in ToSet(s) \cup ToSet(t)
  <2>1. PICK n \in 1..Len(u) : x = u[n]  BY <1>2 DEF ToSet
  <2>2. CASE n \in 1..Len(s)  BY <1>1, <1>2, <2>1, <2>2 DEF ToSet
  <2>3. CASE n \notin 1..Len(s)
    <3>1. n - Len(s) \in 1..Len(t) /\ n = Len(s) + (n - Len(s))  BY <1>1, <2>3
    <3>2. x = t[n - Len(s)]  BY <1>1, <2>1, <3>1
    <3>. QED  BY <1>2, <3>1, <3>2 DEF ToSet
  <2>. QED  BY <2>2, <2>3
<1>4. ASSUME NEW x \in ToSet(s) PROVE x \in ToSet(u)
  <2>1. PICK n \in 1..Len(s) : x = s[n]  BY <1>2 DEF ToSet
  <2>2. n \in 1..Len(u) /\ x = u[n]  BY <1>1, <2>1
  <2>. QED  BY <1>2, <2>2 DEF ToSet
<1>5. ASSUME NEW x \in ToSet(t) PROVE x \in ToSet(u)
  <2>1. PICK n \in 1..Len(t) : x = t[n]  BY <1>2 DEF ToSet
  <2>2. Len(s) + n \in 1..Len(u) /\ x = u[Len(s) + n]  BY <1>1, <2>1
  <2>. QED  BY <1>2, <2>2 DEF ToSet
<1>. QED  BY <1>1, <1>3, <1>4, <1>5 DEF u

LEMMA Part ==
  ASSUME NEW S, NEW t \in Seq(S), NEW k \in Nat, NEW l \in Nat, k < l, l <= Len(t)
  PROVE  /\ SubSeq(t, k + 1, l) \in Seq(S) /\ Len(SubSeq(t, k + 1, l)) = l - k
         /\ \A i \in 1..l - k : SubSeq(t, k + 1, l)[i] = t[k + i]
OBVIOUS

(* A part of a listing: the rows whose rank is in it, each once. *)
Between(S, order, a, b) == {x \in S : a <= Rank(S, x, order) /\ Rank(S, x, order) < b}

Shown(S, order, a, b) == SubSeq(InOrder(S, order), a + 1, b)

SliceIs(S, order, a, b, items) ==
  /\ items \in Seq(S) /\ ToSet(items) = Between(S, order, a, b)
  /\ IsFiniteSet(ToSet(items)) /\ Cardinality(ToSet(items)) = Len(items)

LEMMA Slice ==
  ASSUME NEW S, NEW order, IsOrder(S, order), NEW a \in Nat, NEW b \in Nat, b <= Cardinality(S)
  PROVE  SliceIs(S, order, a, b, Shown(S, order, a, b))
<1>. DEFINE all == InOrder(S, order)
            n == Cardinality(S)
            items == Shown(S, order, a, b)
<1>. SUFFICES /\ items \in Seq(S) /\ ToSet(items) = Between(S, order, a, b)
              /\ IsFiniteSet(ToSet(items)) /\ Cardinality(ToSet(items)) = Len(items)
  BY DEF SliceIs
<1>0. items = SubSeq(InOrder(S, order), a + 1, b)
  BY DEF Shown
<1>. HIDE DEF items
<1>1. /\ all \in Seq(S) /\ Len(all) = n /\ n \in Nat
      /\ \A i \in 1..n : all[i] \in S /\ Rank(S, all[i], order) = i - 1
      /\ \A x \in S : Rank(S, x, order) + 1 \in 1..n /\ all[Rank(S, x, order) + 1] = x
      /\ \A x \in S : Rank(S, x, order) \in Nat
  BY ListedOnce, RanksAre, FS_CardinalityType DEF IsOrder
<1>. HIDE DEF all, n
<1>2. CASE b <= a
  <2>1. items = <<>>  BY <1>0, <1>1, <1>2 DEF all, n
  <2>2. ToSet(items) = {} /\ Len(items) = 0 /\ items \in Seq(S)  BY <2>1 DEF ToSet
  <2>3. \A x \in S : ~(a <= Rank(S, x, order) /\ Rank(S, x, order) < b)  BY <1>1, <1>2
  <2>. QED  BY <2>2, <2>3, FS_EmptySet DEF Between
<1>3. CASE a < b
  <2>1. b \in 1..n /\ b <= Len(all)  BY <1>1, <1>3 DEF n
  <2>2. items \in Seq(S) /\ Len(items) = b - a /\ \A i \in 1..b - a : items[i] = all[a + i]
    <3>1. items = SubSeq(all, a + 1, b)  BY <1>0 DEF all
    <3>2. b \in Nat /\ all \in Seq(S)  BY <1>1, <2>1
    <3>3. /\ SubSeq(all, a + 1, b) \in Seq(S) /\ Len(SubSeq(all, a + 1, b)) = b - a
          /\ \A i \in 1..b - a : SubSeq(all, a + 1, b)[i] = all[a + i]
      BY <1>3, <2>1, <3>2, Part
    <3>. QED  BY <3>1, <3>3
  <2>3. ASSUME NEW i \in 1..b - a PROVE items[i] \in S /\ Rank(S, items[i], order) = a + i - 1
    <3>1. a + i \in 1..n  BY <1>1, <2>1
    <3>2. items[i] = all[a + i]  BY <2>2
    <3>3. all[a + i] \in S /\ Rank(S, all[a + i], order) = (a + i) - 1  BY <1>1, <3>1
    <3>. QED  BY <3>2, <3>3
  <2>4. DOMAIN items = 1..b - a  BY <2>2
  <2>5. \A i, j \in 1..Len(items) : items[i] = items[j] => i = j
    BY <2>2, <2>3
  <2>6. IsFiniteSet(ToSet(items)) /\ Cardinality(ToSet(items)) = Len(items)
    BY <2>2, <2>5, NoRepeats
  <2>7. ASSUME NEW x \in ToSet(items)
        PROVE  x \in S /\ a <= Rank(S, x, order) /\ Rank(S, x, order) < b
    <3>1. PICK i \in 1..b - a : x = items[i]  BY <2>4 DEF ToSet
    <3>. QED  BY <2>1, <2>3, <3>1
  <2>8. ASSUME NEW x \in S, a <= Rank(S, x, order), Rank(S, x, order) < b PROVE x \in ToSet(items)
    <3>1. PICK r \in Nat : r = Rank(S, x, order)  BY <1>1
    <3>2. r - a + 1 \in 1..b - a /\ a + (r - a + 1) = r + 1  BY <2>1, <2>8, <3>1
    <3>3. items[r - a + 1] = x  BY <1>1, <2>2, <3>1, <3>2
    <3>. QED  BY <2>4, <3>2, <3>3 DEF ToSet
  <2>. QED  BY <2>2, <2>6, <2>7, <2>8 DEF Between
<1>4. a \in Nat /\ b \in Nat
  BY <1>1 DEF n
<1>. QED  BY <1>2, <1>3, <1>4

(* A row comes in: a row of the listing moves down by one place or stays,  *)
(* and it moves only if the newcomer is listed before it.                  *)
Place(T, x, desc) == Rank(T, x, ByValue(T, desc))

LEMMA PlacesDiffer ==
  ASSUME NEW T, Sortable(T), NEW desc \in BOOLEAN
  PROVE  /\ \A x \in T : Place(T, x, desc) \in Nat
         /\ \A x, y \in T : Place(T, x, desc) = Place(T, y, desc) => x = y
<1>1. IsOrder(T, ByValue(T, desc))
  BY ByValueIsOrder
<1>2. \A x \in T : /\ Place(T, x, desc) \in Nat
                   /\ InOrder(T, ByValue(T, desc))[Place(T, x, desc) + 1] = x
  BY <1>1, ListedOnce, RanksAre DEF Place
<1>. QED  BY <1>2

Joins(T, y, T2) == y \notin T /\ T2 = T \cup {y}

LEMMA PlaceWithOneMore ==
  ASSUME NEW T, NEW y, y \notin T, NEW T2, T2 = T \cup {y}, Sortable(T2), NEW desc \in BOOLEAN,
         NEW x \in T
  PROVE  /\ Place(T, x, desc) \in Nat /\ Place(T2, x, desc) \in Nat /\ Place(T2, y, desc) \in Nat
         /\ \/ Place(T2, x, desc) = Place(T, x, desc)
            \/ /\ Place(T2, x, desc) = Place(T, x, desc) + 1
               /\ Place(T2, y, desc) < Place(T2, x, desc)
<1>. DEFINE A == Preceding(T, x, ByValue(T, desc))
            B == Preceding(T2, x, ByValue(T2, desc))
<1>1. IsFiniteSet(A) /\ y \notin A
  <2>1. IsFiniteSet(T)  BY FS_Subset DEF Sortable
  <2>. QED  BY <2>1, FS_Subset DEF Preceding
<1>2. B = IF <<y, x>> \in ByValue(T2, desc) THEN A \cup {y} ELSE A
  BY DEF Preceding, ByValue
<1>3. <<y, x>> \in ByValue(T2, desc) => Place(T2, y, desc) < Place(T2, x, desc)
  <2>1. IsOrder(T2, ByValue(T2, desc))  BY ByValueIsOrder
  <2>. QED  BY <2>1, RanksAre DEF Place
<1>4. Place(T2, y, desc) \in Nat
  BY PlacesDiffer
<1>. HIDE DEF A, B
<1>5. Cardinality(A) \in Nat /\ Cardinality(A \cup {y}) = Cardinality(A) + 1
  BY <1>1, FS_AddElement, FS_CardinalityType
<1>6. Place(T, x, desc) = Cardinality(A) /\ Place(T2, x, desc) = Cardinality(B)
  BY DEF Place, Rank, A, B
<1>. QED  BY <1>2, <1>3, <1>4, <1>5, <1>6

(* What was shown and is still to come: it will be shown again. *)
Beyond(T, G, o, desc) == {x \in T \cap G : o <= Place(T, x, desc)}
(* What was there at the start, was not shown and is not to come. *)
Missed(T, B, G, o, desc) == {x \in B \ G : x \in T => Place(T, x, desc) < o}

LEMMA AtMostOneMore ==
  ASSUME NEW S, NEW U, IsFiniteSet(S), \A x, y \in U \ S : x = y
  PROVE  IsFiniteSet(U) /\ Cardinality(U) \in Nat /\ Cardinality(S) \in Nat
         /\ Cardinality(U) <= Cardinality(S) + 1
<1>1. \E z : U \subseteq S \cup {z}
  <2>1. CASE U \subseteq S  BY <2>1
  <2>2. CASE ~(U \subseteq S)
    <3>1. PICK z \in U \ S : TRUE  BY <2>2
    <3>2. U \subseteq S \cup {z}  BY <3>1
    <3>. QED  BY <3>2
  <2>. QED  BY <2>1, <2>2
<1>2. PICK z : U \subseteq S \cup {z}
  BY <1>1
<1>3. IsFiniteSet(S \cup {z}) /\ Cardinality(S \cup {z}) <= Cardinality(S) + 1 /\ Cardinality(S) \in Nat
  <2>1. IsFiniteSet(S \cup {z})
        /\ Cardinality(S \cup {z}) = IF z \in S THEN Cardinality(S) ELSE Cardinality(S) + 1
    BY FS_AddElement
  <2>2. Cardinality(S) \in Nat  BY FS_CardinalityType
  <2>. QED  BY <2>1, <2>2
<1>4. IsFiniteSet(U) /\ Cardinality(U) <= Cardinality(S \cup {z})
  BY <1>2, <1>3, FS_Subset
<1>5. Cardinality(U) \in Nat /\ Cardinality(S \cup {z}) \in Nat
  BY <1>3, <1>4, FS_CardinalityType
<1>. QED  BY <1>3, <1>4, <1>5

(* A row that comes in brings one row at most a second time; a row that    *)
(* goes hides one at most.                                                 *)
LEMMA RowComes ==
  ASSUME NEW T, NEW y, NEW T2, Joins(T, y, T2), Sortable(T2), NEW desc \in BOOLEAN,
         NEW o \in Nat, NEW B, NEW G
  PROVE  /\ \A a, b \in Beyond(T2, G, o, desc) \ Beyond(T, G, o, desc) : a = b
         /\ Missed(T2, B, G, o, desc) \subseteq Missed(T, B, G, o, desc)
<1>. y \notin T /\ T2 = T \cup {y}
  BY DEF Joins
<1>1. \A x \in T : /\ Place(T, x, desc) \in Nat /\ Place(T2, x, desc) \in Nat
                   /\ Place(T2, y, desc) \in Nat
                   /\ \/ Place(T2, x, desc) = Place(T, x, desc)
                      \/ /\ Place(T2, x, desc) = Place(T, x, desc) + 1
                         /\ Place(T2, y, desc) < Place(T2, x, desc)
  BY PlaceWithOneMore
<1>2. \A x, z \in T2 : Place(T2, x, desc) = Place(T2, z, desc) => x = z
  BY PlacesDiffer
<1>3. ASSUME NEW a \in Beyond(T2, G, o, desc) \ Beyond(T, G, o, desc)
      PROVE  \/ a = y /\ o <= Place(T2, y, desc)
             \/ a \in T /\ Place(T2, a, desc) = o /\ Place(T2, y, desc) < o
  <2>1. CASE a = y  BY <1>3, <2>1 DEF Beyond
  <2>2. CASE a \in T
    <3>1. o <= Place(T2, a, desc) /\ ~(o <= Place(T, a, desc))  BY <1>3, <2>2 DEF Beyond
    <3>. QED  BY <1>1, <2>2, <3>1
  <2>. QED  BY <1>3, <2>1, <2>2 DEF Beyond
<1>4. ASSUME NEW a \in Beyond(T2, G, o, desc) \ Beyond(T, G, o, desc),
             NEW b \in Beyond(T2, G, o, desc) \ Beyond(T, G, o, desc)
      PROVE  a = b
  <2>1. Place(T2, y, desc) \in Nat  BY PlacesDiffer
  <2>2. ~(o <= Place(T2, y, desc) /\ Place(T2, y, desc) < o)  BY <2>1
  <2>. QED  BY <1>2, <1>3, <1>4, <2>2
<1>5. Missed(T2, B, G, o, desc) \subseteq Missed(T, B, G, o, desc)
  BY <1>1 DEF Missed
<1>. QED  BY <1>4, <1>5

LEMMA RowGoes ==
  ASSUME NEW T, NEW y, NEW T2, Joins(T, y, T2), Sortable(T2), NEW desc \in BOOLEAN,
         NEW o \in Nat, NEW B, NEW G
  PROVE  /\ Beyond(T, G, o, desc) \subseteq Beyond(T2, G, o, desc)
         /\ \A a, b \in Missed(T, B, G, o, desc) \ Missed(T2, B, G, o, desc) : a = b
<1>. y \notin T /\ T2 = T \cup {y}
  BY DEF Joins
<1>1. \A x \in T : /\ Place(T, x, desc) \in Nat /\ Place(T2, x, desc) \in Nat
                   /\ Place(T2, y, desc) \in Nat
                   /\ \/ Place(T2, x, desc) = Place(T, x, desc)
                      \/ /\ Place(T2, x, desc) = Place(T, x, desc) + 1
                         /\ Place(T2, y, desc) < Place(T2, x, desc)
  BY PlaceWithOneMore
<1>2. \A x, z \in T2 : Place(T2, x, desc) = Place(T2, z, desc) => x = z
  BY PlacesDiffer
<1>3. ASSUME NEW a \in Missed(T, B, G, o, desc) \ Missed(T2, B, G, o, desc)
      PROVE  \/ a = y /\ o <= Place(T2, y, desc)
             \/ a \in T /\ Place(T2, a, desc) = o /\ Place(T2, y, desc) < o
  <2>1. a \in T2 /\ ~(Place(T2, a, desc) < o)  BY <1>3 DEF Missed
  <2>2. CASE a = y
    <3>1. Place(T2, y, desc) \in Nat  BY PlacesDiffer
    <3>. QED  BY <2>1, <2>2, <3>1
  <2>3. CASE a \in T
    <3>1. Place(T, a, desc) < o  BY <1>3, <2>3 DEF Missed
    <3>. QED  BY <1>1, <2>1, <2>3, <3>1
  <2>. QED  BY <2>1, <2>2, <2>3
<1>4. ASSUME NEW a \in Missed(T, B, G, o, desc) \ Missed(T2, B, G, o, desc),
             NEW b \in Missed(T, B, G, o, desc) \ Missed(T2, B, G, o, desc)
      PROVE  a = b
  <2>1. Place(T2, y, desc) \in Nat  BY PlacesDiffer
  <2>2. ~(o <= Place(T2, y, desc) /\ Place(T2, y, desc) < o)  BY <2>1
  <2>. QED  BY <1>2, <1>3, <1>4, <2>2
<1>5. Beyond(T, G, o, desc) \subseteq Beyond(T2, G, o, desc)
  BY <1>1 DEF Beyond
<1>. QED  BY <1>4, <1>5

(* A page is turned: what is shown again was beyond the page before.       *)
PageItems(T, desc, o, limit) ==
  SubSeq(Sorted(T, desc), o + 1, IF o + limit < Cardinality(T) THEN o + limit ELSE Cardinality(T))

PageTurned(T, desc, o, limit, items, B, G, G2) ==
  /\ items \in Seq(T) /\ IsFiniteSet(G2)
  /\ Len(items) - Cardinality(G2) + Cardinality(Beyond(T, G2, o + limit, desc))
       = Cardinality(Beyond(T, G, o, desc)) - Cardinality(G)
  /\ Cardinality(Beyond(T, G2, o + limit, desc)) \in Nat
  /\ Cardinality(G2) \in Nat
  /\ Missed(T, B, G2, o + limit, desc) \subseteq Missed(T, B, G, o, desc)
  /\ ~(o + limit < Cardinality(T)) => B \ G2 \subseteq Missed(T, B, G, o, desc)

LEMMA PageTurns ==
  ASSUME NEW T, Sortable(T), NEW desc \in BOOLEAN, NEW o \in Nat, NEW limit \in Nat,
         NEW items, items = PageItems(T, desc, o, limit),
         NEW B, NEW G, IsFiniteSet(G)
  PROVE  PageTurned(T, desc, o, limit, items, B, G, G \cup ToSet(items))
<1>. DEFINE last == IF o + limit < Cardinality(T) THEN o + limit ELSE Cardinality(T)
<1>. items = SubSeq(Sorted(T, desc), o + 1, last)
  BY DEF PageItems
<1>. DEFINE n == Cardinality(T)
            I == ToSet(items)
            P(x) == Place(T, x, desc)
            old == Beyond(T, G, o, desc)
            new == Beyond(T, G \cup I, o + limit, desc)
<1>1. IsOrder(T, ByValue(T, desc)) /\ IsFiniteSet(T) /\ n \in Nat
  BY ByValueIsOrder, FS_CardinalityType DEF Sortable
<1>2. \A x \in T : P(x) \in Nat /\ P(x) < n
  BY <1>1, RanksAre DEF Place
<1>3. last \in 0..n
  BY <1>1
<1>4. /\ items \in Seq(T) /\ I = {x \in T : o <= P(x) /\ P(x) < last}
      /\ IsFiniteSet(I) /\ Cardinality(I) = Len(items)
  <2>1. items = Shown(T, ByValue(T, desc), o, last)  BY DEF Sorted, Shown
  <2>. HIDE DEF I
  <2>2. SliceIs(T, ByValue(T, desc), o, last, items)
    <3>1. last \in Nat /\ last <= Cardinality(T)  BY <1>3 DEF n
    <3>2. SliceIs(T, ByValue(T, desc), o, last, Shown(T, ByValue(T, desc), o, last))
      BY <1>1, <3>1, Slice
    <3>. QED  BY <2>1, <3>2
  <2>. QED  BY <2>2 DEF I, Place, Between, SliceIs
<1>. HIDE DEF n, I, P
<1>5. /\ I = {x \in T : o <= P(x) /\ P(x) < o + limit}
      /\ ~(o + limit < n) => I = {x \in T : o <= P(x)}
  <2>1. last = IF o + limit < n THEN o + limit ELSE n  BY DEF n
  <2>2. CASE o + limit < n  BY <1>4, <2>1, <2>2
  <2>3. CASE ~(o + limit < n)  BY <1>1, <1>2, <1>4, <2>1, <2>3
  <2>. QED  BY <2>2, <2>3
<1>6. /\ old = (G \cap I) \cup new /\ (G \cap I) \cap new = {}
      /\ IsFiniteSet(new) /\ IsFiniteSet(G \cap I)
  <2>1. new = {x \in T \cap (G \cup I) : o + limit <= P(x)} /\ old = {x \in T \cap G : o <= P(x)}
    BY DEF Beyond, P
  <2>2. \A x \in T : ~(P(x) < o + limit) <=> o + limit <= P(x)  BY <1>2
  <2>3. \A x \in T : o + limit <= P(x) => o <= P(x)  BY <1>2
  <2>. HIDE DEF old, new
  <2>4. old = (G \cap I) \cup new /\ (G \cap I) \cap new = {}  BY <1>5, <2>1, <2>2, <2>3
  <2>5. new \subseteq T /\ G \cap I \subseteq I  BY <2>1
  <2>. QED  BY <1>1, <1>4, <2>4, <2>5, FS_Subset
<1>. HIDE DEF old, new
<1>7. Cardinality(old) = Cardinality(G \cap I) + Cardinality(new)
      /\ Cardinality(new) \in Nat /\ Cardinality(G \cap I) \in Nat
  <2>. DEFINE meet == G \cap I
  <2>1. old = meet \cup new /\ meet \cap new = {} /\ IsFiniteSet(meet) /\ IsFiniteSet(new)  BY <1>6
  <2>. HIDE DEF meet
  <2>2. Cardinality(meet \cup new) = Cardinality(meet) + Cardinality(new) - Cardinality(meet \cap new)
    BY <2>1, FS_Union
  <2>3. Cardinality(meet) \in Nat /\ Cardinality(new) \in Nat /\ Cardinality(meet \cap new) = 0
    BY <2>1, FS_EmptySet, FS_CardinalityType
  <2>4. Cardinality(old) = Cardinality(meet) + Cardinality(new)  BY <2>1, <2>2, <2>3
  <2>. QED  BY <2>3, <2>4 DEF meet
<1>8. /\ IsFiniteSet(G \cup I) /\ Cardinality(G \cup I) = Cardinality(G) + Cardinality(I) - Cardinality(G \cap I)
      /\ Cardinality(G) \in Nat /\ Cardinality(I) \in Nat /\ Cardinality(G \cup I) \in Nat
  BY <1>4, FS_Union, FS_CardinalityType
<1>9. Missed(T, B, G \cup I, o + limit, desc) \subseteq Missed(T, B, G, o, desc)
  <2>1. ASSUME NEW x \in Missed(T, B, G \cup I, o + limit, desc) PROVE x \in Missed(T, B, G, o, desc)
    <3>1. x \in B \ (G \cup I) /\ (x \in T => P(x) < o + limit)  BY <2>1 DEF Missed, P
    <3>2. x \in T => P(x) < o  BY <1>2, <1>5, <3>1
    <3>. QED  BY <3>1, <3>2 DEF Missed, P
  <2>. QED  BY <2>1
<1>10. ~(o + limit < n) => B \ (G \cup I) \subseteq Missed(T, B, G, o, desc)
  <2>1. ASSUME ~(o + limit < n), NEW x \in B \ (G \cup I) PROVE x \in Missed(T, B, G, o, desc)
    <3>1. x \in T => P(x) < o  BY <1>2, <1>5, <2>1
    <3>. QED  BY <2>1, <3>1 DEF Missed, P
  <2>. QED  BY <2>1
<1>11. Len(items) - Cardinality(G \cup I) + Cardinality(new) = Cardinality(old) - Cardinality(G)
  BY <1>4, <1>7, <1>8
<1>12. items \in Seq(T)
  BY <1>4
<1>. HIDE DEF last
<1>. QED  BY <1>7, <1>8, <1>9, <1>10, <1>11, <1>12 DEF n, I, old, new, PageTurned

-----------------------------------------------------------------------------
(* From cursor to cursor *)

Comes(desc, x, y) == IF desc THEN KeyBefore(y, x) ELSE KeyBefore(x, y)

LEMMA KeysInOrder ==
  ASSUME NEW desc \in BOOLEAN
  PROVE  /\ \A x \in Nat \X Nat : ~Comes(desc, x, x) /\ x # NoCursor
         /\ \A x, y \in Nat \X Nat : x # y => Comes(desc, x, y) \/ Comes(desc, y, x)
         /\ \A x, y, z \in Nat \X Nat : Comes(desc, x, y) /\ Comes(desc, y, z) => Comes(desc, x, z)
<1>1. \A x \in Nat \X Nat : x[1] \in Nat /\ x[2] \in Nat /\ x = <<x[1], x[2]>>
  OBVIOUS
<1>2. \A x \in Nat \X Nat : ~Comes(desc, x, x)
  BY <1>1 DEF Comes, KeyBefore
<1>3. \A x \in Nat \X Nat : x # NoCursor
  BY DEF NoCursor
<1>4. ASSUME NEW x \in Nat \X Nat, NEW y \in Nat \X Nat, x # y PROVE Comes(desc, x, y) \/ Comes(desc, y, x)
  BY <1>1, <1>4 DEF Comes, KeyBefore
<1>5. ASSUME NEW x \in Nat \X Nat, NEW y \in Nat \X Nat, NEW z \in Nat \X Nat,
             Comes(desc, x, y), Comes(desc, y, z)
      PROVE  Comes(desc, x, z)
  BY <1>1, <1>5 DEF Comes, KeyBefore
<1>. QED  BY <1>2, <1>3, <1>4, <1>5

(* The rows shown end with the cursor; the others are still to come.       *)
CursorGood(S, B, G, cursor, desc) ==
  /\ G \subseteq S
  /\ cursor = NoCursor => G = {}
  /\ cursor # NoCursor => /\ cursor \in S
                          /\ \A g \in G : g = cursor \/ Comes(desc, g, cursor)
                          /\ \A x \in B \ G : Comes(desc, cursor, x)

CursorMoved(S, desc, B, G, r, G2) ==
  /\ r.items \in Seq(S) /\ IsFiniteSet(G2)
  /\ Len(r.items) - Cardinality(G2) = 0 - Cardinality(G)
  /\ Cardinality(G) \in Nat /\ Cardinality(G2) \in Nat
  /\ r.has_next \in BOOLEAN /\ r.next_cursor \in {NoCursor} \cup S
  /\ r.has_next => CursorGood(S, B, G2, r.next_cursor, desc)
  /\ ~r.has_next => B \subseteq G2

LEMMA CursorMoves ==
  ASSUME NEW S, S \subseteq Nat \X Nat, IsFiniteSet(S), NEW desc \in BOOLEAN, NEW limit \in Nat,
         NEW B, B \subseteq S, NEW G, IsFiniteSet(G), NEW cursor, CursorGood(S, B, G, cursor, desc),
         NEW r, r = MintsFrom(S, desc, cursor, limit)
  PROVE  CursorMoved(S, desc, B, G, r, G \cup ToSet(r.items))
<1>. DEFINE rest == {k \in S : cursor = NoCursor \/ k = cursor \/ Comes(desc, cursor, k)}
            order == ByKey(rest, desc)
            all == InOrder(rest, order)
            n == Cardinality(rest)
            skip == IF cursor = NoCursor THEN 0 ELSE 1
            size == IF limit = 0 THEN 1 ELSE limit
            full == n >= skip + size
            last == IF full THEN skip + size ELSE n
            I == ToSet(r.items)
            P(x) == Rank(rest, x, order)
<1>1. rest \subseteq S /\ IsFiniteSet(rest) /\ n \in Nat
  BY FS_Subset, FS_CardinalityType
<1>2. \A x, y \in rest : <<x, y>> \in order <=> Comes(desc, x, y)
  <2>. HIDE DEF rest
  <2>. QED  BY DEF ByKey, Comes
<1>. HIDE DEF order
<1>3. IsOrder(rest, order)
  <2>1. \A x \in rest : x \in Nat \X Nat  BY <1>1
  <2>. HIDE DEF rest
  <2>2. \A x \in rest : <<x, x>> \notin order  BY <1>2, <2>1, KeysInOrder
  <2>3. \A x, y \in rest : x # y => <<x, y>> \in order \/ <<y, x>> \in order
    BY <1>2, <2>1, KeysInOrder
  <2>4. \A x, y, z \in rest : <<x, y>> \in order /\ <<y, z>> \in order => <<x, z>> \in order
    BY <1>2, <2>1, KeysInOrder
  <2>. QED  BY <1>1, <2>2, <2>3, <2>4 DEF IsOrder
<1>4. /\ all \in Seq(rest) /\ Len(all) = n
      /\ \A i \in 1..n : all[i] \in rest /\ P(all[i]) = i - 1
      /\ \A x \in rest : P(x) \in Nat /\ P(x) < n /\ all[P(x) + 1] = x
  <2>. HIDE DEF rest
  <2>1. /\ all \in Seq(rest) /\ Len(all) = n
        /\ \A i \in 1..n : all[i] \in rest /\ P(all[i]) = i - 1
        /\ \A x \in rest : all[P(x) + 1] = x
    BY <1>3, ListedOnce
  <2>2. \A x \in rest : P(x) \in Nat /\ P(x) < n
    BY <1>3, RanksAre
  <2>. QED  BY <2>1, <2>2
<1>5. \A x, y \in rest : Comes(desc, x, y) => P(x) < P(y)
  BY <1>2, <1>3, RanksAre
<1>6. skip \in 0..1 /\ size \in Nat /\ 1 <= size
  OBVIOUS
<1>7. /\ r = [items |-> SubSeq(all, skip + 1, last), has_next |-> full,
              next_cursor |-> IF full THEN all[last] ELSE NoCursor]
      /\ r.items = SubSeq(all, skip + 1, last)
  <2>1. rest = {k \in S : cursor = NoCursor \/ k = cursor
                         \/ (IF desc THEN KeyBefore(k, cursor) ELSE KeyBefore(cursor, k))}
    BY DEF Comes
  <2>2. all = FromCursor(S, desc, cursor)
    BY <2>1 DEF FromCursor, order
  <2>. HIDE DEF all
  <2>3. Len(all) = n  BY <1>4
  <2>. HIDE DEF n
  <2>4. r = [items |-> SubSeq(all, skip + 1, last), has_next |-> full,
             next_cursor |-> IF full THEN all[last] ELSE NoCursor]
    BY <2>2, <2>3 DEF MintsFrom
  <2>. HIDE DEF skip, last, full
  <2>. DEFINE shown == SubSeq(all, skip + 1, last)
              next == IF full THEN all[last] ELSE NoCursor
  <2>5. r = [items |-> shown, has_next |-> full, next_cursor |-> next]
    BY <2>4
  <2>. HIDE DEF shown, next
  <2>6. r.items = shown
    BY <2>5
  <2>. QED  BY <2>4, <2>6 DEF shown
<1>. HIDE DEF all
<1>8. last \in 0..n /\ (full => last = skip + size /\ last \in 1..n) /\ (~full => last = n)
  BY <1>1, <1>6
<1>. HIDE DEF size, full, last, skip
<1>9. /\ r.items \in Seq(rest) /\ I = {x \in rest : skip <= P(x) /\ P(x) < last}
      /\ IsFiniteSet(I) /\ Cardinality(I) = Len(r.items)
  <2>1. r.items = Shown(rest, order, skip, last)
    <3>1. r.items = SubSeq(all, skip + 1, last)  BY <1>7
    <3>. QED  BY <3>1 DEF all, Shown
  <2>2. skip \in Nat /\ last \in Nat /\ last <= Cardinality(rest)  BY <1>1, <1>6, <1>8 DEF n
  <2>. HIDE DEF rest, n, I
  <2>3. SliceIs(rest, order, skip, last, Shown(rest, order, skip, last))
    BY <1>3, <2>2, Slice
  <2>. QED  BY <2>1, <2>3 DEF I, Between, SliceIs
<1>. HIDE DEF I, n
<1>10. cursor # NoCursor => cursor \in rest /\ P(cursor) = 0
  <2>1. SUFFICES ASSUME cursor # NoCursor PROVE cursor \in rest /\ P(cursor) = 0  OBVIOUS
  <2>2. cursor \in rest  BY <2>1 DEF CursorGood
  <2>3. Preceding(rest, cursor, order) = {}
    <3>1. ASSUME NEW q \in rest, <<q, cursor>> \in order PROVE FALSE
      <4>1. Comes(desc, q, cursor)  BY <1>2, <2>2, <3>1
      <4>2. q = cursor \/ Comes(desc, cursor, q)  BY <2>1, <3>1
      <4>3. q \in Nat \X Nat /\ cursor \in Nat \X Nat  BY <1>1, <2>2
      <4>. QED  BY <4>1, <4>2, <4>3, KeysInOrder
    <3>. QED  BY <3>1 DEF Preceding
  <2>. QED  BY <2>2, <2>3, FS_EmptySet DEF Rank
<1>11. \A x \in rest : cursor # NoCursor /\ 1 <= P(x) => Comes(desc, cursor, x)
  BY <1>10
<1>12. \A x \in rest : cursor # NoCursor /\ Comes(desc, cursor, x) => 1 <= P(x)
  <2>. HIDE DEF rest, P
  <2>1. ASSUME NEW x \in rest, cursor # NoCursor, Comes(desc, cursor, x) PROVE 1 <= P(x)
    <3>1. P(cursor) < P(x) /\ P(cursor) = 0  BY <1>5, <1>10, <2>1
    <3>2. P(x) \in Nat  BY <1>4
    <3>. QED  BY <3>1, <3>2
  <2>. QED  BY <2>1
<1>13. G \cap I = {}
  <2>1. ASSUME NEW g \in G, g \in I PROVE FALSE
    <3>1. cursor # NoCursor /\ (g = cursor \/ Comes(desc, g, cursor))  BY <2>1 DEF CursorGood
    <3>2. g \in rest /\ 1 <= P(g)
      <4>1. g \in rest /\ skip <= P(g) /\ skip = 1
        <5>. HIDE DEF rest, P
        <5>1. skip = 1  BY <3>1 DEF skip
        <5>. QED  BY <1>9, <2>1, <5>1
      <4>. QED  BY <4>1
    <3>3. Comes(desc, cursor, g)  BY <1>11, <3>1, <3>2
    <3>4. g \in Nat \X Nat /\ cursor \in Nat \X Nat  BY <1>1, <1>10, <3>1, <3>2
    <3>. QED  BY <3>1, <3>3, <3>4, KeysInOrder
  <2>. QED  BY <2>1
<1>14. /\ IsFiniteSet(G \cup I) /\ Cardinality(G \cup I) = Cardinality(G) + Len(r.items)
       /\ Cardinality(G) \in Nat /\ Cardinality(G \cup I) \in Nat /\ Len(r.items) \in Nat
  <2>1. Cardinality(G \cup I) = Cardinality(G) + Cardinality(I) - Cardinality(G \cap I)
        /\ IsFiniteSet(G \cup I)
    BY <1>9, FS_Union
  <2>2. Cardinality(G \cap I) = 0  BY <1>13, FS_EmptySet
  <2>3. Cardinality(G) \in Nat /\ Cardinality(I) \in Nat /\ Cardinality(G \cup I) \in Nat
    BY <1>9, <2>1, FS_CardinalityType
  <2>. QED  BY <1>9, <2>1, <2>2, <2>3
<1>15. ASSUME NEW x \in B \ (G \cup I) PROVE x \in rest /\ last <= P(x)
  <2>1. x \in S /\ (cursor # NoCursor => Comes(desc, cursor, x))  BY <1>15 DEF CursorGood
  <2>2. x \in rest  BY <2>1
  <2>3. skip <= P(x)
    <3>. HIDE DEF rest, P
    <3>1. CASE cursor = NoCursor
      <4>1. skip = 0 /\ P(x) \in Nat  BY <1>4, <2>2, <3>1 DEF skip
      <4>. QED  BY <4>1
    <3>2. CASE cursor # NoCursor
      <4>1. skip = 1 /\ 1 <= P(x)  BY <1>12, <2>1, <2>2, <3>2 DEF skip
      <4>. QED  BY <4>1
    <3>. QED  BY <3>1, <3>2
  <2>4. last \in Nat /\ P(x) \in Nat  BY <1>1, <1>4, <1>8, <2>2
  <2>. QED  BY <1>9, <1>15, <2>2, <2>3, <2>4
<1>16. ~full => B \subseteq G \cup I
  <2>1. ASSUME ~full, NEW x \in B, x \notin G \cup I PROVE FALSE
    <3>1. x \in rest /\ last <= P(x)  BY <1>15, <2>1
    <3>2. last = n /\ P(x) < n /\ P(x) \in Nat /\ n \in Nat  BY <1>1, <1>4, <1>8, <2>1, <3>1
    <3>. QED  BY <3>1, <3>2
  <2>. QED  BY <2>1
<1>17. ASSUME full PROVE CursorGood(S, B, G \cup I, all[last], desc)
  <2>. DEFINE c == all[last]
  <2>1. last \in 1..n /\ last = skip + size  BY <1>8, <1>17
  <2>2. c \in rest /\ P(c) = last - 1  BY <1>4, <2>1
  <2>. HIDE DEF c
  <2>3. \A x \in rest : x \in Nat \X Nat  BY <1>1
  <2>4. last \in Nat /\ skip <= last - 1 /\ 1 <= last  BY <1>1, <1>6, <2>1
  <2>5. ASSUME NEW g \in G PROVE Comes(desc, g, c)
    <3>1. cursor # NoCursor /\ (g = cursor \/ Comes(desc, g, cursor)) /\ cursor \in rest
      BY <1>10, <2>5 DEF CursorGood
    <3>2. Comes(desc, cursor, c)
      <4>1. skip = 1 /\ 1 <= P(c)  BY <2>2, <2>4, <3>1 DEF skip
      <4>. QED  BY <1>11, <2>2, <3>1, <4>1
    <3>3. g \in Nat \X Nat  BY <2>5 DEF CursorGood
    <3>. QED  BY <2>2, <2>3, <3>1, <3>2, <3>3, KeysInOrder
  <2>6. ASSUME NEW g \in I PROVE g = c \/ Comes(desc, g, c)
    <3>1. g \in rest /\ P(g) < last /\ P(g) \in Nat  BY <1>4, <1>9
    <3>2. ~Comes(desc, c, g)  BY <1>5, <2>2, <2>4, <3>1
    <3>. QED  BY <2>2, <2>3, <3>1, <3>2, KeysInOrder
  <2>7. ASSUME NEW x \in B \ (G \cup I) PROVE Comes(desc, c, x)
    <3>1. x \in rest /\ last <= P(x) /\ P(x) \in Nat  BY <1>4, <1>15, <2>7
    <3>2. x # c  BY <2>2, <2>4, <3>1
    <3>3. ~Comes(desc, x, c)  BY <1>5, <2>2, <2>4, <3>1
    <3>. QED  BY <2>2, <2>3, <3>1, <3>2, <3>3, KeysInOrder
  <2>8. c \in S /\ c # NoCursor /\ G \cup I \subseteq S
    BY <1>1, <1>9, <2>2, <2>3, KeysInOrder DEF CursorGood
  <2>. QED  BY <2>5, <2>6, <2>7, <2>8 DEF CursorGood, c
<1>18. r.has_next = full /\ full \in BOOLEAN /\ (full => r.next_cursor = all[last])
  BY <1>7 DEF full
<1>19. r.items \in Seq(S)
  <2>1. \A R, X : R \subseteq X => \A t \in Seq(R) : t \in Seq(X)  OBVIOUS
  <2>. HIDE DEF rest
  <2>. QED  BY <1>1, <1>9, <2>1
<1>20. Len(r.items) - Cardinality(G \cup I) = 0 - Cardinality(G)
  BY <1>14
<1>21. r.next_cursor \in {NoCursor} \cup S
  <2>1. r.next_cursor = IF full THEN all[last] ELSE NoCursor  BY <1>7
  <2>2. full => all[last] \in S  BY <1>1, <1>4, <1>8
  <2>. QED  BY <2>1, <2>2
<1>. QED  BY <1>14, <1>16, <1>17, <1>18, <1>19, <1>20, <1>21 DEF I, CursorMoved

-----------------------------------------------------------------------------
(* What a walk has missed and repeated *)

(* A walk by page number, o rows on, has shown len rows, those of G.       *)
Counted(T, B, G, len, o, desc, added, removed) ==
  /\ len - Cardinality(G) + Cardinality(Beyond(T, G, o, desc)) <= added
  /\ IsFiniteSet(Missed(T, B, G, o, desc)) /\ Cardinality(Missed(T, B, G, o, desc)) <= removed

OneRow(T, T2) ==
  \/ T2 = T
  \/ \E y : Joins(T, y, T2)
  \/ \E y : Joins(T2, y, T)

LEMMA StillCounted ==
  ASSUME NEW T, NEW T2, Sortable(T), Sortable(T2), OneRow(T, T2), NEW desc \in BOOLEAN,
         NEW o \in Nat, NEW B, NEW G, IsFiniteSet(G), NEW len \in Nat,
         NEW added \in Nat, NEW removed \in Nat, Counted(T, B, G, len, o, desc, added, removed)
  PROVE  /\ Counted(T2, B, G, len, o, desc, added + Cardinality(T2 \ T), removed + Cardinality(T \ T2))
         /\ Cardinality(T2 \ T) \in Nat /\ Cardinality(T \ T2) \in Nat
<1>. DEFINE b == Beyond(T, G, o, desc)   b2 == Beyond(T2, G, o, desc)
            m == Missed(T, B, G, o, desc)   m2 == Missed(T2, B, G, o, desc)
            in == Cardinality(T2 \ T)   out == Cardinality(T \ T2)
<1>1. IsFiniteSet(b) /\ IsFiniteSet(b2) /\ IsFiniteSet(m)
  <2>1. b \subseteq T /\ b2 \subseteq T2  BY DEF Beyond
  <2>2. IsFiniteSet(T) /\ IsFiniteSet(T2)  BY DEF Sortable
  <2>. HIDE DEF b, b2
  <2>3. IsFiniteSet(b) /\ IsFiniteSet(b2)  BY <2>1, <2>2, FS_Subset
  <2>. QED  BY <2>3 DEF Counted
<1>2. len - Cardinality(G) + Cardinality(b) <= added /\ Cardinality(m) <= removed
  BY DEF Counted
<1>3. SUFFICES /\ IsFiniteSet(m2) /\ Cardinality(b2) <= Cardinality(b) + in
               /\ Cardinality(m2) <= Cardinality(m) + out /\ in \in Nat /\ out \in Nat
  <2>. HIDE DEF b, b2, m, m2, in, out
  <2>1. Cardinality(b) \in Nat /\ Cardinality(b2) \in Nat /\ Cardinality(m) \in Nat
        /\ Cardinality(m2) \in Nat /\ Cardinality(G) \in Nat
    BY <1>1, <1>3, FS_CardinalityType
  <2>2. len - Cardinality(G) + Cardinality(b2) <= added + in
    BY <1>2, <1>3, <2>1
  <2>3. Cardinality(m2) <= removed + out
    BY <1>2, <1>3, <2>1
  <2>. QED  BY <1>3, <2>2, <2>3 DEF Counted, b2, m2, in, out
<1>4. CASE T2 = T
  <2>1. in = 0 /\ out = 0
    <3>1. T2 \ T = {} /\ T \ T2 = {}  BY <1>4
    <3>. QED  BY <3>1, FS_EmptySet
  <2>2. b2 = b /\ m2 = m  BY <1>4
  <2>3. Cardinality(b) \in Nat /\ Cardinality(m) \in Nat  BY <1>1, FS_CardinalityType
  <2>. QED  BY <1>1, <2>1, <2>2, <2>3
<1>5. ASSUME NEW y, Joins(T, y, T2)
      PROVE  /\ IsFiniteSet(m2) /\ Cardinality(b2) <= Cardinality(b) + in
             /\ Cardinality(m2) <= Cardinality(m) + out /\ in \in Nat /\ out \in Nat
  <2>1. in = 1 /\ out = 0
    <3>1. T2 \ T = {y} /\ T \ T2 = {}  BY <1>5 DEF Joins
    <3>. QED  BY <3>1, FS_EmptySet, FS_Singleton
  <2>2. (\A x, z \in b2 \ b : x = z) /\ m2 \subseteq m
    BY <1>5, RowComes
  <2>. HIDE DEF b, b2, m, m2, in, out
  <2>3. Cardinality(b2) <= Cardinality(b) + 1
    BY <1>1, <2>2, AtMostOneMore
  <2>4. IsFiniteSet(m2) /\ Cardinality(m2) <= Cardinality(m)
    BY <1>1, <2>2, FS_Subset
  <2>5. Cardinality(m) \in Nat /\ Cardinality(m2) \in Nat
    BY <1>1, <2>4, FS_CardinalityType
  <2>. QED  BY <2>1, <2>3, <2>4, <2>5
<1>6. ASSUME NEW y, Joins(T2, y, T)
      PROVE  /\ IsFiniteSet(m2) /\ Cardinality(b2) <= Cardinality(b) + in
             /\ Cardinality(m2) <= Cardinality(m) + out /\ in \in Nat /\ out \in Nat
  <2>1. in = 0 /\ out = 1
    <3>1. T \ T2 = {y} /\ T2 \ T = {}  BY <1>6 DEF Joins
    <3>. QED  BY <3>1, FS_EmptySet, FS_Singleton
  <2>2. b2 \subseteq b /\ \A x, z \in m2 \ m : x = z
    BY <1>6, RowGoes
  <2>. HIDE DEF b, b2, m, m2, in, out
  <2>3. IsFiniteSet(m2) /\ Cardinality(m2) <= Cardinality(m) + 1
    BY <1>1, <2>2, AtMostOneMore
  <2>4. Cardinality(b2) <= Cardinality(b)
    BY <1>1, <2>2, FS_Subset
  <2>5. Cardinality(b) \in Nat /\ Cardinality(b2) \in Nat
    BY <1>1, FS_CardinalityType
  <2>. QED  BY <2>1, <2>3, <2>4, <2>5
<1>. QED  BY <1>4, <1>5, <1>6 DEF OneRow

(* What the handler's step does to the tables. *)
LEMMA RowsSort ==
  ASSUME NEW rows, rows \subseteq Nat \X (1..MaxEvents), IsFiniteSet(rows)
  PROVE  Sortable(rows) /\ rows \subseteq Nat \X Nat
<1>1. \A p \in Nat \X (1..MaxEvents) : p \in Nat \X Nat
  BY HandlerAssumption
<1>. QED  BY <1>1, RowsSortable

LEMMA TablesMove ==
  ASSUME HandlerInv, Write
  PROVE  OneRow(trades, trades') /\ OneRow(orders, orders') /\ markers \subseteq markers'
<1>1. \A T, y : OneRow(T, T \cup {y}) /\ OneRow(T, T \ {y}) /\ OneRow(T, T)
  <2>. SUFFICES ASSUME NEW T, NEW y PROVE OneRow(T, T \cup {y}) /\ OneRow(T, T \ {y}) /\ OneRow(T, T)
    OBVIOUS
  <2>1. CASE y \in T
    <3>1. T \cup {y} = T /\ y \notin T \ {y} /\ T = (T \ {y}) \cup {y}  BY <2>1
    <3>. QED  BY <3>1 DEF OneRow, Joins
  <2>2. CASE y \notin T
    <3>1. T \ {y} = T  BY <2>2
    <3>. QED  BY <2>2, <3>1 DEF OneRow, Joins
  <2>. QED  BY <2>1, <2>2
<1>2. CASE UNCHANGED <<trades, markers, orders>>
  BY <1>1, <1>2
<1>3. CASE Store
  <2>1. trades' = trades \cup {Row(now)} /\ markers \subseteq markers'  BY <1>3 DEF Store
  <2>2. \/ orders' = orders \cup {<<now.price, now.id>>}
        \/ orders' = orders \ {now.order}
        \/ orders' = orders
    BY <1>3 DEF Store
  <2>. QED  BY <1>1, <2>1, <2>2
<1>. QED
  BY <1>2, <1>3 DEF Write, OpenOrder, Swap, CloseOrder, CreateMint, Handle, Put, PutFails, StoreFails,
                    tables

(* A walk through table T. *)
Keys == Nat \X Nat
Walk == [phase : {"walking", "done"}, table : {"mints", "events", "orders"}, desc : BOOLEAN,
         limit : Nat, page : Nat \ {0}, cursor : {NoCursor} \cup Keys, got : Seq(Keys),
         base : SUBSET Keys, added : Nat, removed : Nat]

Along(w, T) ==
  IF w.table = "mints"
    THEN w.base \subseteq T /\ CursorGood(T, w.base, ToSet(w.got), w.cursor, w.desc)
    ELSE Counted(T, w.base, ToSet(w.got), Len(w.got), (w.page - 1) * w.limit, w.desc, w.added, w.removed)
AtEnd(w) == Cardinality(w.base \ ToSet(w.got)) <= w.removed
Repeats(w) == Len(w.got) - Cardinality(ToSet(w.got)) <= IF w.table = "mints" THEN 0 ELSE w.added

WalkGood(w, T) ==
  /\ w \in Walk
  /\ w.phase = "walking" => Along(w, T)
  /\ w.phase = "done" => AtEnd(w)
  /\ IsFiniteSet(ToSet(w.got)) /\ Repeats(w)

LEMMA WalkStarts ==
  ASSUME NEW T, T \subseteq Keys, NEW name \in {"mints", "events", "orders"},
         NEW desc \in BOOLEAN, NEW limit \in Nat, name # "mints" => Sortable(T),
         NEW w, w = [phase |-> "walking", table |-> name, desc |-> desc, limit |-> limit,
                     page |-> 1, cursor |-> NoCursor, got |-> <<>>,
                     base |-> T, added |-> 0, removed |-> 0]
  PROVE  WalkGood(w, T)
<1>1. w \in Walk
  BY DEF Walk
<1>2. /\ w.phase = "walking" /\ w.table = name /\ w.desc = desc /\ w.limit = limit /\ w.page = 1
      /\ w.cursor = NoCursor /\ w.got = <<>> /\ w.base = T /\ w.added = 0 /\ w.removed = 0
  OBVIOUS
<1>3. ToSet(w.got) = {} /\ Len(w.got) = 0
  BY <1>2 DEF ToSet
<1>4. IsFiniteSet({}) /\ Cardinality({}) = 0
  BY FS_EmptySet
<1>5. name = "mints" => Along(w, T)
  BY <1>2, <1>3 DEF Along, CursorGood
<1>6. ASSUME name # "mints" PROVE Along(w, T)
  <2>1. \A x \in T : Place(T, x, desc) \in Nat
    BY <1>6, PlacesDiffer
  <2>2. (1 - 1) * limit = 0
    OBVIOUS
  <2>3. Missed(T, T, {}, 0, desc) = {} /\ Beyond(T, {}, 0, desc) = {}
    BY <2>1 DEF Missed, Beyond
  <2>4. PICK e : e = {} /\ IsFiniteSet(e) /\ Cardinality(e) = 0
    BY <1>4
  <2>5. Missed(T, T, e, 0, desc) = e /\ Beyond(T, e, 0, desc) = e
    BY <2>3, <2>4
  <2>6. Counted(T, T, e, 0, 0, desc, 0, 0)
    <3>1. IsFiniteSet(e) /\ Cardinality(e) = 0  BY <2>4
    <3>. QED  BY <2>5, <3>1 DEF Counted
  <2>7. ToSet(w.got) = e
    BY <1>3, <2>4
  <2>. QED  BY <1>2, <1>3, <1>6, <2>2, <2>6, <2>7 DEF Along
<1>7. Repeats(w)
  <2>1. Cardinality(ToSet(w.got)) = 0  BY <1>3, <1>4
  <2>. QED  BY <1>2, <1>3, <2>1 DEF Repeats
<1>. QED  BY <1>1, <1>2, <1>3, <1>4, <1>5, <1>6, <1>7 DEF WalkGood

LEMMA Offset ==
  ASSUME NEW page \in Nat \ {0}, NEW limit \in Nat
  PROVE  (page - 1) * limit \in Nat /\ ((page + 1) - 1) * limit = (page - 1) * limit + limit
OBVIOUS

(* The walk after a page r. *)
Turned(w, r) ==
  [w EXCEPT !.phase = IF r.has_next THEN "walking" ELSE "done",
            !.page = @ + 1,
            !.cursor = IF w.table = "mints" THEN r.next_cursor ELSE NoCursor,
            !.got = @ \o r.items]

TurnedTo(w, r, w2) ==
  /\ w2 \in Walk
  /\ w2.phase = IF r.has_next THEN "walking" ELSE "done"
  /\ w2.page = w.page + 1 /\ w2.table = w.table /\ w2.limit = w.limit /\ w2.base = w.base
  /\ w2.desc = w.desc /\ w2.added = w.added /\ w2.removed = w.removed
  /\ w.table = "mints" => w2.cursor = r.next_cursor
  /\ w2.got \in Seq(Keys) /\ Len(w2.got) = Len(w.got) + Len(r.items)
  /\ ToSet(w2.got) = ToSet(w.got) \cup ToSet(r.items)

LEMMA TurnedIs ==
  ASSUME NEW w \in Walk, NEW r, NEW T, T \subseteq Keys, r.items \in Seq(T), r.has_next \in BOOLEAN,
         w.table = "mints" => r.next_cursor \in {NoCursor} \cup T,
         NEW w2, w2 = Turned(w, r)
  PROVE  TurnedTo(w, r, w2)
<1>1. r.items \in Seq(Keys)
  <2>1. \A R, X : R \subseteq X => \A t \in Seq(R) : t \in Seq(X)  OBVIOUS
  <2>. QED  BY <2>1
<1>2. w.got \in Seq(Keys) /\ w.page \in Nat \ {0} /\ w.page + 1 \in Nat \ {0}
  BY DEF Walk
<1>3. /\ w.got \o r.items \in Seq(Keys) /\ Len(w.got \o r.items) = Len(w.got) + Len(r.items)
      /\ ToSet(w.got \o r.items) = ToSet(w.got) \cup ToSet(r.items)
  BY <1>1, <1>2, Added
<1>4. PICK g, c, ph : /\ g = w.got \o r.items
                      /\ c = IF w.table = "mints" THEN r.next_cursor ELSE NoCursor
                      /\ ph = IF r.has_next THEN "walking" ELSE "done"
  OBVIOUS
<1>5. w2 = [w EXCEPT !.phase = ph, !.page = w.page + 1, !.cursor = c, !.got = g]
  BY <1>4 DEF Turned
<1>6. g \in Seq(Keys) /\ c \in {NoCursor} \cup Keys /\ ph \in {"walking", "done"}
  BY <1>3, <1>4
<1>7. w2 \in Walk
  BY <1>2, <1>5, <1>6 DEF Walk
<1>8. /\ w2.phase = ph /\ w2.page = w.page + 1 /\ w2.cursor = c /\ w2.got = g
      /\ w2.table = w.table /\ w2.limit = w.limit /\ w2.base = w.base
      /\ w2.desc = w.desc /\ w2.added = w.added /\ w2.removed = w.removed
  BY <1>5 DEF Walk
<1>. QED  BY <1>3, <1>4, <1>6, <1>7, <1>8 DEF TurnedTo

LEMMA WalkTurns ==
  ASSUME NEW T, T \subseteq Keys, Sortable(T), NEW w, WalkGood(w, T), w.phase = "walking",
         w.table # "mints", NEW r, r = PageOf(T, w.desc, w.page, w.limit), NEW w2, w2 = Turned(w, r)
  PROVE  WalkGood(w2, T)
<1>. DEFINE o == (w.page - 1) * w.limit
            n == Cardinality(T)
            G == ToSet(w.got)
            G2 == G \cup ToSet(r.items)
<1>1. /\ w \in Walk /\ w.desc \in BOOLEAN /\ w.limit \in Nat /\ w.page \in Nat \ {0}
      /\ w.added \in Nat /\ w.removed \in Nat /\ w.got \in Seq(Keys) /\ Len(w.got) \in Nat
      /\ IsFiniteSet(G)
      /\ Counted(T, w.base, G, Len(w.got), o, w.desc, w.added, w.removed)
  BY DEF WalkGood, Along, Walk
<1>2. o \in Nat /\ ((w.page + 1) - 1) * w.limit = o + w.limit
  BY <1>1, Offset
<1>3. r.items = PageItems(T, w.desc, o, w.limit) /\ r.has_next = (o + w.limit < n)
  <2>1. Len(Sorted(T, w.desc)) = n
    <3>1. IsOrder(T, ByValue(T, w.desc))  BY <1>1, ByValueIsOrder
    <3>. QED  BY <3>1, ListedOnce DEF Sorted
  <2>. QED  BY <2>1 DEF PageOf, PageItems
<1>. HIDE DEF o, G
<1>4. /\ PageTurned(T, w.desc, o, w.limit, r.items, w.base, G, G2)
      /\ r.items \in Seq(T) /\ IsFiniteSet(G2)
  <2>1. PageTurned(T, w.desc, o, w.limit, r.items, w.base, G, G \cup ToSet(r.items))
    BY <1>1, <1>2, <1>3, PageTurns
  <2>. QED  BY <2>1 DEF PageTurned
<1>5. /\ w2 \in Walk /\ w2.phase = IF r.has_next THEN "walking" ELSE "done"
      /\ w2.page = w.page + 1 /\ w2.table = w.table /\ w2.limit = w.limit /\ w2.base = w.base
      /\ w2.desc = w.desc /\ w2.added = w.added /\ w2.removed = w.removed
      /\ Len(w2.got) = Len(w.got) + Len(r.items) /\ ToSet(w2.got) = G2
  <2>1. r.has_next \in BOOLEAN  BY <1>3
  <2>2. TurnedTo(w, r, w2)  BY <1>1, <1>4, <2>1, TurnedIs
  <2>. QED  BY <2>2 DEF G, TurnedTo
<1>6. /\ IsFiniteSet(Missed(T, w.base, G, o, w.desc))
      /\ Cardinality(Missed(T, w.base, G, o, w.desc)) <= w.removed
      /\ Cardinality(Missed(T, w.base, G, o, w.desc)) \in Nat
      /\ Len(w.got) - Cardinality(G) + Cardinality(Beyond(T, G, o, w.desc)) <= w.added
  BY <1>1, FS_CardinalityType DEF Counted
<1>7. Cardinality(G) \in Nat /\ Cardinality(Beyond(T, G, o, w.desc)) \in Nat /\ Len(r.items) \in Nat
  <2>1. Beyond(T, G, o, w.desc) \subseteq T  BY DEF Beyond
  <2>2. IsFiniteSet(Beyond(T, G, o, w.desc))  BY <2>1, FS_Subset DEF Sortable
  <2>. QED  BY <1>1, <1>4, <2>2, FS_CardinalityType
<1>. HIDE DEF G2
<1>13. /\ Missed(T, w.base, G2, o + w.limit, w.desc) \subseteq Missed(T, w.base, G, o, w.desc)
       /\ ~(o + w.limit < n) => w.base \ G2 \subseteq Missed(T, w.base, G, o, w.desc)
  BY <1>4 DEF PageTurned
<1>8. /\ Len(w2.got) - Cardinality(G2) + Cardinality(Beyond(T, G2, o + w.limit, w.desc)) <= w.added
      /\ Len(w2.got) - Cardinality(G2) <= w.added
  <2>. DEFINE x == Cardinality(Beyond(T, G2, o + w.limit, w.desc))
              y == Cardinality(Beyond(T, G, o, w.desc))
              g == Cardinality(G)
              g2 == Cardinality(G2)
              k == Len(r.items)
              l == Len(w.got)
  <2>1. k - g2 + x = y - g /\ x \in Nat /\ g2 \in Nat  BY <1>4 DEF PageTurned
  <2>2. g \in Nat /\ y \in Nat /\ k \in Nat /\ l \in Nat /\ w.added \in Nat  BY <1>1, <1>7
  <2>3. l - g + y <= w.added /\ Len(w2.got) = l + k  BY <1>5, <1>6
  <2>. HIDE DEF x, y, g, g2, k, l
  <2>4. Len(w2.got) - g2 + x <= w.added /\ Len(w2.got) - g2 <= w.added
    BY <2>1, <2>2, <2>3
  <2>. QED  BY <2>4 DEF x, g2
<1>9. ASSUME NEW M, M \subseteq Missed(T, w.base, G, o, w.desc)
      PROVE  IsFiniteSet(M) /\ Cardinality(M) <= w.removed
  <2>1. IsFiniteSet(M) /\ Cardinality(M) <= Cardinality(Missed(T, w.base, G, o, w.desc))
    BY <1>6, <1>9, FS_Subset
  <2>2. Cardinality(M) \in Nat  BY <2>1, FS_CardinalityType
  <2>. QED  BY <1>1, <1>6, <2>1, <2>2
<1>10. Along(w2, T)
  <2>1. Counted(T, w.base, G2, Len(w2.got), o + w.limit, w.desc, w.added, w.removed)
    BY <1>13, <1>8, <1>9 DEF Counted
  <2>. QED  BY <1>2, <1>5, <2>1 DEF Along
<1>11. w2.phase = "done" => AtEnd(w2)
  <2>1. SUFFICES ASSUME w2.phase = "done" PROVE AtEnd(w2)  OBVIOUS
  <2>2. ~(o + w.limit < n)  BY <1>3, <1>5, <2>1
  <2>3. Cardinality(w.base \ G2) <= w.removed  BY <1>13, <1>9, <2>2
  <2>. QED  BY <1>5, <2>3 DEF AtEnd
<1>12. Repeats(w2)
  BY <1>5, <1>8 DEF Repeats
<1>. QED  BY <1>4, <1>5, <1>10, <1>11, <1>12 DEF WalkGood

LEMMA WalkTurnsByCursor ==
  ASSUME NEW T, T \subseteq Keys, IsFiniteSet(T), NEW w, WalkGood(w, T), w.phase = "walking",
         w.table = "mints", NEW r, r = MintsFrom(T, w.desc, w.cursor, w.limit),
         NEW w2, w2 = Turned(w, r)
  PROVE  WalkGood(w2, T)
<1>. DEFINE G == ToSet(w.got)
            G2 == G \cup ToSet(r.items)
<1>1. /\ w \in Walk /\ w.desc \in BOOLEAN /\ w.limit \in Nat /\ w.got \in Seq(Keys) /\ Len(w.got) \in Nat
      /\ w.added \in Nat /\ w.removed \in Nat /\ IsFiniteSet(G) /\ w.base \subseteq T
      /\ CursorGood(T, w.base, G, w.cursor, w.desc)
      /\ Len(w.got) - Cardinality(G) <= 0
  BY DEF WalkGood, Along, Walk, Repeats
<1>. HIDE DEF G
<1>2. /\ r.items \in Seq(T) /\ IsFiniteSet(G2)
      /\ Len(r.items) - Cardinality(G2) = 0 - Cardinality(G)
      /\ Cardinality(G) \in Nat /\ Cardinality(G2) \in Nat
      /\ r.has_next \in BOOLEAN /\ r.next_cursor \in {NoCursor} \cup T
      /\ r.has_next => CursorGood(T, w.base, G2, r.next_cursor, w.desc)
      /\ ~r.has_next => w.base \subseteq G2
  <2>1. CursorMoved(T, w.desc, w.base, G, r, G \cup ToSet(r.items))
    BY <1>1, CursorMoves DEF Keys
  <2>. QED  BY <2>1 DEF CursorMoved
<1>3. /\ w2 \in Walk /\ w2.phase = IF r.has_next THEN "walking" ELSE "done"
      /\ w2.table = "mints" /\ w2.base = w.base /\ w2.desc = w.desc /\ w2.removed = w.removed
      /\ w2.cursor = r.next_cursor
      /\ Len(w2.got) = Len(w.got) + Len(r.items) /\ ToSet(w2.got) = G2
  <2>1. TurnedTo(w, r, w2)  BY <1>1, <1>2, TurnedIs
  <2>. QED  BY <2>1 DEF TurnedTo, G
<1>. HIDE DEF G2
<1>4. w2.phase = "walking" => Along(w2, T)
  BY <1>1, <1>2, <1>3 DEF Along
<1>5. w2.phase = "done" => AtEnd(w2)
  <2>1. SUFFICES ASSUME w2.phase = "done" PROVE AtEnd(w2)  OBVIOUS
  <2>2. w.base \ G2 = {}  BY <1>2, <1>3, <2>1
  <2>3. Cardinality(w.base \ G2) = 0  BY <2>2, FS_EmptySet
  <2>4. Cardinality(w.base \ G2) <= w.removed  BY <1>1, <2>3
  <2>. QED  BY <1>3, <2>4 DEF AtEnd
<1>6. Repeats(w2)
  <2>1. Len(r.items) \in Nat  BY <1>2
  <2>. DEFINE g == Cardinality(G)   g2 == Cardinality(G2)   k == Len(r.items)   l == Len(w.got)
  <2>2. g \in Nat /\ g2 \in Nat /\ k - g2 = 0 - g /\ l - g <= 0 /\ l \in Nat /\ k \in Nat
    BY <1>1, <1>2, <2>1
  <2>4. Len(w2.got) = l + k  BY <1>3
  <2>. HIDE DEF g, g2, k, l
  <2>3. Len(w2.got) - g2 <= 0  BY <2>2, <2>4
  <2>. QED  BY <1>3, <2>3 DEF Repeats, g2
<1>. QED  BY <1>2, <1>3, <1>4, <1>5, <1>6 DEF WalkGood

(* The walk when the handler has changed its table. *)
Seen(w, T, T2) ==
  [w EXCEPT !.added = @ + Cardinality(T2 \ T), !.removed = @ + Cardinality(T \ T2)]

LEMMA WalkSees ==
  ASSUME NEW T, T \subseteq Keys, IsFiniteSet(T), NEW T2, T2 \subseteq Keys, IsFiniteSet(T2),
         NEW w, WalkGood(w, T), w.phase = "walking",
         w.table = "mints" => T \subseteq T2,
         w.table # "mints" => Sortable(T) /\ Sortable(T2) /\ OneRow(T, T2),
         NEW w2, w2 = Seen(w, T, T2)
  PROVE  WalkGood(w2, T2)
<1>. DEFINE in == Cardinality(T2 \ T)
            out == Cardinality(T \ T2)
            G == ToSet(w.got)
<1>1. in \in Nat /\ out \in Nat
  <2>1. IsFiniteSet(T2 \ T) /\ IsFiniteSet(T \ T2)  BY FS_Difference
  <2>. QED  BY <2>1, FS_CardinalityType
<1>2. w \in Walk /\ Along(w, T) /\ IsFiniteSet(G) /\ Repeats(w)
  BY DEF WalkGood
<1>3. /\ w.desc \in BOOLEAN /\ w.limit \in Nat /\ w.page \in Nat \ {0} /\ w.got \in Seq(Keys)
      /\ Len(w.got) \in Nat /\ w.added \in Nat /\ w.removed \in Nat
  BY <1>2 DEF Walk
<1>4. w2 = [w EXCEPT !.added = w.added + in, !.removed = w.removed + out]
  BY DEF Seen
<1>. HIDE DEF in, out, G
<1>5. w.added + in \in Nat /\ w.removed + out \in Nat
  BY <1>1, <1>3
<1>6. w2 \in Walk
  BY <1>2, <1>4, <1>5 DEF Walk
<1>7. /\ w2.phase = w.phase /\ w2.table = w.table /\ w2.desc = w.desc /\ w2.limit = w.limit
      /\ w2.page = w.page /\ w2.cursor = w.cursor /\ w2.got = w.got /\ w2.base = w.base
      /\ w2.added = w.added + in /\ w2.removed = w.removed + out
  BY <1>2, <1>4 DEF Walk
<1>8. CASE w.table = "mints"
  <2>1. w.base \subseteq T /\ CursorGood(T, w.base, G, w.cursor, w.desc)
    BY <1>2, <1>8 DEF Along, G
  <2>2. w.base \subseteq T2 /\ CursorGood(T2, w.base, G, w.cursor, w.desc)
    BY <1>8, <2>1 DEF CursorGood
  <2>3. Along(w2, T2)
    BY <1>7, <1>8, <2>2 DEF Along, G
  <2>4. Repeats(w2)
    BY <1>2, <1>7, <1>8 DEF Repeats
  <2>. QED  BY <1>2, <1>6, <1>7, <2>3, <2>4 DEF WalkGood, G
<1>9. CASE w.table # "mints"
  <2>. DEFINE o == (w.page - 1) * w.limit
  <2>1. o \in Nat  BY <1>3, Offset
  <2>2. Counted(T, w.base, G, Len(w.got), o, w.desc, w.added, w.removed)
    BY <1>2, <1>9 DEF Along, G
  <2>. HIDE DEF o
  <2>3. Counted(T2, w.base, G, Len(w.got), o, w.desc, w.added + in, w.removed + out)
    BY <1>2, <1>3, <1>9, <2>1, <2>2, StillCounted DEF in, out
  <2>4. Along(w2, T2)
    BY <1>7, <1>9, <2>3 DEF Along, G, o
  <2>5. Repeats(w2)
    <3>1. Len(w.got) - Cardinality(G) <= w.added  BY <1>2, <1>9 DEF Repeats, G
    <3>2. Cardinality(G) \in Nat  BY <1>2, FS_CardinalityType
    <3>3. Len(w.got) - Cardinality(G) <= w.added + in  BY <1>1, <1>3, <3>1, <3>2
    <3>. QED  BY <1>7, <1>9, <3>3 DEF Repeats, G
  <2>. QED  BY <1>2, <1>6, <1>7, <2>4, <2>5 DEF WalkGood, G
<1>. QED  BY <1>8, <1>9

WalkInv == walk \in {NoWalk, Finished} \/ WalkGood(walk, Table(walk.table))

LEMMA Waiting ==
  /\ NoWalk.phase = "none" /\ Finished.phase = "finished" /\ NoWalk # Finished
  /\ \A w \in Walk : /\ w.phase \in {"walking", "done"} /\ w.table \in {"mints", "events", "orders"}
                     /\ w \notin {NoWalk, Finished}
<1>1. NoWalk.phase = "none" /\ Finished.phase = "finished"
  BY DEF NoWalk, Finished
<1>2. \A w \in Walk : w.phase \in {"walking", "done"} /\ w.table \in {"mints", "events", "orders"}
  BY DEF Walk
<1>. QED  BY <1>1, <1>2

LEMMA TablesAre ==
  /\ Table("mints") = markers /\ Table("events") = trades /\ Table("orders") = orders
  /\ TableIn("mints", markers', trades', orders') = markers'
  /\ TableIn("events", markers', trades', orders') = trades'
  /\ TableIn("orders", markers', trades', orders') = orders'
BY DEF Table, TableIn

LEMMA WalkIsForgotten == ASSUME WalkInv, walk' = WalkAfter, UNCHANGED tables PROVE WalkInv'
<1>1. CASE walk.phase = "done"
  BY <1>1 DEF WalkAfter, WalkInv
<1>2. CASE walk.phase # "done"
  <2>1. walk' = walk  BY <1>2 DEF WalkAfter
  <2>. QED  BY <2>1 DEF WalkInv, Table, tables
<1>. QED  BY <1>1, <1>2

TablesGoodFor(m, t, o) ==
  /\ Sortable(t) /\ Sortable(o)
  /\ m \subseteq Keys /\ t \subseteq Keys /\ o \subseteq Keys
  /\ IsFiniteSet(m) /\ IsFiniteSet(t) /\ IsFiniteSet(o)

LEMMA TablesSort ==
  ASSUME NEW m, NEW t, NEW o, m \subseteq Creations, t \subseteq Nat \X (1..MaxEvents),
         o \subseteq Nat \X (1..MaxEvents), IsFiniteSet(m), IsFiniteSet(t), IsFiniteSet(o)
  PROVE  TablesGoodFor(m, t, o)
<1>1. m \subseteq Keys
  BY HandlerAssumption DEF Keys
<1>2. Sortable(t) /\ t \subseteq Keys /\ Sortable(o) /\ o \subseteq Keys
  BY RowsSort DEF Keys
<1>. QED  BY <1>1, <1>2 DEF TablesGoodFor

LEMMA WriteForWalk ==
  ASSUME HandlerInv, TablesFinite, WalkInv, WriteAside
  PROVE  WalkInv'
<1>1. HandlerInv' /\ TablesFinite'
  BY HandlerStep, FiniteStep DEF WriteAside
<1>2. TablesGoodFor(markers, trades, orders)
  BY TablesSort DEF HandlerInv, HandlerTypeOK, TablesFinite
<1>3. TablesGoodFor(markers', trades', orders')
  BY <1>1, TablesSort DEF HandlerInv, HandlerTypeOK, TablesFinite
<1>4. OneRow(trades, trades') /\ OneRow(orders, orders') /\ markers \subseteq markers'
  BY TablesMove DEF WriteAside
<1>5. CASE walk.phase # "walking"
  <2>1. walk' = WalkAfter  BY <1>5 DEF WriteAside
  <2>2. CASE walk.phase = "done"
    BY <2>1, <2>2 DEF WalkAfter, WalkInv
  <2>3. CASE walk.phase # "done"
    <3>1. walk \in {NoWalk, Finished}  BY <1>5, <2>3, Waiting DEF WalkInv, WalkGood
    <3>. QED  BY <2>1, <2>3, <3>1 DEF WalkAfter, WalkInv
  <2>. QED  BY <2>2, <2>3
<1>6. CASE walk.phase = "walking"
  <2>1. WalkGood(walk, Table(walk.table)) /\ walk.table \in {"mints", "events", "orders"}
    BY <1>6, Waiting DEF WalkInv, WalkGood
  <2>. DEFINE new == TableIn(walk.table, markers', trades', orders')
  <2>2. walk' = Seen(walk, Table(walk.table), new)
    BY <1>6 DEF WriteAside, Seen
  <2>3. /\ Table(walk.table) \subseteq Keys /\ IsFiniteSet(Table(walk.table))
        /\ new \subseteq Keys /\ IsFiniteSet(new)
        /\ walk.table = "mints" => Table(walk.table) \subseteq new
        /\ walk.table # "mints" => /\ Sortable(Table(walk.table)) /\ Sortable(new)
                                   /\ OneRow(Table(walk.table), new)
    BY <1>2, <1>3, <1>4, <2>1, TablesAre DEF TablesGoodFor
  <2>. HIDE DEF new
  <2>4. WalkGood(walk', new)
    BY <1>6, <2>1, <2>2, <2>3, WalkSees
  <2>5. walk'.table = walk.table
    BY <2>1, <2>2 DEF WalkGood, Walk, Seen
  <2>6. Table(walk.table)' = new
    BY <2>5 DEF Table, new
  <2>. QED  BY <2>4, <2>6 DEF WalkInv
<1>. QED  BY <1>5, <1>6

LEMMA StartForWalk ==
  ASSUME HandlerInv, TablesFinite, NEW name \in {"mints", "events", "orders"},
         NEW desc \in BOOLEAN, NEW limit \in Nat, StartWalk(name, desc, limit)
  PROVE  WalkInv'
<1>1. TablesGoodFor(markers, trades, orders)
  BY TablesSort DEF HandlerInv, HandlerTypeOK, TablesFinite
<1>2. Table(name) \subseteq Keys /\ (name # "mints" => Sortable(Table(name)))
  BY <1>1, TablesAre DEF TablesGoodFor
<1>3. walk' = [phase |-> "walking", table |-> name, desc |-> desc, limit |-> limit,
               page |-> 1, cursor |-> NoCursor, got |-> <<>>,
               base |-> Table(name), added |-> 0, removed |-> 0]
  BY DEF StartWalk
<1>4. WalkGood(walk', Table(name))
  BY <1>2, <1>3, WalkStarts
<1>5. walk'.table = name
  BY <1>3
<1>6. UNCHANGED <<markers, trades, orders>>
  BY DEF StartWalk, handlerVars, tables
<1>. QED  BY <1>4, <1>5, <1>6 DEF WalkInv, Table

LEMMA PageForWalk ==
  ASSUME HandlerInv, TablesFinite, WalkInv, NextPage
  PROVE  WalkInv'
<1>1. TablesGoodFor(markers, trades, orders)
  BY TablesSort DEF HandlerInv, HandlerTypeOK, TablesFinite
<1>2. WalkGood(walk, Table(walk.table)) /\ walk.table \in {"mints", "events", "orders"}
      /\ walk.phase = "walking"
  BY Waiting DEF WalkInv, WalkGood, NextPage
<1>3. PICK r : /\ walk' = Turned(walk, r)
               /\ walk.table = "events" => r = PageOf(trades, walk.desc, walk.page, walk.limit)
               /\ walk.table = "orders" => r = PageOf(orders, walk.desc, walk.page, walk.limit)
               /\ walk.table = "mints" => r = MintsFrom(markers, walk.desc, walk.cursor, walk.limit)
  <2>. DEFINE r == CASE walk.table = "events" -> EventsPage
                     [] walk.table = "orders" -> OrdersPage
                     [] walk.table = "mints" -> MintsPage
  <2>1. walk' = Turned(walk, r)  BY DEF NextPage, Turned
  <2>2. /\ walk.table = "events" => r = EventsPage
        /\ walk.table = "orders" => r = OrdersPage
        /\ walk.table = "mints" => r = MintsPage
    OBVIOUS
  <2>. HIDE DEF r
  <2>. QED  BY <2>1, <2>2 DEF EventsPage, OrdersPage, MintsPage
<1>4. WalkGood(walk', Table(walk.table))
  <2>1. CASE walk.table = "mints"
    BY <1>1, <1>2, <1>3, <2>1, TablesAre, WalkTurnsByCursor DEF TablesGoodFor
  <2>2. CASE walk.table = "events"
    <3>1. walk.table # "mints"  BY <2>2
    <3>. QED  BY <1>1, <1>2, <1>3, <2>2, <3>1, TablesAre, WalkTurns DEF TablesGoodFor
  <2>3. CASE walk.table = "orders"
    <3>1. walk.table # "mints"  BY <2>3
    <3>. QED  BY <1>1, <1>2, <1>3, <2>3, <3>1, TablesAre, WalkTurns DEF TablesGoodFor
  <2>. QED  BY <1>2, <2>1, <2>2, <2>3
<1>5. walk'.table = walk.table
  BY <1>2, <1>3 DEF WalkGood, Walk, Turned
<1>6. UNCHANGED <<markers, trades, orders>>
  BY DEF NextPage, handlerVars, tables
<1>. QED  BY <1>4, <1>5, <1>6 DEF WalkInv, Table

LEMMA WalkAlways == Spec => []WalkInv
<1>1. Init => WalkInv
  BY DEF Init, WalkInv
<1>2. ASSUME HandlerInv, TablesFinite, WalkInv, [Next]_vars PROVE WalkInv'
  <2>1. CASE WriteAside
    BY <1>2, <2>1, WriteForWalk
  <2>2. CASE AnnounceToRoom \/ PushToRoom
    BY <1>2, <2>2, WalkIsForgotten DEF AnnounceToRoom, PushToRoom, Announce, Push
  <2>3. ASSUME UNCHANGED <<handlerVars, walk>> PROVE WalkInv'
    BY <1>2, <2>3 DEF WalkInv, Table, handlerVars, tables
  <2>4. CASE (\E i \in Rooms : Subscribe(i)) \/ Join \/ ReadCandles \/ SendCandles
             \/ ReadEvents \/ SendEvents \/ Confirm
    BY <2>3, <2>4 DEF Subscribe, Join, ReadCandles, SendCandles, ReadEvents, SendEvents, Confirm, SubStep
  <2>5. ASSUME NEW desc \in BOOLEAN, NEW limit \in Limits,
               WalkEvents(desc, limit) \/ WalkOrders(desc, limit) \/ WalkMints(desc, limit)
        PROVE  WalkInv'
    <3>1. PICK name \in {"mints", "events", "orders"} : StartWalk(name, desc, limit)
      BY <2>5 DEF WalkEvents, WalkOrders, WalkMints
    <3>2. limit \in Nat  BY QueriesAssumption
    <3>. QED  BY <1>2, <3>1, <3>2, StartForWalk
  <2>6. CASE NextPage
    BY <1>2, <2>6, PageForWalk
  <2>7. CASE UNCHANGED vars
    BY <2>3, <2>7 DEF vars
  <2>. QED  BY <1>2, <2>1, <2>2, <2>4, <2>5, <2>6, <2>7 DEF Next
<1>. QED  BY <1>1, <1>2, HandlerAlways, FiniteAlways, PTL DEF Spec

(* A walk that has shown its last page has missed at most as many rows of   *)
(* the listing it began with as were removed on the way: a new row pushes  *)
(* rows to later pages, a row that goes draws at most one to a page past.  *)
THEOREM WalkMisses == Spec => []WalkMissesLittle
<1>1. WalkInv => WalkMissesLittle
  BY Waiting DEF WalkInv, WalkGood, AtEnd, WalkMissesLittle, Got
<1>. QED  BY <1>1, WalkAlways, PTL

(* A walk shows a row again at most once for each row that came in, and a   *)
(* walk from cursor to cursor never: query_mints starts after the cursor.  *)
THEOREM WalkRepeats == Spec => []WalkRepeatsLittle
<1>1. WalkInv => WalkRepeatsLittle
  BY Waiting DEF WalkInv, WalkGood, Repeats, WalkRepeatsLittle, Got
<1>. QED  BY <1>1, WalkAlways, PTL

(* Types of every variable. *)
THEOREM TypeCorrect == Spec => []TypeOK
<1>1. WalkInv => \/ walk \in {NoWalk, Finished}
                 \/ walk.phase \in {"walking", "done"} /\ walk.got \in Seq(Nat \X Nat)
  BY DEF WalkInv, WalkGood, Walk, Keys
<1>2. SubInv => \/ sub = NoSub
                \/ /\ sub.phase \in {"opening", "live"} /\ sub.interval \in Intervals
                   /\ sub.view \subseteq Candle /\ sub.seen \subseteq Nat \X (1..MaxEvents)
  <2>. SUFFICES ASSUME NEW n \in 1..7, Stage(n), ViewInv(n), SeenInv(n)
                PROVE  /\ sub.phase \in {"opening", "live"} /\ sub.interval \in Intervals
                       /\ sub.view \subseteq Candle /\ sub.seen \subseteq Nat \X (1..MaxEvents)
    BY DEF SubInv
  <2>1. sub.phase \in {"opening", "live"} /\ sub.interval \in Intervals
    BY DEF Stage
  <2>2. sub.view \subseteq Candle
    BY DEF ViewInv, ViewGood
  <2>3. sub.seen \subseteq Nat \X (1..MaxEvents)
    BY DEF SeenInv, SeenGood, Heard
  <2>. QED  BY <2>1, <2>2, <2>3
<1>3. HandlerInv /\ WalkInv /\ SubInv => TypeOK
  BY <1>1, <1>2 DEF TypeOK, HandlerInv
<1>. QED  BY <1>3, HandlerAlways, WalkAlways, SubscriberAlways, PTL
=============================================================================
