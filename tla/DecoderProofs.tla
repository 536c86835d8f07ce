---------------------------- MODULE DecoderProofs ----------------------------
(***************************************************************************)
(* Theorems about Decoder: for strings of any length, the hand-written     *)
(* offsets of parse_event_data agree with what the program writes.         *)
(***************************************************************************)
EXTENDS MCListener, Induction, SequenceTheorems

-----------------------------------------------------------------------------
(* Chunks laid out one after the other *)

LEMMA Flattened ==
  ASSUME NEW X, NEW w \in Seq(Seq(X)), Len(w) >= 1
  PROVE  \E f \in [1..Len(w) -> Seq(X)] :
           /\ f[1] = w[1] /\ \A i \in 2..Len(w) : f[i] = f[i - 1] \o w[i]
           /\ FlattenSeq(w) = f[Len(w)]
<1>. DEFINE L == Len(w)  S == Seq(X)
            F(g) == [i \in 1..L |-> IF i = 1 THEN w[i] ELSE g[i - 1] \o w[i]]
            G == [n \in 1..L - 1 |-> [s \in S |-> s \o w[n + 1]]]
<1>1. L \in Nat /\ L - 1 \in Nat /\ \A i \in 1..L : w[i] \in S
  OBVIOUS
<1>2. \A n \in 1..L - 1 : \A s \in S : G[n][s] = s \o w[n + 1] /\ G[n][s] \in S
  <2>1. ASSUME NEW n \in 1..L - 1, NEW s \in S PROVE s \o w[n + 1] \in S
    <3>1. w[n + 1] \in S  BY <1>1
    <3>. QED  BY <3>1, ConcatProperties
  <2>. QED  BY <2>1
<1>3. \E h \in [0..L - 1 -> S] : Follows(h, L - 1, w[1], G)
  <2>. HIDE DEF G, L, S
  <2>1. w[1] \in S  BY <1>1 DEF L
  <2>. QED  BY <1>1, <1>2, <2>1, StepsExist
<1>4. PICK h \in [0..L - 1 -> S] : Follows(h, L - 1, w[1], G)
  BY <1>3
<1>. DEFINE f == [i \in 1..L |-> h[i - 1]]
<1>5. f \in [1..L -> S] /\ f[1] = w[1] /\ \A i \in 2..L : f[i] = f[i - 1] \o w[i]
  <2>1. \A i \in 1..L : f[i] = h[i - 1] /\ i - 1 \in 0..L - 1  OBVIOUS
  <2>2. f \in [1..L -> S]  BY <2>1
  <2>3. ASSUME NEW i \in 2..L PROVE f[i] = f[i - 1] \o w[i]
    <3>1. i - 1 \in 1..L - 1 /\ (i - 1) - 1 = i - 2 /\ i - 2 \in 0..L - 1 /\ (i - 1) + 1 = i
      BY <1>1
    <3>2. h[i - 1] = G[i - 1][h[i - 2]]  BY <1>4, <3>1 DEF Follows
    <3>3. h[i - 2] \in S  BY <3>1
    <3>4. h[i - 1] = h[i - 2] \o w[i]
      <4>. HIDE DEF G
      <4>. QED  BY <1>2, <3>1, <3>2, <3>3
    <3>5. f[i] = h[i - 1] /\ f[i - 1] = h[i - 2]  BY <1>1, <3>1
    <3>. QED  BY <3>4, <3>5
  <2>4. f[1] = w[1]  BY <1>1, <1>4 DEF Follows
  <2>. QED  BY <2>2, <2>3, <2>4
<1>6. f = F(f)
  <2>. HIDE DEF f
  <2>1. ASSUME NEW i \in 1..L PROVE f[i] = IF i = 1 THEN w[i] ELSE f[i - 1] \o w[i]
    <3>1. i = 1 \/ i \in 2..L  BY <1>1
    <3>. QED  BY <1>5, <3>1
  <2>2. f = [i \in 1..L |-> f[i]]  BY <1>5
  <2>. QED  BY <2>1, <2>2
<1>7. FlattenSeq(w) = (CHOOSE g : g = F(g))[L]
  BY DEF FlattenSeq
<1>. DEFINE c == CHOOSE g : g = F(g)
<1>8. c = F(c)
  <2>. HIDE DEF F, f
  <2>. QED  BY <1>6
<1>. HIDE DEF c
<1>9. 0..L - 1 \subseteq {n \in 0..L - 1 : c[n + 1] = f[n + 1]}
  <2>. DEFINE T == {n \in 0..L - 1 : c[n + 1] = f[n + 1]}
  <2>0. /\ c[1] = w[1] /\ \A i \in 2..L : c[i] = c[i - 1] \o w[i]
    <3>1. \A i \in 1..L : c[i] = IF i = 1 THEN w[i] ELSE c[i - 1] \o w[i]
      BY <1>8
    <3>2. 1 \in 1..L /\ \A i \in 2..L : i \in 1..L /\ i # 1  BY <1>1
    <3>. QED  BY <3>1, <3>2
  <2>. HIDE DEF f
  <2>1. 0 \in T  BY <1>1, <1>5, <2>0
  <2>2. ASSUME NEW n \in 1..L - 1, n - 1 \in T PROVE n \in T
    <3>1. n + 1 \in 2..L /\ (n + 1) - 1 = n /\ (n - 1) + 1 = n  BY <1>1
    <3>2. c[n] = f[n]  BY <2>2, <3>1
    <3>3. f[n + 1] = f[n] \o w[n + 1]  BY <1>5, <3>1
    <3>4. c[n + 1] = c[n] \o w[n + 1]  BY <2>0, <3>1
    <3>5. n \in 0..L - 1  BY <1>1
    <3>. QED  BY <3>2, <3>3, <3>4, <3>5
  <2>. HIDE DEF T, L
  <2>. QED  BY <1>1, <2>1, <2>2, UpTo DEF T
<1>10. c[L] = f[L]
  <2>1. L - 1 \in 0..L - 1 /\ (L - 1) + 1 = L  BY <1>1
  <2>. HIDE DEF f, L
  <2>. QED  BY <1>9, <2>1
<1>11. FlattenSeq(w) = f[L]  BY <1>7, <1>10 DEF c
<1>. HIDE DEF f
<1>. QED  BY <1>5, <1>11

(* A chunk stands where the offsets say, in whatever sequence is laid out. *)
Standing(s, i, w, off) ==
  /\ off[i + 1] <= Len(s)
  /\ \A j \in 1..Len(w[i]) : s[off[i] + j] = w[i][j]

LEMMA LaidOut ==
  ASSUME NEW X, NEW w \in Seq(Seq(X)), Len(w) >= 1,
         NEW off \in [1..Len(w) + 1 -> Nat], off[1] = 0,
         \A i \in 1..Len(w) : off[i + 1] = off[i] + Len(w[i])
  PROVE  /\ FlattenSeq(w) \in Seq(X) /\ Len(FlattenSeq(w)) = off[Len(w) + 1]
         /\ \A i \in 1..Len(w) : Standing(FlattenSeq(w), i, w, off)
<1>1. PICK f \in [1..Len(w) -> Seq(X)] :
        /\ f[1] = w[1] /\ \A i \in 2..Len(w) : f[i] = f[i - 1] \o w[i]
        /\ FlattenSeq(w) = f[Len(w)]
  BY Flattened
<1>. DEFINE Good(k) == /\ Len(f[k]) = off[k + 1]
                       /\ \A i \in 1..k : Standing(f[k], i, w, off)
            T == {n \in 0..Len(w) - 1 : Good(n + 1)}
<1>2. Len(w) \in Nat /\ \A i \in 1..Len(w) : w[i] \in Seq(X) /\ Len(w[i]) \in Nat
      /\ off[i] \in Nat /\ off[i + 1] \in Nat
  <2>1. Len(w) \in Nat  OBVIOUS
  <2>2. ASSUME NEW i \in 1..Len(w) PROVE i \in 1..Len(w) + 1 /\ i + 1 \in 1..Len(w) + 1
    BY <2>1
  <2>3. \A i \in 1..Len(w) : off[i] \in Nat /\ off[i + 1] \in Nat  BY <2>2
  <2>4. \A i \in 1..Len(w) : w[i] \in Seq(X)  OBVIOUS
  <2>. QED  BY <2>1, <2>3, <2>4, LenProperties
<1>3. Good(1)
  <2>1. 1 \in 1..Len(w)  BY <1>2
  <2>2. off[1 + 1] = off[1] + Len(w[1]) /\ off[1 + 1] = Len(w[1])  BY <1>2, <2>1
  <2>3. Standing(f[1], 1, w, off)
    <3>1. off[1 + 1] <= Len(f[1])  BY <1>1, <1>2, <2>1, <2>2
    <3>2. ASSUME NEW j \in 1..Len(w[1]) PROVE f[1][off[1] + j] = w[1][j]
      <4>1. off[1] + j = j  OBVIOUS
      <4>. QED  BY <1>1, <4>1
    <3>. QED  BY <3>1, <3>2 DEF Standing
  <2>4. \A i \in 1..1 : i = 1  OBVIOUS
  <2>. QED  BY <1>1, <2>2, <2>3, <2>4
<1>4. ASSUME NEW k \in 1..Len(w) - 1, Good(k) PROVE Good(k + 1)
  <2>1. k \in 1..Len(w) /\ k + 1 \in 2..Len(w) /\ k + 1 \in 1..Len(w) /\ (k + 1) - 1 = k
    BY <1>2
  <2>2. PICK a, b, ab : a = f[k] /\ b = w[k + 1] /\ ab = a \o b  OBVIOUS
  <2>3. a \in Seq(X) /\ b \in Seq(X) /\ f[k + 1] = ab  BY <1>1, <1>2, <2>1, <2>2
  <2>4. Len(a) = off[k + 1] /\ off[(k + 1) + 1] = off[k + 1] + Len(b)
        /\ Len(a) \in Nat /\ Len(b) \in Nat
    <3>1. Len(a) = off[k + 1]  BY <1>4, <2>2
    <3>2. off[(k + 1) + 1] = off[k + 1] + Len(b)  BY <2>1, <2>2
    <3>. QED  BY <2>3, <3>1, <3>2, LenProperties
  <2>5. /\ Len(ab) = Len(a) + Len(b)
        /\ \A i \in 1..Len(a) + Len(b) : ab[i] = IF i <= Len(a) THEN a[i] ELSE b[i - Len(a)]
    <3>1. /\ Len(a \o b) = Len(a) + Len(b)
          /\ \A i \in 1..Len(a) + Len(b) :
               (a \o b)[i] = IF i <= Len(a) THEN a[i] ELSE b[i - Len(a)]
      BY <2>3, ConcatProperties
    <3>. QED  BY <2>2, <3>1
  <2>6. ASSUME NEW i \in 1..k PROVE Standing(ab, i, w, off)
    <3>0. i \in 1..Len(w)  BY <1>2
    <3>1. off[i + 1] <= Len(a) /\ \A j \in 1..Len(w[i]) : a[off[i] + j] = w[i][j]
      BY <1>4, <2>2 DEF Standing
    <3>2. off[i] \in Nat /\ Len(w[i]) \in Nat /\ off[i + 1] \in Nat /\ off[i + 1] = off[i] + Len(w[i])
      BY <1>2, <3>0
    <3>3. off[i + 1] <= Len(ab)  BY <2>4, <2>5, <3>1, <3>2
    <3>4. ASSUME NEW j \in 1..Len(w[i]) PROVE ab[off[i] + j] = w[i][j]
      <4>0. off[i] + j <= off[i + 1] /\ 1 <= off[i] + j /\ off[i] + j \in Nat  BY <3>2
      <4>1. off[i] + j \in 1..Len(a) + Len(b) /\ off[i] + j <= Len(a)
        <5>1. PICK x, y, u, v : x = off[i] + j /\ y = off[i + 1] /\ u = Len(a) /\ v = Len(b)
          OBVIOUS
        <5>2. x \in Nat /\ y \in Nat /\ u \in Nat /\ v \in Nat /\ 1 <= x /\ x <= y /\ y <= u
          BY <2>4, <3>1, <3>2, <4>0, <5>1
        <5>3. x \in 1..u + v /\ x <= u  BY <5>2
        <5>. QED  BY <5>1, <5>3
      <4>2. ab[off[i] + j] = a[off[i] + j]  BY <2>5, <4>1
      <4>. QED  BY <3>1, <4>2
    <3>. QED  BY <3>3, <3>4 DEF Standing
  <2>7. Standing(ab, k + 1, w, off)
    <3>1. off[(k + 1) + 1] <= Len(ab)  BY <2>4, <2>5
    <3>2. ASSUME NEW j \in 1..Len(w[k + 1]) PROVE ab[off[k + 1] + j] = w[k + 1][j]
      <4>0. j \in 1..Len(b)  BY <2>2
      <4>1. /\ off[k + 1] + j \in 1..Len(a) + Len(b) /\ ~(off[k + 1] + j <= Len(a))
            /\ (off[k + 1] + j) - Len(a) = j
        <5>1. PICK x, u, v : x = off[k + 1] /\ u = Len(a) /\ v = Len(b)  OBVIOUS
        <5>2. x = u /\ u \in Nat /\ v \in Nat /\ j \in 1..v  BY <2>4, <4>0, <5>1
        <5>. HIDE <4>0
        <5>3. x + j \in 1..u + v /\ ~(x + j <= u) /\ (x + j) - u = j  BY <5>2
        <5>. QED  BY <5>1, <5>3
      <4>2. ab[off[k + 1] + j] = b[(off[k + 1] + j) - Len(a)]  BY <2>5, <4>1
      <4>. QED  BY <2>2, <4>1, <4>2
    <3>. QED  BY <3>1, <3>2 DEF Standing
  <2>8. \A i \in 1..k + 1 : i \in 1..k \/ i = k + 1  BY <1>2
  <2>9. Len(ab) = off[(k + 1) + 1]  BY <2>4, <2>5
  <2>. QED  BY <2>3, <2>6, <2>7, <2>8, <2>9
<1>5. Good(Len(w))
  <2>. HIDE DEF Good
  <2>1. 0 \in T  BY <1>2, <1>3
  <2>2. ASSUME NEW n \in 1..Len(w) - 1, n - 1 \in T PROVE n \in T
    <3>1. Good(n)
      <4>1. (n - 1) + 1 = n  OBVIOUS
      <4>. QED  BY <2>2, <4>1
    <3>. QED  BY <1>2, <1>4, <3>1
  <2>3. Len(w) - 1 \in Nat  BY <1>2
  <2>. HIDE DEF T
  <2>4. 0..Len(w) - 1 \subseteq T  BY <2>1, <2>2, <2>3, UpTo
  <2>5. Len(w) - 1 \in 0..Len(w) - 1 /\ (Len(w) - 1) + 1 = Len(w)  BY <1>2, <2>3
  <2>6. Len(w) - 1 \in T  BY <2>4, <2>5
  <2>7. Good((Len(w) - 1) + 1)  BY <2>6 DEF T
  <2>. QED  BY <2>5, <2>7
<1>6. Len(w) \in 1..Len(w)  BY <1>2
<1>. QED  BY <1>1, <1>5, <1>6

-----------------------------------------------------------------------------
(* What the program writes: names, bytes and chunks *)

Names == {"discriminator", "length"} \cup
         UNION {{IdlFields[k][i][2] : i \in DOMAIN IdlFields[k]} : k \in EventTypes}
Byte == [of : Names, at : Nat, value : Nat]
Lengths == [{"name", "symbol", "uri"} -> StringLengths]
Chunks(k, lengths) == [i \in DOMAIN IdlFields[k] |-> Written(IdlFields[k][i], lengths)]
Body(k, lengths) == FlattenSeq(Chunks(k, lengths))

LEMMA ValuesAre ==
  ASSUME NEW name \in Names, NEW v \in Seq(Nat)
  PROVE  /\ Values(name, v) \in Seq(Byte) /\ Len(Values(name, v)) = Len(v)
         /\ \A i \in 1..Len(v) : Values(name, v)[i].value = v[i]
<1>1. Len(v) \in Nat /\ DOMAIN v = 1..Len(v) /\ \A i \in 1..Len(v) : v[i] \in Nat
  OBVIOUS
<1>2. Values(name, v) = [i \in 1..Len(v) |-> [of |-> name, at |-> i, value |-> v[i]]]
  BY <1>1 DEF Values
<1>3. \A i \in 1..Len(v) : [of |-> name, at |-> i, value |-> v[i]] \in Byte
  BY <1>1 DEF Byte
<1>4. Values(name, v) \in [1..Len(v) -> Byte]
  BY <1>2, <1>3
<1>5. Values(name, v) \in Seq(Byte)
  BY <1>1, <1>4, IsASeq
<1>. QED  BY <1>1, <1>2, <1>4, <1>5

LEMMA ContentIs ==
  ASSUME NEW name \in Names, NEW n \in Nat
  PROVE  Content(name, n) \in Seq(Byte) /\ Len(Content(name, n)) = n
<1>. DEFINE v == [i \in 1..n |-> 0]
<1>1. v \in Seq(Nat) /\ Len(v) = n
  OBVIOUS
<1>. HIDE DEF v
<1>2. Content(name, n) = Values(name, v)  BY DEF Content, v
<1>. QED  BY <1>1, <1>2, ValuesAre

LEMMA CutIs ==
  ASSUME NEW X, NEW s \in Seq(X), NEW v \in Seq(X), NEW a \in Nat, NEW b \in Nat,
         b = a + Len(v), b <= Len(s), \A j \in 1..Len(v) : s[a + j] = v[j]
  PROVE  SubSeq(s, a + 1, b) = v
<1>1. Len(v) \in Nat /\ Len(s) \in Nat
  OBVIOUS
<1>2. \A i \in a + 1..b : s[i] \in X
  <2>1. \A i \in a + 1..b : i \in 1..Len(s)  BY <1>1
  <2>. QED  BY <2>1
<1>. DEFINE u == SubSeq(s, a + 1, b)
<1>3. /\ u \in Seq(X) /\ Len(u) = IF a + 1 <= b THEN b - (a + 1) + 1 ELSE 0
      /\ \A i \in 1..b - (a + 1) + 1 : u[i] = s[a + 1 + i - 1]
  <2>1. a + 1 \in Int /\ b \in Int  OBVIOUS
  <2>. QED  BY <1>2, <2>1, SubSeqProperties
<1>. HIDE DEF u
<1>4. Len(u) = Len(v)  BY <1>1, <1>3
<1>5. ASSUME NEW i \in 1..Len(v) PROVE u[i] = v[i]
  <2>1. i \in 1..b - (a + 1) + 1 /\ a + 1 + i - 1 = a + i  BY <1>1
  <2>. QED  BY <1>3, <2>1
<1>6. u = v  BY <1>3, <1>4, <1>5, SeqEqual
<1>. QED  BY <1>6 DEF u

LEMMA Widths ==
  /\ Width("pubkey") = 32 /\ Width("u128") = 16 /\ Width("u64") = 8 /\ Width("u32") = 4
  /\ Width("u16") = 2 /\ Width("u8") = 1 /\ Width("bool") = 1
BY DEF Width

(* The cuts follow one another and have the names and widths of the fields. *)
Fits(fields, cuts, total) ==
  /\ DOMAIN fields = 1..Len(cuts) /\ Len(cuts) \in Nat /\ DOMAIN cuts = 1..Len(cuts) /\ Len(cuts) >= 1
  /\ cuts[1].from = 0 /\ cuts[Len(cuts)].to = total
  /\ \A i \in 1..Len(cuts) : fields[i][2] = cuts[i].name
  /\ \A i \in 1..Len(cuts) : fields[i][1] # "string"
  /\ \A i \in 1..Len(cuts) : cuts[i].from \in Nat /\ cuts[i].to \in Nat /\ cuts[i].from <= cuts[i].to
  /\ \A i \in 1..Len(cuts) : Width(fields[i][1]) \in Nat /\ cuts[i].to = cuts[i].from + Width(fields[i][1])
  /\ \A i \in 1..Len(cuts) - 1 : cuts[i + 1].from = cuts[i].to

LEMMA BuySellFits == Fits(IdlFields["BuySell"], BuySell.cuts, 97)
<1>. DEFINE fields == IdlFields["BuySell"]  cuts == BuySell.cuts
<1>1. Len(cuts) = 6 /\ DOMAIN cuts = 1..6 /\ cuts[1].from = 0 /\ cuts[6].to = 97
  BY DEF BuySell, Cut
<1>2. DOMAIN fields = 1..6
  BY DEF IdlFields, EventTypes, All
<1>3. \A i \in 1..6 : fields[i][2] = cuts[i].name
  BY DEF BuySell, Cut, IdlFields, EventTypes, All
<1>4. \A i \in 1..6 : fields[i][1] # "string"
  BY DEF IdlFields, EventTypes, All
<1>5. \A i \in 1..6 : cuts[i].from \in Nat /\ cuts[i].to \in Nat /\ cuts[i].from <= cuts[i].to
  BY DEF BuySell, Cut
<1>6. \A i \in 1..6 : Width(fields[i][1]) \in Nat /\ cuts[i].to = cuts[i].from + Width(fields[i][1])
  BY Widths DEF BuySell, Cut, IdlFields, EventTypes, All
<1>7. \A i \in 1..5 : cuts[i + 1].from = cuts[i].to
  BY DEF BuySell, Cut
<1>. HIDE DEF fields, cuts
<1>8. Fits(fields, cuts, 97)
  BY <1>1, <1>2, <1>3, <1>4, <1>5, <1>6, <1>7 DEF Fits
<1>. QED  BY <1>8 DEF fields, cuts

LEMMA LongShortFits == Fits(IdlFields["LongShort"], LongShort.cuts, 259)
<1>. DEFINE fields == IdlFields["LongShort"]  cuts == LongShort.cuts
<1>1. Len(cuts) = 17 /\ DOMAIN cuts = 1..17 /\ cuts[1].from = 0 /\ cuts[17].to = 259
  BY DEF LongShort, Cut
<1>2. DOMAIN fields = 1..17
  BY DEF IdlFields, EventTypes, All, OrderFields
<1>3. \A i \in 1..17 : fields[i][2] = cuts[i].name
  BY DEF LongShort, Cut, IdlFields, EventTypes, All, OrderFields
<1>4. \A i \in 1..17 : fields[i][1] # "string"
  BY DEF IdlFields, EventTypes, All, OrderFields
<1>5. \A i \in 1..17 : cuts[i].from \in Nat /\ cuts[i].to \in Nat /\ cuts[i].from <= cuts[i].to
  BY DEF LongShort, Cut
<1>6. \A i \in 1..17 : Width(fields[i][1]) \in Nat /\ cuts[i].to = cuts[i].from + Width(fields[i][1])
  BY Widths DEF LongShort, Cut, IdlFields, EventTypes, All, OrderFields
<1>7. \A i \in 1..16 : cuts[i + 1].from = cuts[i].to
  BY DEF LongShort, Cut
<1>. HIDE DEF fields, cuts
<1>8. Fits(fields, cuts, 259)
  BY <1>1, <1>2, <1>3, <1>4, <1>5, <1>6, <1>7 DEF Fits
<1>. QED  BY <1>8 DEF fields, cuts

LEMMA ForceLiquidateFits == Fits(IdlFields["ForceLiquidate"], ForceLiquidate.cuts, 96)
<1>. DEFINE fields == IdlFields["ForceLiquidate"]  cuts == ForceLiquidate.cuts
<1>1. Len(cuts) = 3 /\ DOMAIN cuts = 1..3 /\ cuts[1].from = 0 /\ cuts[3].to = 96
  BY DEF ForceLiquidate, Cut
<1>2. DOMAIN fields = 1..3
  BY DEF IdlFields, EventTypes, All
<1>3. \A i \in 1..3 : fields[i][2] = cuts[i].name
  BY DEF ForceLiquidate, Cut, IdlFields, EventTypes, All
<1>4. \A i \in 1..3 : fields[i][1] # "string"
  BY DEF IdlFields, EventTypes, All
<1>5. \A i \in 1..3 : cuts[i].from \in Nat /\ cuts[i].to \in Nat /\ cuts[i].from <= cuts[i].to
  BY DEF ForceLiquidate, Cut
<1>6. \A i \in 1..3 : Width(fields[i][1]) \in Nat /\ cuts[i].to = cuts[i].from + Width(fields[i][1])
  BY Widths DEF ForceLiquidate, Cut, IdlFields, EventTypes, All
<1>7. \A i \in 1..2 : cuts[i + 1].from = cuts[i].to
  BY DEF ForceLiquidate, Cut
<1>. HIDE DEF fields, cuts
<1>8. Fits(fields, cuts, 96)
  BY <1>1, <1>2, <1>3, <1>4, <1>5, <1>6, <1>7 DEF Fits
<1>. QED  BY <1>8 DEF fields, cuts

LEMMA FullCloseFits == Fits(IdlFields["FullClose"], FullClose.cuts, 169)
<1>. DEFINE fields == IdlFields["FullClose"]  cuts == FullClose.cuts
<1>1. Len(cuts) = 9 /\ DOMAIN cuts = 1..9 /\ cuts[1].from = 0 /\ cuts[9].to = 169
  BY DEF FullClose, Cut
<1>2. DOMAIN fields = 1..9
  BY DEF IdlFields, EventTypes, All, CloseFields
<1>3. \A i \in 1..9 : fields[i][2] = cuts[i].name
  BY DEF FullClose, Cut, IdlFields, EventTypes, All, CloseFields
<1>4. \A i \in 1..9 : fields[i][1] # "string"
  BY DEF IdlFields, EventTypes, All, CloseFields
<1>5. \A i \in 1..9 : cuts[i].from \in Nat /\ cuts[i].to \in Nat /\ cuts[i].from <= cuts[i].to
  BY DEF FullClose, Cut
<1>6. \A i \in 1..9 : Width(fields[i][1]) \in Nat /\ cuts[i].to = cuts[i].from + Width(fields[i][1])
  BY Widths DEF FullClose, Cut, IdlFields, EventTypes, All, CloseFields
<1>7. \A i \in 1..8 : cuts[i + 1].from = cuts[i].to
  BY DEF FullClose, Cut
<1>. HIDE DEF fields, cuts
<1>8. Fits(fields, cuts, 169)
  BY <1>1, <1>2, <1>3, <1>4, <1>5, <1>6, <1>7 DEF Fits
<1>. QED  BY <1>8 DEF fields, cuts

LEMMA PartialCloseFits == Fits(IdlFields["PartialClose"], PartialClose.cuts, 332)
<1>. DEFINE fields == IdlFields["PartialClose"]  cuts == PartialClose.cuts
<1>1. Len(cuts) = 24 /\ DOMAIN cuts = 1..24 /\ cuts[1].from = 0 /\ cuts[24].to = 332
  BY DEF PartialClose, FullClose, Cut
<1>2. DOMAIN fields = 1..24
  BY DEF IdlFields, EventTypes, All, CloseFields, OrderFields
<1>3. \A i \in 1..24 : fields[i][2] = cuts[i].name
  BY DEF PartialClose, FullClose, Cut, IdlFields, EventTypes, All, CloseFields, OrderFields
<1>4. \A i \in 1..24 : fields[i][1] # "string"
  BY DEF IdlFields, EventTypes, All, CloseFields, OrderFields
<1>5. \A i \in 1..24 : cuts[i].from \in Nat /\ cuts[i].to \in Nat /\ cuts[i].from <= cuts[i].to
  BY DEF PartialClose, FullClose, Cut
<1>6. \A i \in 1..24 : Width(fields[i][1]) \in Nat /\ cuts[i].to = cuts[i].from + Width(fields[i][1])
  BY Widths DEF PartialClose, FullClose, Cut, IdlFields, EventTypes, All, CloseFields, OrderFields
<1>7. \A i \in 1..23 : cuts[i + 1].from = cuts[i].to
  BY DEF PartialClose, FullClose, Cut
<1>. HIDE DEF fields, cuts
<1>8. Fits(fields, cuts, 332)
  BY <1>1, <1>2, <1>3, <1>4, <1>5, <1>6, <1>7 DEF Fits
<1>. QED  BY <1>8 DEF fields, cuts

LEMMA MilestoneDiscountFits == Fits(IdlFields["MilestoneDiscount"], MilestoneDiscount.cuts, 101)
<1>. DEFINE fields == IdlFields["MilestoneDiscount"]  cuts == MilestoneDiscount.cuts
<1>1. Len(cuts) = 6 /\ DOMAIN cuts = 1..6 /\ cuts[1].from = 0 /\ cuts[6].to = 101
  BY DEF MilestoneDiscount, Cut
<1>2. DOMAIN fields = 1..6
  BY DEF IdlFields, EventTypes, All
<1>3. \A i \in 1..6 : fields[i][2] = cuts[i].name
  BY DEF MilestoneDiscount, Cut, IdlFields, EventTypes, All
<1>4. \A i \in 1..6 : fields[i][1] # "string"
  BY DEF IdlFields, EventTypes, All
<1>5. \A i \in 1..6 : cuts[i].from \in Nat /\ cuts[i].to \in Nat /\ cuts[i].from <= cuts[i].to
  BY DEF MilestoneDiscount, Cut
<1>6. \A i \in 1..6 : Width(fields[i][1]) \in Nat /\ cuts[i].to = cuts[i].from + Width(fields[i][1])
  BY Widths DEF MilestoneDiscount, Cut, IdlFields, EventTypes, All
<1>7. \A i \in 1..5 : cuts[i + 1].from = cuts[i].to
  BY DEF MilestoneDiscount, Cut
<1>. HIDE DEF fields, cuts
<1>8. Fits(fields, cuts, 101)
  BY <1>1, <1>2, <1>3, <1>4, <1>5, <1>6, <1>7 DEF Fits
<1>. QED  BY <1>8 DEF fields, cuts

(* The chunks of a type whose cuts fit stand where the cuts say.           *)
LEMMA FixedBody ==
  ASSUME NEW k \in EventTypes, NEW lengths \in Lengths, NEW cuts, NEW total,
         Fits(IdlFields[k], cuts, total)
  PROVE  /\ Body(k, lengths) \in Seq(Byte) /\ Len(Body(k, lengths)) = total
         /\ \A i \in 1..Len(cuts) :
              /\ cuts[i].to <= total
              /\ SubSeq(Body(k, lengths), cuts[i].from + 1, cuts[i].to)
                   = Content(cuts[i].name, Width(IdlFields[k][i][1]))
<1>. DEFINE n == Len(cuts)
            w == Chunks(k, lengths)
            off == [i \in 1..n + 1 |-> IF i <= n THEN cuts[i].from ELSE total]
<1>1. n \in Nat /\ n >= 1 /\ DOMAIN IdlFields[k] = 1..n
  BY DEF Fits
<1>2. ASSUME NEW i \in 1..n
      PROVE  /\ IdlFields[k][i][2] = cuts[i].name /\ cuts[i].name \in Names
             /\ IdlFields[k][i][1] # "string"
             /\ cuts[i].from \in Nat /\ cuts[i].to \in Nat /\ cuts[i].from <= cuts[i].to
             /\ cuts[i].to = cuts[i].from + Width(IdlFields[k][i][1])
             /\ Width(IdlFields[k][i][1]) \in Nat
  <2>1. i \in DOMAIN IdlFields[k] /\ IdlFields[k][i][2] = cuts[i].name  BY <1>1 DEF Fits
  <2>2. cuts[i].name \in Names  BY <2>1 DEF Names
  <2>. QED  BY <2>1, <2>2 DEF Fits
<1>3. ASSUME NEW i \in 1..n
      PROVE  /\ w[i] = Content(cuts[i].name, Width(IdlFields[k][i][1]))
             /\ w[i] \in Seq(Byte) /\ Len(w[i]) = Width(IdlFields[k][i][1])
             /\ cuts[i].to = cuts[i].from + Len(w[i])
  <2>1. w[i] = Written(IdlFields[k][i], lengths)  BY <1>1 DEF Chunks
  <2>2. w[i] = Content(cuts[i].name, Width(IdlFields[k][i][1]))  BY <1>2, <2>1 DEF Written
  <2>. QED  BY <1>2, <2>2, ContentIs
<1>4. w \in Seq(Seq(Byte)) /\ Len(w) = n
  <2>1. w \in [1..n -> Seq(Byte)]
    <3>1. w = [i \in 1..n |-> w[i]]  BY <1>1 DEF Chunks
    <3>. HIDE DEF w
    <3>. QED  BY <1>3, <3>1
  <2>. HIDE DEF w
  <2>. QED  BY <1>1, <2>1, IsASeq
<1>5. /\ off \in [1..Len(w) + 1 -> Nat] /\ off[1] = 0 /\ off[Len(w) + 1] = total
      /\ \A i \in 1..n : off[i] = cuts[i].from /\ off[i + 1] = cuts[i].to
  <2>. HIDE DEF w
  <2>1. n \in 1..n /\ total \in Nat /\ cuts[n].to = total /\ cuts[1].from = 0
    <3>1. n \in 1..n /\ cuts[n].to = total /\ cuts[1].from = 0  BY <1>1 DEF Fits
    <3>. QED  BY <1>2, <3>1
  <2>2. ASSUME NEW i \in 1..n + 1 PROVE off[i] \in Nat
    <3>1. i \in 1..n \/ ~(i <= n)  BY <1>1
    <3>. QED  BY <1>2, <2>1, <3>1
  <2>3. ASSUME NEW i \in 1..n PROVE off[i] = cuts[i].from /\ off[i + 1] = cuts[i].to
    <3>1. i \in 1..n + 1 /\ i <= n /\ i + 1 \in 1..n + 1  BY <1>1
    <3>2. CASE i = n
      <4>1. ~(i + 1 <= n)  BY <1>1, <3>2
      <4>. QED  BY <2>1, <3>1, <3>2, <4>1
    <3>3. CASE i # n
      <4>1. i \in 1..n - 1 /\ i + 1 <= n  BY <1>1, <3>3
      <4>2. cuts[i + 1].from = cuts[i].to  BY <4>1 DEF Fits
      <4>. QED  BY <3>1, <4>1, <4>2
    <3>. QED  BY <3>2, <3>3
  <2>4. 1 \in 1..n + 1 /\ n + 1 \in 1..n + 1 /\ 1 <= n /\ ~(n + 1 <= n)  BY <1>1
  <2>. QED  BY <1>4, <2>1, <2>2, <2>3, <2>4
<1>. HIDE DEF off
<1>6. /\ Body(k, lengths) \in Seq(Byte) /\ Len(Body(k, lengths)) = total
      /\ \A i \in 1..n : Standing(Body(k, lengths), i, w, off)
  <2>1. Body(k, lengths) = FlattenSeq(w)  BY DEF Body
  <2>. HIDE DEF w
  <2>2. \A i \in 1..Len(w) : off[i + 1] = off[i] + Len(w[i])  BY <1>3, <1>4, <1>5
  <2>. QED  BY <1>1, <1>4, <1>5, <2>1, <2>2, LaidOut
<1>7. ASSUME NEW i \in 1..n
      PROVE  /\ cuts[i].to <= total
             /\ SubSeq(Body(k, lengths), cuts[i].from + 1, cuts[i].to)
                  = Content(cuts[i].name, Width(IdlFields[k][i][1]))
  <2>. HIDE DEF w
  <2>1. PICK s, v, a, b : s = Body(k, lengths) /\ v = w[i] /\ a = cuts[i].from /\ b = cuts[i].to
    OBVIOUS
  <2>2. /\ s \in Seq(Byte) /\ v \in Seq(Byte) /\ a \in Nat /\ b \in Nat /\ b = a + Len(v)
        /\ b <= Len(s) /\ \A j \in 1..Len(v) : s[a + j] = v[j]
    BY <1>2, <1>3, <1>5, <1>6, <2>1 DEF Standing
  <2>3. SubSeq(s, a + 1, b) = v  BY <2>2, CutIs
  <2>. QED  BY <1>3, <1>6, <2>1, <2>2, <2>3
<1>. QED  BY <1>6, <1>7

-----------------------------------------------------------------------------
(* The discriminator tells the type *)

LEMMA Discriminators ==
  /\ \A k \in EventTypes : /\ Discriminator[k] = IdlDiscriminator[k]
                           /\ Discriminator[k] \in Seq(Nat) /\ Len(Discriminator[k]) = 8
  /\ \A j, k \in EventTypes : Discriminator[j][1] = Discriminator[k][1] => j = k
<1>1. ASSUME NEW k \in EventTypes
      PROVE  Discriminator[k] \in Seq(Nat) /\ Len(Discriminator[k]) = 8
  BY DEF Discriminator, EventTypes
<1>2. ASSUME NEW k \in EventTypes PROVE Discriminator[k] = IdlDiscriminator[k]
  BY DEF Discriminator, IdlDiscriminator, EventTypes
<1>3. ASSUME NEW j \in EventTypes, NEW k \in EventTypes, Discriminator[j][1] = Discriminator[k][1]
      PROVE  j = k
  BY <1>3 DEF Discriminator, EventTypes
<1>. QED  BY <1>1, <1>2, <1>3

LEMMA DiscriminatorIs ==
  ASSUME NEW k \in EventTypes
  PROVE  /\ Values("discriminator", IdlDiscriminator[k]) \in Seq(Byte)
         /\ Len(Values("discriminator", IdlDiscriminator[k])) = 8
         /\ \A i \in 1..8 : Values("discriminator", IdlDiscriminator[k])[i].value = Discriminator[k][i]
<1>1. "discriminator" \in Names  BY DEF Names
<1>2. PICK x : x = IdlDiscriminator[k]  OBVIOUS
<1>3. x = Discriminator[k] /\ x \in Seq(Nat) /\ Len(x) = 8  BY <1>2, Discriminators
<1>4. /\ Values("discriminator", x) \in Seq(Byte) /\ Len(Values("discriminator", x)) = Len(x)
      /\ \A i \in 1..Len(x) : Values("discriminator", x)[i].value = x[i]
  BY <1>1, <1>3, ValuesAre
<1>. QED  BY <1>2, <1>3, <1>4

LEMMA AfterEight ==
  ASSUME NEW X, NEW v \in Seq(X), NEW d \in Seq(X), Len(v) = 8
  PROVE  /\ v \o d \in Seq(X) /\ Len(v \o d) = 8 + Len(d) /\ Len(d) \in Nat
         /\ \A i \in 1..8 + Len(d) : (v \o d)[i] = IF i <= 8 THEN v[i] ELSE d[i - 8]
<1>1. /\ v \o d \in Seq(X) /\ Len(v \o d) = Len(v) + Len(d)
      /\ \A i \in 1..Len(v) + Len(d) : (v \o d)[i] = IF i <= Len(v) THEN v[i] ELSE d[i - Len(v)]
  BY ConcatProperties
<1>2. Len(d) \in Nat  OBVIOUS
<1>. QED  BY <1>1, <1>2

LEMMA DecodeIs ==
  ASSUME NEW k \in EventTypes, NEW d \in Seq(Byte)
  PROVE  Decode(Values("discriminator", IdlDiscriminator[k]) \o d) = ParseAs(k, d)
<1>. DEFINE v == Values("discriminator", IdlDiscriminator[k])
            b == v \o d
            read == [i \in 1..8 |-> b[i].value]
            matches == {j \in EventTypes : Discriminator[j] = read}
<1>1. /\ v \in Seq(Byte) /\ Len(v) = 8
      /\ \A i \in 1..8 : v[i].value = Discriminator[k][i]
  BY DiscriminatorIs
<1>. HIDE DEF v
<1>2. /\ b \in Seq(Byte) /\ Len(b) = 8 + Len(d) /\ Len(d) \in Nat
      /\ \A i \in 1..8 + Len(d) : b[i] = IF i <= 8 THEN v[i] ELSE d[i - 8]
  BY <1>1, AfterEight
<1>3. SubSeq(b, 9, Len(b)) = d
  <2>1. /\ 8 + 1 = 9 /\ Len(b) \in Nat /\ Len(b) <= Len(b) /\ 8 \in Nat
        /\ \A j \in 1..Len(d) : b[8 + j] = d[j]
    <3>1. ASSUME NEW j \in 1..Len(d) PROVE b[8 + j] = d[j]
      <4>1. 8 + j \in 1..8 + Len(d) /\ ~(8 + j <= 8) /\ (8 + j) - 8 = j  BY <1>2
      <4>. QED  BY <1>2, <4>1
    <3>. QED  BY <1>2, <3>1
  <2>. HIDE DEF b
  <2>2. SubSeq(b, 8 + 1, Len(b)) = d  BY <1>2, <2>1, CutIs
  <2>. QED  BY <2>1, <2>2
<1>4. \A i \in 1..8 : b[i].value = Discriminator[k][i]
  <2>1. \A i \in 1..8 : i \in 1..8 + Len(d) /\ i <= 8  BY <1>2
  <2>. QED  BY <1>1, <1>2, <2>1
<1>. HIDE DEF b
<1>5. read = Discriminator[k]
  <2>1. /\ DOMAIN Discriminator[k] = 1..8
        /\ Discriminator[k] = [i \in DOMAIN Discriminator[k] |-> Discriminator[k][i]]
    BY Discriminators
  <2>2. Discriminator[k] = [i \in 1..8 |-> Discriminator[k][i]]  BY <2>1
  <2>. HIDE DEF b
  <2>. QED  BY <1>4, <2>2
<1>. HIDE DEF read
<1>6. matches = {k}
  <2>1. k \in matches  BY <1>5
  <2>2. \A j \in matches : j = k  BY <1>5, Discriminators
  <2>. HIDE DEF matches
  <2>. QED  BY <2>1, <2>2
<1>7. ~(Len(b) < 8)  BY <1>2
<1>8. Decode(b) = IF matches = {} THEN Nothing
                  ELSE ParseAs(CHOOSE j \in matches : TRUE, SubSeq(b, 9, Len(b)))
  BY <1>7 DEF Decode, read
<1>. HIDE DEF matches
<1>9. (CHOOSE j \in matches : TRUE) = k  BY <1>6
<1>10. Decode(b) = ParseAs(k, d)  BY <1>3, <1>6, <1>8, <1>9
<1>. QED  BY <1>10 DEF b, v

(* What the program emits is decoded as its body is parsed, and where it   *)
(* breaks off, as the part of the body that is there.                      *)
LEMMA EmittedIs ==
  ASSUME NEW k \in EventTypes, NEW lengths \in Lengths, Body(k, lengths) \in Seq(Byte)
  PROVE  /\ Decode(Emitted(k, lengths)) = ParseAs(k, Body(k, lengths))
         /\ \A n \in 0..Len(Emitted(k, lengths)) - 1 :
              \/ Decode(SubSeq(Emitted(k, lengths), 1, n)) = Nothing
              \/ \E m \in 0..Len(Body(k, lengths)) - 1 :
                   Decode(SubSeq(Emitted(k, lengths), 1, n))
                     = ParseAs(k, SubSeq(Body(k, lengths), 1, m))
<1>. DEFINE v == Values("discriminator", IdlDiscriminator[k])
            d == Body(k, lengths)
            b == v \o d
<1>1. v \in Seq(Byte) /\ Len(v) = 8
  BY DiscriminatorIs
<1>2. Emitted(k, lengths) = b
  BY DEF Emitted, Body, Chunks
<1>3. Decode(b) = ParseAs(k, d)
  BY DecodeIs
<1>. HIDE DEF v, d
<1>4. /\ b \in Seq(Byte) /\ Len(b) = 8 + Len(d) /\ Len(d) \in Nat
      /\ \A i \in 1..8 + Len(d) : b[i] = IF i <= 8 THEN v[i] ELSE d[i - 8]
  BY <1>1, AfterEight DEF d
<1>. HIDE DEF b
<1>5. ASSUME NEW n \in 0..Len(b) - 1
      PROVE  \/ Decode(SubSeq(b, 1, n)) = Nothing
             \/ \E m \in 0..Len(d) - 1 : Decode(SubSeq(b, 1, n)) = ParseAs(k, SubSeq(d, 1, m))
  <2>1. /\ SubSeq(b, 1, n) \in Seq(Byte) /\ Len(SubSeq(b, 1, n)) = n
        /\ \A i \in 1..n : SubSeq(b, 1, n)[i] = b[i]
    <3>1. \A i \in 1..n : i \in 1..Len(b)  BY <1>4
    <3>2. \A i \in 1..n : b[i] \in Byte  BY <1>4, <3>1
    <3>. QED  BY <3>2, SubSeqProperties
  <2>2. CASE n < 8
    BY <2>1, <2>2 DEF Decode
  <2>3. CASE n >= 8
    <3>. DEFINE m == n - 8  e == SubSeq(d, 1, m)
    <3>1. m \in 0..Len(d) - 1  BY <1>4, <2>3
    <3>2. /\ e \in Seq(Byte) /\ Len(e) = m /\ \A i \in 1..m : e[i] = d[i]
      <4>1. \A i \in 1..m : i \in 1..Len(d)  BY <1>4, <3>1
      <4>2. \A i \in 1..m : d[i] \in Byte  BY <4>1 DEF d
      <4>3. m \in Nat  BY <3>1
      <4>. HIDE DEF m
      <4>. QED  BY <4>2, <4>3, SubSeqProperties
    <3>. HIDE DEF e
    <3>3. /\ v \o e \in Seq(Byte) /\ Len(v \o e) = n
          /\ \A i \in 1..n : (v \o e)[i] = IF i <= 8 THEN v[i] ELSE e[i - 8]
      <4>1. 8 + Len(e) = n  BY <2>3, <3>2
      <4>. QED  BY <1>1, <3>2, <4>1, AfterEight
    <3>4. ASSUME NEW i \in 1..n PROVE SubSeq(b, 1, n)[i] = (v \o e)[i]
      <4>1. i \in 1..8 + Len(d) /\ (~(i <= 8) => i - 8 \in 1..m)  BY <1>4, <2>3
      <4>2. b[i] = IF i <= 8 THEN v[i] ELSE d[i - 8]  BY <1>4, <4>1
      <4>. QED  BY <2>1, <3>2, <3>3, <4>1, <4>2
    <3>5. SubSeq(b, 1, n) = v \o e
      <4>1. PICK x, y : x = SubSeq(b, 1, n) /\ y = v \o e  OBVIOUS
      <4>2. x = y  BY <2>1, <3>3, <3>4, <4>1, SeqEqual
      <4>. QED  BY <4>1, <4>2
    <3>6. Decode(v \o e) = ParseAs(k, e)  BY <3>2, DecodeIs DEF v
    <3>. QED  BY <3>1, <3>5, <3>6 DEF e
  <2>. QED  BY <1>4, <2>2, <2>3
<1>. QED  BY <1>2, <1>3, <1>5 DEF d

-----------------------------------------------------------------------------
(* The types of a fixed length *)

Itself(k, lengths) == [type |-> k, fields |-> FieldsOf(k, lengths)]

(* A cut lies in the bytes and is a field as it was written.               *)
CutsOut(d, cut, field) ==
  /\ cut.to \in Nat /\ cut.to <= Len(d)
  /\ <<cut.name, SubSeq(d, cut.from + 1, cut.to)>> = field

LEMMA EventIs ==
  ASSUME NEW k \in EventTypes, NEW lengths \in Lengths, NEW d \in Seq(Byte), NEW cuts,
         DOMAIN cuts = DOMAIN IdlFields[k],
         \A i \in DOMAIN cuts : CutsOut(d, cuts[i], FieldsOf(k, lengths)[i])
  PROVE  Event(k, d, cuts) = Itself(k, lengths)
<1>1. ~ \E i \in DOMAIN cuts : cuts[i].to > Len(d)
  <2>1. Len(d) \in Nat  OBVIOUS
  <2>. QED  BY <2>1 DEF CutsOut
<1>. DEFINE f == [i \in DOMAIN cuts |-> <<cuts[i].name, SubSeq(d, cuts[i].from + 1, cuts[i].to)>>]
<1>2. f = FieldsOf(k, lengths)
  <2>1. FieldsOf(k, lengths) = [i \in DOMAIN cuts |-> FieldsOf(k, lengths)[i]]
    BY DEF FieldsOf
  <2>2. \A i \in DOMAIN cuts :
          <<cuts[i].name, SubSeq(d, cuts[i].from + 1, cuts[i].to)>> = FieldsOf(k, lengths)[i]
    BY DEF CutsOut
  <2>. QED  BY <2>1, <2>2
<1>3. Event(k, d, cuts) = [type |-> k, fields |-> f]
  BY <1>1 DEF Event
<1>. QED  BY <1>2, <1>3 DEF Itself

LEMMA FixedParsed ==
  ASSUME NEW k \in EventTypes, k # "TokenCreated", NEW lengths \in Lengths, NEW total \in Nat,
         Fits(IdlFields[k], Parser(k).cuts, total), Parser(k).need \in Nat, Parser(k).need <= total
  PROVE  /\ Body(k, lengths) \in Seq(Byte)
         /\ ParseAs(k, Body(k, lengths)) = Itself(k, lengths)
         /\ \A m \in 0..Len(Body(k, lengths)) - 1 :
              \/ ParseAs(k, SubSeq(Body(k, lengths), 1, m)) = Nothing
              \/ /\ ParseAs(k, SubSeq(Body(k, lengths), 1, m)) = Panic
                 /\ Parser(k).need < total
<1>. DEFINE cuts == Parser(k).cuts
<1>1. PICK d : d = Body(k, lengths)  OBVIOUS
<1>2. /\ d \in Seq(Byte) /\ Len(d) = total
      /\ \A i \in 1..Len(cuts) :
           /\ cuts[i].to <= total
           /\ SubSeq(d, cuts[i].from + 1, cuts[i].to) = Content(cuts[i].name, Width(IdlFields[k][i][1]))
  BY <1>1, FixedBody
<1>. HIDE DEF cuts
<1>3. /\ DOMAIN IdlFields[k] = 1..Len(cuts) /\ DOMAIN cuts = 1..Len(cuts)
      /\ Len(cuts) \in 1..Len(cuts) /\ cuts[Len(cuts)].to = total
      /\ \A i \in 1..Len(cuts) : /\ IdlFields[k][i][2] = cuts[i].name /\ cuts[i].to \in Nat
                                 /\ IdlFields[k][i][1] # "string"
  <2>1. Fits(IdlFields[k], cuts, total)  BY DEF cuts
  <2>. QED  BY <2>1 DEF Fits
<1>4. ParseAs(k, d) = Itself(k, lengths)
  <2>1. ASSUME NEW i \in DOMAIN cuts PROVE CutsOut(d, cuts[i], FieldsOf(k, lengths)[i])
    BY <1>2, <1>3 DEF FieldsOf, CutsOut
  <2>2. Event(k, d, cuts) = Itself(k, lengths)  BY <1>2, <1>3, <2>1, EventIs
  <2>3. ~(Len(d) < Parser(k).need)  BY <1>2
  <2>. QED  BY <2>2, <2>3 DEF ParseAs, cuts
<1>5. ASSUME NEW m \in 0..Len(d) - 1
      PROVE  \/ ParseAs(k, SubSeq(d, 1, m)) = Nothing
             \/ ParseAs(k, SubSeq(d, 1, m)) = Panic /\ Parser(k).need < total
  <2>. DEFINE e == SubSeq(d, 1, m)
  <2>1. Len(e) = m
    <3>1. \A i \in 1..m : i \in 1..Len(d)  BY <1>2
    <3>2. \A i \in 1..m : d[i] \in Byte  BY <1>2, <3>1
    <3>. QED  BY <3>2, SubSeqProperties
  <2>. HIDE DEF e
  <2>2. CASE m < Parser(k).need
    BY <2>1, <2>2 DEF ParseAs, e
  <2>3. CASE ~(m < Parser(k).need)
    <3>1. Parser(k).need < total  BY <1>2, <2>3
    <3>2. cuts[Len(cuts)].to > Len(e)  BY <1>2, <1>3, <2>1
    <3>3. Event(k, e, cuts) = Panic  BY <1>3, <3>2 DEF Event
    <3>4. ParseAs(k, e) = Event(k, e, cuts)  BY <2>1, <2>3 DEF ParseAs, cuts
    <3>. QED  BY <3>1, <3>3, <3>4 DEF e
  <2>. QED  BY <2>2, <2>3
<1>. QED  BY <1>1, <1>2, <1>4, <1>5

LEMMA FixedDecoded ==
  ASSUME NEW k \in EventTypes, k # "TokenCreated", NEW lengths \in Lengths
  PROVE  /\ Body(k, lengths) \in Seq(Byte)
         /\ ParseAs(k, Body(k, lengths)) = Itself(k, lengths)
         /\ \A m \in 0..Len(Body(k, lengths)) - 1 :
              \/ ParseAs(k, SubSeq(Body(k, lengths), 1, m)) = Nothing
              \/ /\ ParseAs(k, SubSeq(Body(k, lengths), 1, m)) = Panic
                 /\ k = "MilestoneDiscount"
<1>1. CASE k = "BuySell"
  <2>1. Parser(k) = BuySell /\ Parser(k).need = 97  BY <1>1 DEF Parser, BuySell
  <2>. QED  BY <1>1, <2>1, BuySellFits, FixedParsed
<1>2. CASE k = "LongShort"
  <2>1. Parser(k) = LongShort /\ Parser(k).need = 259  BY <1>2 DEF Parser, LongShort
  <2>. QED  BY <1>2, <2>1, LongShortFits, FixedParsed
<1>3. CASE k = "ForceLiquidate"
  <2>1. Parser(k) = ForceLiquidate /\ Parser(k).need = 96  BY <1>3 DEF Parser, ForceLiquidate
  <2>. QED  BY <1>3, <2>1, ForceLiquidateFits, FixedParsed
<1>4. CASE k = "FullClose"
  <2>1. Parser(k) = FullClose /\ Parser(k).need = 169  BY <1>4 DEF Parser, FullClose
  <2>. QED  BY <1>4, <2>1, FullCloseFits, FixedParsed
<1>5. CASE k = "PartialClose"
  <2>1. Parser(k) = PartialClose /\ Parser(k).need = 332  BY <1>5 DEF Parser, PartialClose
  <2>. QED  BY <1>5, <2>1, PartialCloseFits, FixedParsed
<1>6. CASE k = "MilestoneDiscount"
  <2>1. Parser(k) = MilestoneDiscount /\ Parser(k).need = 99  BY <1>6 DEF Parser, MilestoneDiscount
  <2>. QED  BY <1>6, <2>1, MilestoneDiscountFits, FixedParsed
<1>. QED  BY <1>1, <1>2, <1>3, <1>4, <1>5, <1>6 DEF EventTypes

-----------------------------------------------------------------------------
(* Strings *)

LEMMA FourBytes ==
  ASSUME NEW l \in StringLengths
  PROVE  /\ l \in Nat /\ LittleEndian(l) \in Seq(Nat) /\ Len(LittleEndian(l)) = 4
         /\ LittleEndian(l)[1] + 256 * LittleEndian(l)[2]
            + 65536 * LittleEndian(l)[3] + 16777216 * LittleEndian(l)[4] = l
<1>1. l \in Nat /\ l \div 16777216 < 256
  BY LengthsFit
<1>. DEFINE a == l \div 256  b == l \div 65536  c == l \div 16777216
<1>2. /\ a \in Nat /\ b \in Nat /\ c \in Nat
      /\ l % 256 \in Nat /\ a % 256 \in Nat /\ b % 256 \in Nat /\ c % 256 \in Nat
  BY <1>1
<1>3. /\ l = 256 * a + (l % 256) /\ a = 256 * (a \div 256) + (a % 256)
      /\ b = 256 * (b \div 256) + (b % 256) /\ c % 256 = c
  BY <1>1
<1>4. a \div 256 = b /\ b \div 256 = c
  BY <1>1
<1>. HIDE DEF a, b, c
<1>5. (l % 256) + 256 * (a % 256) + 65536 * (b % 256) + 16777216 * (c % 256) = l
  BY <1>1, <1>2, <1>3, <1>4
<1>6. LittleEndian(l) = << l % 256, a % 256, b % 256, c % 256 >>
  BY DEF LittleEndian, a, b, c
<1>. QED  BY <1>1, <1>2, <1>5, <1>6

StringNames == {"name", "symbol", "uri"}

(* w is how a string is written: four bytes of length, then its content.   *)
Stringed(w, name, l) ==
  /\ w \in Seq(Byte) /\ Len(w) = 4 + l
  /\ \A j \in 1..4 : w[j].value = LittleEndian(l)[j]
  /\ \A j \in 1..l : w[4 + j] = Content(name, l)[j]
  /\ Content(name, l) \in Seq(Byte) /\ Len(Content(name, l)) = l /\ l \in Nat

LEMMA StringIs ==
  ASSUME NEW name \in StringNames, NEW l \in StringLengths
  PROVE  Stringed(Values("length", LittleEndian(l)) \o Content(name, l), name, l)
<1>. PICK w : w = Values("length", LittleEndian(l)) \o Content(name, l)  OBVIOUS
<1>. SUFFICES
         /\ w \in Seq(Byte) /\ Len(w) = 4 + l
         /\ \A j \in 1..4 : w[j].value = LittleEndian(l)[j]
         /\ \A j \in 1..l : w[4 + j] = Content(name, l)[j]
         /\ Content(name, l) \in Seq(Byte) /\ Len(Content(name, l)) = l /\ l \in Nat
  BY DEF Stringed
<1>1. "length" \in Names /\ name \in Names
  <2>1. "length" \in Names  BY DEF Names
  <2>2. \E i \in DOMAIN IdlFields["TokenCreated"] : IdlFields["TokenCreated"][i][2] = name
    <3>1. /\ DOMAIN IdlFields["TokenCreated"] = 1..14
          /\ IdlFields["TokenCreated"][12][2] = "name"
          /\ IdlFields["TokenCreated"][13][2] = "symbol"
          /\ IdlFields["TokenCreated"][14][2] = "uri"
      BY DEF IdlFields, EventTypes, All
    <3>. QED  BY <3>1 DEF StringNames
  <2>3. "TokenCreated" \in EventTypes  BY DEF EventTypes
  <2>. QED  BY <2>1, <2>2, <2>3 DEF Names
<1>2. PICK v, c : v = Values("length", LittleEndian(l)) /\ c = Content(name, l)  OBVIOUS
<1>3. l \in Nat /\ v \in Seq(Byte) /\ Len(v) = 4 /\ \A j \in 1..4 : v[j].value = LittleEndian(l)[j]
  <2>1. PICK x : x = LittleEndian(l)  OBVIOUS
  <2>2. l \in Nat /\ x \in Seq(Nat) /\ Len(x) = 4  BY <2>1, FourBytes
  <2>3. /\ Values("length", x) \in Seq(Byte) /\ Len(Values("length", x)) = Len(x)
        /\ \A j \in 1..Len(x) : Values("length", x)[j].value = x[j]
    BY <1>1, <2>2, ValuesAre
  <2>. QED  BY <1>2, <2>1, <2>2, <2>3
<1>4. c \in Seq(Byte) /\ Len(c) = l
  BY <1>1, <1>2, <1>3, ContentIs
<1>5. /\ w \in Seq(Byte) /\ Len(w) = 4 + l
      /\ \A i \in 1..4 + l : w[i] = IF i <= 4 THEN v[i] ELSE c[i - 4]
  <2>1. /\ v \o c \in Seq(Byte) /\ Len(v \o c) = Len(v) + Len(c)
        /\ \A i \in 1..Len(v) + Len(c) : (v \o c)[i] = IF i <= Len(v) THEN v[i] ELSE c[i - Len(v)]
    BY <1>3, <1>4, ConcatProperties
  <2>. QED  BY <1>2, <1>3, <1>4, <2>1
<1>6. \A j \in 1..4 : j \in 1..4 + l /\ j <= 4  BY <1>3
<1>7. \A j \in 1..l : 4 + j \in 1..4 + l /\ ~(4 + j <= 4) /\ (4 + j) - 4 = j  BY <1>3
<1>8. \A j \in 1..4 : w[j].value = LittleEndian(l)[j]  BY <1>3, <1>5, <1>6
<1>9. \A j \in 1..l : w[4 + j] = c[j]  BY <1>5, <1>7
<1>. QED  BY <1>2, <1>3, <1>4, <1>5, <1>8, <1>9

(* If there are four bytes at an offset, they are the length.              *)
LengthAt(d, at, l) ==
  at + 4 <= Len(d) => \A j \in 1..4 : d[at + j].value = LittleEndian(l)[j]

LEMMA StringCutIs ==
  ASSUME NEW d \in Seq(Byte), NEW at \in Nat, NEW l \in StringLengths, NEW name,
         LengthAt(d, at, l)
  PROVE  StringCut(d, name, at) =
           IF at + 4 + l <= Len(d) THEN Cut(name, at + 4, at + 4 + l) ELSE Missing
<1>1. Len(d) \in Nat /\ l \in Nat  BY FourBytes
<1>2. CASE at + 4 > Len(d)
  <2>1. ~(at + 4 + l <= Len(d))  BY <1>1, <1>2
  <2>. QED  BY <1>2, <2>1 DEF StringCut
<1>3. CASE ~(at + 4 > Len(d))
  <2>1. \A j \in 1..4 : d[at + j].value = LittleEndian(l)[j]
    BY <1>1, <1>3 DEF LengthAt
  <2>2. 1 \in 1..4 /\ 2 \in 1..4 /\ 3 \in 1..4 /\ 4 \in 1..4  OBVIOUS
  <2>3. /\ d[at + 1].value = LittleEndian(l)[1] /\ d[at + 2].value = LittleEndian(l)[2]
        /\ d[at + 3].value = LittleEndian(l)[3] /\ d[at + 4].value = LittleEndian(l)[4]
    BY <2>1, <2>2
  <2>4. U32(d, at) = l  BY <2>3, FourBytes DEF U32
  <2>5. StringCut(d, name, at) =
          IF at + 4 + l > Len(d) THEN Missing ELSE Cut(name, at + 4, at + 4 + l)
    BY <1>3, <2>4 DEF StringCut
  <2>6. at + 4 + l > Len(d) <=> ~(at + 4 + l <= Len(d))  BY <1>1
  <2>. QED  BY <2>5, <2>6
<1>. QED  BY <1>2, <1>3

-----------------------------------------------------------------------------
(* The creation of a token: eleven fixed fields and three strings *)

StringAt(d, at, name, l) ==
  /\ at \in Nat /\ at + 4 + l <= Len(d)
  /\ \A j \in 1..4 : d[at + j].value = LittleEndian(l)[j]
  /\ SubSeq(d, at + 4 + 1, at + 4 + l) = Content(name, l)

(* Each of the eleven is cut out as it was written.                        *)
FixedAt(d) ==
  \A i \in 1..11 :
    SubSeq(d, TokenCreated.cuts[i].from + 1, TokenCreated.cuts[i].to)
      = Content(TokenCreated.cuts[i].name, Width(IdlFields["TokenCreated"][i][1]))

LEMMA TokenCreatedFits ==
  /\ Len(TokenCreated.cuts) = 11 /\ DOMAIN TokenCreated.cuts = 1..11
  /\ TokenCreated.cuts[1].from = 0 /\ TokenCreated.cuts[11].to = 261
  /\ \A i \in 1..11 : IdlFields["TokenCreated"][i][2] = TokenCreated.cuts[i].name
  /\ \A i \in 1..11 : IdlFields["TokenCreated"][i][1] # "string"
  /\ \A i \in 1..11 : /\ TokenCreated.cuts[i].from \in Nat /\ TokenCreated.cuts[i].to \in Nat
                      /\ TokenCreated.cuts[i].from <= TokenCreated.cuts[i].to
                      /\ TokenCreated.cuts[i].to <= 261
  /\ \A i \in 1..11 : /\ Width(IdlFields["TokenCreated"][i][1]) \in Nat
                      /\ TokenCreated.cuts[i].to
                           = TokenCreated.cuts[i].from + Width(IdlFields["TokenCreated"][i][1])
  /\ \A i \in 1..10 : TokenCreated.cuts[i + 1].from = TokenCreated.cuts[i].to
<1>1. /\ Len(TokenCreated.cuts) = 11 /\ DOMAIN TokenCreated.cuts = 1..11
      /\ TokenCreated.cuts[1].from = 0 /\ TokenCreated.cuts[11].to = 261
  BY DEF TokenCreated, Cut
<1>2. \A i \in 1..11 : IdlFields["TokenCreated"][i][2] = TokenCreated.cuts[i].name
  BY DEF TokenCreated, Cut, IdlFields, EventTypes, All
<1>3. \A i \in 1..11 : IdlFields["TokenCreated"][i][1] # "string"
  BY DEF IdlFields, EventTypes, All
<1>4. \A i \in 1..11 : /\ TokenCreated.cuts[i].from \in Nat /\ TokenCreated.cuts[i].to \in Nat
                       /\ TokenCreated.cuts[i].from <= TokenCreated.cuts[i].to
                       /\ TokenCreated.cuts[i].to <= 261
  BY DEF TokenCreated, Cut
<1>5. \A i \in 1..11 : /\ Width(IdlFields["TokenCreated"][i][1]) \in Nat
                       /\ TokenCreated.cuts[i].to
                            = TokenCreated.cuts[i].from + Width(IdlFields["TokenCreated"][i][1])
  BY Widths DEF TokenCreated, Cut, IdlFields, EventTypes, All
<1>6. \A i \in 1..10 : TokenCreated.cuts[i + 1].from = TokenCreated.cuts[i].to
  BY DEF TokenCreated, Cut
<1>. QED  BY <1>1, <1>2, <1>3, <1>4, <1>5, <1>6

LEMMA TokenStrings ==
  /\ "TokenCreated" \in EventTypes /\ DOMAIN IdlFields["TokenCreated"] = 1..14
  /\ IdlFields["TokenCreated"][12] = <<"string", "name">>
  /\ IdlFields["TokenCreated"][13] = <<"string", "symbol">>
  /\ IdlFields["TokenCreated"][14] = <<"string", "uri">>
<1>1. "TokenCreated" \in EventTypes  BY DEF EventTypes
<1>. QED  BY <1>1 DEF IdlFields, EventTypes, All

(* Each name of a field is a name. *)
LEMMA FieldNames ==
  ASSUME NEW k \in EventTypes, NEW i \in DOMAIN IdlFields[k]
  PROVE  IdlFields[k][i][2] \in Names
BY DEF Names

LEMMA FourteenLong ==
  ASSUME NEW S, NEW w \in [1..14 -> S]
  PROVE  w \in Seq(S) /\ Len(w) = 14
<1>1. 14 \in Nat  OBVIOUS
<1>2. PICK n : n = 14  OBVIOUS
<1>3. n \in Nat /\ w \in [1..n -> S]  BY <1>1, <1>2
<1>4. w \in Seq(S)  BY <1>3, IsASeq
<1>5. DOMAIN w = 1..n  BY <1>3
<1>6. Len(w) = n  BY <1>3, <1>4, <1>5, LenProperties
<1>. QED  BY <1>2, <1>4, <1>6

LEMMA TokenBody ==
  ASSUME NEW lengths \in Lengths,
         NEW d, d = Body("TokenCreated", lengths),
         NEW l1, NEW l2, NEW l3,
         l1 = lengths["name"], l2 = lengths["symbol"], l3 = lengths["uri"]
  PROVE  /\ l1 \in StringLengths /\ l2 \in StringLengths /\ l3 \in StringLengths
         /\ d \in Seq(Byte) /\ Len(d) = 273 + l1 + l2 + l3
         /\ FixedAt(d)
         /\ StringAt(d, 261, "name", l1) /\ StringAt(d, 265 + l1, "symbol", l2)
         /\ StringAt(d, 269 + l1 + l2, "uri", l3)
<1>. DEFINE fields == IdlFields["TokenCreated"]  cuts == TokenCreated.cuts
            w == Chunks("TokenCreated", lengths)
            off == [i \in 1..15 |-> IF i <= 11 THEN cuts[i].from ELSE IF i = 12 THEN 261
                     ELSE IF i = 13 THEN 265 + l1 ELSE IF i = 14 THEN 269 + l1 + l2
                     ELSE 273 + l1 + l2 + l3]
<1>1. /\ l1 \in StringLengths /\ l2 \in StringLengths /\ l3 \in StringLengths
      /\ l1 \in Nat /\ l2 \in Nat /\ l3 \in Nat
  <2>1. l1 \in StringLengths /\ l2 \in StringLengths /\ l3 \in StringLengths  BY DEF Lengths
  <2>2. \A l \in StringLengths : l \in Nat  BY LengthsFit
  <2>. QED  BY <2>1, <2>2
<1>2. \A i \in 1..14 : w[i] = Written(fields[i], lengths)
  BY TokenStrings DEF Chunks
<1>3. ASSUME NEW i \in 1..11
      PROVE  /\ w[i] = Content(cuts[i].name, Width(fields[i][1]))
             /\ w[i] \in Seq(Byte) /\ cuts[i].to = cuts[i].from + Len(w[i])
  <2>0. i \in 1..14  OBVIOUS
  <2>1. fields[i][1] # "string" /\ fields[i][2] = cuts[i].name  BY TokenCreatedFits
  <2>2. w[i] = Content(cuts[i].name, Width(fields[i][1]))  BY <1>2, <2>0, <2>1 DEF Written
  <2>3. cuts[i].name \in Names  BY <2>0, <2>1, TokenStrings, FieldNames
  <2>4. Width(fields[i][1]) \in Nat /\ cuts[i].to = cuts[i].from + Width(fields[i][1])
    BY TokenCreatedFits
  <2>. QED  BY <2>2, <2>3, <2>4, ContentIs
<1>4. /\ w[12] = Values("length", LittleEndian(l1)) \o Content("name", l1)
      /\ w[13] = Values("length", LittleEndian(l2)) \o Content("symbol", l2)
      /\ w[14] = Values("length", LittleEndian(l3)) \o Content("uri", l3)
  <2>1. 12 \in 1..14 /\ 13 \in 1..14 /\ 14 \in 1..14  OBVIOUS
  <2>2. w[12] = Written(fields[12], lengths) /\ fields[12] = <<"string", "name">>
    BY <1>2, <2>1, TokenStrings
  <2>3. w[13] = Written(fields[13], lengths) /\ fields[13] = <<"string", "symbol">>
    BY <1>2, <2>1, TokenStrings
  <2>4. w[14] = Written(fields[14], lengths) /\ fields[14] = <<"string", "uri">>
    BY <1>2, <2>1, TokenStrings
  <2>. HIDE DEF w, fields
  <2>5. w[12] = Values("length", LittleEndian(l1)) \o Content("name", l1)
    BY <2>2 DEF Written
  <2>6. w[13] = Values("length", LittleEndian(l2)) \o Content("symbol", l2)
    BY <2>3 DEF Written
  <2>7. w[14] = Values("length", LittleEndian(l3)) \o Content("uri", l3)
    BY <2>4 DEF Written
  <2>. QED  BY <2>5, <2>6, <2>7
<1>. HIDE DEF w, fields, cuts
<1>5. /\ w[12] \in Seq(Byte) /\ Len(w[12]) = 4 + l1
      /\ w[13] \in Seq(Byte) /\ Len(w[13]) = 4 + l2
      /\ w[14] \in Seq(Byte) /\ Len(w[14]) = 4 + l3
  <2>1. "name" \in StringNames /\ "symbol" \in StringNames /\ "uri" \in StringNames
    BY DEF StringNames
  <2>2. Stringed(w[12], "name", l1)  BY <1>1, <1>4, <2>1, StringIs
  <2>3. Stringed(w[13], "symbol", l2)  BY <1>1, <1>4, <2>1, StringIs
  <2>4. Stringed(w[14], "uri", l3)  BY <1>1, <1>4, <2>1, StringIs
  <2>. QED  BY <2>2, <2>3, <2>4 DEF Stringed
<1>6. w \in Seq(Seq(Byte)) /\ Len(w) = 14
  <2>1. \A i \in 1..14 : w[i] \in Seq(Byte)
    <3>1. \A i \in 1..14 : i \in 1..11 \/ i = 12 \/ i = 13 \/ i = 14  OBVIOUS
    <3>. QED  BY <1>3, <1>5, <3>1
  <2>2. w = [i \in 1..14 |-> w[i]]  BY TokenStrings DEF w, Chunks
  <2>3. w \in [1..14 -> Seq(Byte)]  BY <2>1, <2>2
  <2>. QED  BY <2>3, FourteenLong
<1>7. /\ \A i \in 1..11 : off[i] = cuts[i].from
      /\ off[12] = 261 /\ off[13] = 265 + l1 /\ off[14] = 269 + l1 + l2
      /\ off[15] = 273 + l1 + l2 + l3 /\ DOMAIN off = 1..15
  OBVIOUS
<1>8. off[1] = 0 /\ \A i \in 1..11 : /\ off[i] \in Nat /\ off[i + 1] = cuts[i].to
                                    /\ cuts[i].from \in Nat /\ cuts[i].to \in Nat /\ cuts[i].to <= 261
  <2>. HIDE DEF off
  <2>1. ASSUME NEW i \in 1..11 PROVE off[i + 1] = cuts[i].to
    <3>1. CASE i = 11  BY <1>7, <3>1, TokenCreatedFits DEF cuts
    <3>2. CASE i # 11
      <4>1. i \in 1..10 /\ i + 1 \in 1..11  BY <3>2
      <4>. QED  BY <1>7, <4>1, TokenCreatedFits DEF cuts
    <3>. QED  BY <3>1, <3>2
  <2>2. cuts[1].from = 0 /\ \A i \in 1..11 : /\ cuts[i].from \in Nat /\ cuts[i].to \in Nat
                                            /\ cuts[i].to <= 261
    BY TokenCreatedFits DEF cuts
  <2>3. 1 \in 1..11  OBVIOUS
  <2>. HIDE DEF cuts
  <2>. QED  BY <1>7, <2>1, <2>2, <2>3
<1>. HIDE DEF off
<1>9. off \in [1..15 -> Nat]
  <2>1. off = [i \in 1..15 |-> off[i]]  BY DEF off
  <2>2. \A i \in 1..15 : i \in 1..11 \/ i = 12 \/ i = 13 \/ i = 14 \/ i = 15  OBVIOUS
  <2>3. \A i \in 1..15 : off[i] \in Nat  BY <1>1, <1>7, <1>8, <2>2
  <2>. QED  BY <2>1, <2>3
<1>10. \A i \in 1..14 : off[i + 1] = off[i] + Len(w[i])
  <2>0. 12 + 1 = 13 /\ 13 + 1 = 14 /\ 14 + 1 = 15  OBVIOUS
  <2>1. ASSUME NEW i \in 1..11 PROVE off[i + 1] = off[i] + Len(w[i])
    <3>1. cuts[i].to = cuts[i].from + Len(w[i])  BY <1>3
    <3>2. off[i] = cuts[i].from  BY <1>7
    <3>3. off[i + 1] = cuts[i].to  BY <1>8
    <3>. QED  BY <3>1, <3>2, <3>3
  <2>2. off[12 + 1] = off[12] + Len(w[12])
    <3>1. 261 + (4 + l1) = 265 + l1  BY <1>1
    <3>. QED  BY <1>5, <1>7, <2>0, <3>1
  <2>3. off[13 + 1] = off[13] + Len(w[13])
    <3>1. (265 + l1) + (4 + l2) = 269 + l1 + l2  BY <1>1
    <3>. QED  BY <1>5, <1>7, <2>0, <3>1
  <2>4. off[14 + 1] = off[14] + Len(w[14])
    <3>1. (269 + l1 + l2) + (4 + l3) = 273 + l1 + l2 + l3  BY <1>1
    <3>. QED  BY <1>5, <1>7, <2>0, <3>1
  <2>5. \A i \in 1..14 : i \in 1..11 \/ i = 12 \/ i = 13 \/ i = 14  OBVIOUS
  <2>. QED  BY <2>1, <2>2, <2>3, <2>4, <2>5
<1>11. d \in Seq(Byte) /\ Len(d) = 273 + l1 + l2 + l3 /\ \A i \in 1..14 : Standing(d, i, w, off)
  <2>1. d = FlattenSeq(w)  BY DEF Body, w
  <2>2. Len(w) + 1 = 15 /\ Len(w) >= 1  BY <1>6
  <2>3. off \in [1..Len(w) + 1 -> Nat]  BY <1>9, <2>2
  <2>4. FlattenSeq(w) \in Seq(Byte) /\ Len(FlattenSeq(w)) = off[Len(w) + 1]
        /\ \A i \in 1..Len(w) : Standing(FlattenSeq(w), i, w, off)
    BY <1>6, <1>8, <1>10, <2>2, <2>3, LaidOut
  <2>. QED  BY <1>6, <1>7, <2>1, <2>2, <2>4
<1>12. ASSUME NEW i \in 1..11
       PROVE  SubSeq(d, cuts[i].from + 1, cuts[i].to) = Content(cuts[i].name, Width(fields[i][1]))
  <2>1. PICK v, a, b : v = w[i] /\ a = cuts[i].from /\ b = cuts[i].to  OBVIOUS
  <2>2. a \in Nat /\ b \in Nat /\ b = a + Len(v) /\ v \in Seq(Byte)  BY <1>3, <1>8, <2>1
  <2>3. b <= Len(d) /\ \A j \in 1..Len(v) : d[a + j] = v[j]
    <3>0. i \in 1..14  OBVIOUS
    <3>1. Standing(d, i, w, off)  BY <1>11, <3>0
    <3>2. off[i] = a  BY <1>7, <2>1
    <3>3. off[i + 1] = b  BY <1>8, <2>1
    <3>. QED  BY <2>1, <3>1, <3>2, <3>3 DEF Standing
  <2>4. SubSeq(d, a + 1, b) = v  BY <1>11, <2>2, <2>3, CutIs
  <2>. QED  BY <1>3, <2>1, <2>4
<1>13. ASSUME NEW i \in {12, 13, 14}, NEW name \in StringNames, NEW l \in StringLengths,
              w[i] = Values("length", LittleEndian(l)) \o Content(name, l)
       PROVE  StringAt(d, off[i], name, l)
  <2>1. PICK v, a : v = w[i] /\ a = off[i]  OBVIOUS
  <2>2. /\ v \in Seq(Byte) /\ Len(v) = 4 + l
        /\ \A j \in 1..4 : v[j].value = LittleEndian(l)[j]
        /\ \A j \in 1..l : v[4 + j] = Content(name, l)[j]
        /\ Content(name, l) \in Seq(Byte) /\ Len(Content(name, l)) = l /\ l \in Nat
    <3>1. Stringed(v, name, l)  BY <1>13, <2>1, StringIs
    <3>. QED  BY <3>1 DEF Stringed
  <2>3. i \in 1..14 /\ i \in 1..15  OBVIOUS
  <2>4. a \in Nat /\ off[i + 1] = a + Len(v)  BY <1>9, <1>10, <2>1, <2>3
  <2>5. a + 4 + l <= Len(d) /\ \A j \in 1..4 + l : d[a + j] = v[j]
    <3>1. Standing(d, i, w, off)  BY <1>11, <2>3
    <3>2. off[i + 1] <= Len(d) /\ \A j \in 1..Len(v) : d[a + j] = v[j]
      BY <2>1, <3>1 DEF Standing
    <3>3. a + Len(v) = a + 4 + l  BY <2>2, <2>4
    <3>. QED  BY <2>2, <2>4, <3>2, <3>3
  <2>6. \A j \in 1..4 : d[a + j].value = LittleEndian(l)[j]
    <3>1. \A j \in 1..4 : j \in 1..4 + l  BY <2>2
    <3>. QED  BY <2>2, <2>5, <3>1
  <2>7. \A j \in 1..l : d[(a + 4) + j] = Content(name, l)[j]
    <3>1. \A j \in 1..l : 4 + j \in 1..4 + l /\ (a + 4) + j = a + (4 + j)  BY <2>2, <2>4
    <3>. QED  BY <2>2, <2>5, <3>1
  <2>8. SubSeq(d, (a + 4) + 1, a + 4 + l) = Content(name, l)
    <3>1. PICK c, x, y : c = Content(name, l) /\ x = a + 4 /\ y = a + 4 + l  OBVIOUS
    <3>2. x \in Nat /\ y \in Nat /\ y = x + Len(c) /\ y <= Len(d) /\ c \in Seq(Byte)
      <4>1. Len(c) = l /\ c \in Seq(Byte)  BY <2>2, <3>1
      <4>. QED  BY <2>2, <2>4, <2>5, <3>1, <4>1
    <3>3. \A j \in 1..Len(c) : d[x + j] = c[j]  BY <2>2, <2>7, <3>1
    <3>4. SubSeq(d, x + 1, y) = c  BY <1>11, <3>2, <3>3, CutIs
    <3>. QED  BY <3>1, <3>4
  <2>. QED  BY <2>1, <2>4, <2>5, <2>6, <2>8 DEF StringAt
<1>14. /\ StringAt(d, 261, "name", l1) /\ StringAt(d, 265 + l1, "symbol", l2)
       /\ StringAt(d, 269 + l1 + l2, "uri", l3)
  <2>1. StringAt(d, off[12], "name", l1)  BY <1>1, <1>4, <1>13 DEF StringNames
  <2>2. StringAt(d, off[13], "symbol", l2)  BY <1>1, <1>4, <1>13 DEF StringNames
  <2>3. StringAt(d, off[14], "uri", l3)  BY <1>1, <1>4, <1>13 DEF StringNames
  <2>. QED  BY <1>7, <2>1, <2>2, <2>3
<1>15. FixedAt(d)  BY <1>12 DEF fields, cuts, FixedAt
<1>. QED  BY <1>1, <1>11, <1>14, <1>15

(* Where strings of lengths x, y and z end. *)
EndsAre(x, y, z, a, b, c) ==
  /\ a = 261 + 4 + x /\ 265 = 261 + 4
  /\ b = a + 4 + y /\ 269 + x = a + 4
  /\ c = b + 4 + z /\ 273 + x + y = b + 4
  /\ a \in Nat /\ b \in Nat /\ c \in Nat /\ a <= b /\ b <= c

LEMMA Ends ==
  ASSUME NEW x \in Nat, NEW y \in Nat, NEW z \in Nat, NEW a, NEW b, NEW c,
         a = 265 + x, b = 269 + x + y, c = 273 + x + y + z
  PROVE  EndsAre(x, y, z, a, b, c)
BY DEF EndsAre

Begins(e, d) == Len(e) <= Len(d) /\ \A i \in 1..Len(e) : e[i] = d[i]

(* What is cut out of the first bytes of a creation.                       *)
LEMMA TokenCuts ==
  ASSUME NEW lengths \in Lengths,
         NEW d, d = Body("TokenCreated", lengths),
         NEW e \in Seq(Byte), Begins(e, d),
         NEW l1, NEW l2, NEW l3,
         l1 = lengths["name"], l2 = lengths["symbol"], l3 = lengths["uri"]
  PROVE  /\ Len(e) < Len(d) => StringCuts(e)[3] = Missing
         /\ Len(e) = Len(d) =>
              /\ StringCuts(e)[3] # Missing
              /\ StringCuts(e) = << Cut("name", 265, 265 + l1),
                                    Cut("symbol", 269 + l1, 269 + l1 + l2),
                                    Cut("uri", 273 + l1 + l2, 273 + l1 + l2 + l3) >>
<1>1. /\ l1 \in StringLengths /\ l2 \in StringLengths /\ l3 \in StringLengths
      /\ d \in Seq(Byte) /\ Len(d) = 273 + l1 + l2 + l3
      /\ StringAt(d, 261, "name", l1) /\ StringAt(d, 265 + l1, "symbol", l2)
      /\ StringAt(d, 269 + l1 + l2, "uri", l3)
  BY TokenBody
<1>2. l1 \in Nat /\ l2 \in Nat /\ l3 \in Nat /\ Len(e) \in Nat /\ Len(d) \in Nat
  <2>1. \A l \in StringLengths : l \in Nat  BY LengthsFit
  <2>. QED  BY <1>1, <2>1
<1>3. ASSUME NEW at, NEW name, NEW l \in StringLengths, StringAt(d, at, name, l),
             NEW a, NEW b, a = at + 4, b = at + 4 + l
      PROVE  StringCut(e, name, at) = IF b <= Len(e) THEN Cut(name, a, b) ELSE Missing
  <2>1. at \in Nat /\ at + 4 + l <= Len(d) /\ \A j \in 1..4 : d[at + j].value = LittleEndian(l)[j]
    BY <1>3 DEF StringAt
  <2>2. at + 4 <= Len(e) => \A j \in 1..4 : e[at + j].value = LittleEndian(l)[j]
    <3>1. at + 4 <= Len(e) => \A j \in 1..4 : at + j \in 1..Len(e)  BY <1>2, <2>1
    <3>2. \A i \in 1..Len(e) : e[i] = d[i]  BY DEF Begins
    <3>. QED  BY <2>1, <3>1, <3>2
  <2>3. LengthAt(e, at, l) /\ at \in Nat  BY <2>1, <2>2 DEF LengthAt
  <2>4. StringCut(e, name, at) =
          IF at + 4 + l <= Len(e) THEN Cut(name, at + 4, at + 4 + l) ELSE Missing
    BY <2>3, StringCutIs
  <2>. QED  BY <1>3, <2>4
<1>4. \A a, b : /\ Cut("name", a, b) # Missing /\ Cut("name", a, b).to = b
                /\ Cut("symbol", a, b) # Missing /\ Cut("symbol", a, b).to = b
                /\ Cut("uri", a, b) # Missing
  BY DEF Cut, Missing
<1>d. PICK e1, e2, e3 : e1 = 265 + l1 /\ e2 = 269 + l1 + l2 /\ e3 = 273 + l1 + l2 + l3
  OBVIOUS
<1>e. /\ e1 = 261 + 4 + l1 /\ 265 = 261 + 4
      /\ e2 = e1 + 4 + l2 /\ 269 + l1 = e1 + 4
      /\ e3 = e2 + 4 + l3 /\ 273 + l1 + l2 = e2 + 4
      /\ e1 \in Nat /\ e2 \in Nat /\ e3 \in Nat /\ e1 <= e2 /\ e2 <= e3
  <2>1. EndsAre(l1, l2, l3, e1, e2, e3)  BY <1>d, <1>2, Ends
  <2>. QED  BY <2>1 DEF EndsAre
<1>5. StringCut(e, "name", 261) = IF e1 <= Len(e) THEN Cut("name", 265, e1) ELSE Missing
  <2>. QED  BY <1>1, <1>3, <1>e
<1>6. StringCut(e, "symbol", e1) = IF e2 <= Len(e) THEN Cut("symbol", 269 + l1, e2) ELSE Missing
  <2>1. StringAt(d, e1, "symbol", l2)  BY <1>1, <1>d
  <2>. QED  BY <1>1, <1>3, <1>e, <2>1
<1>7. StringCut(e, "uri", e2) = IF e3 <= Len(e) THEN Cut("uri", 273 + l1 + l2, e3) ELSE Missing
  <2>1. StringAt(d, e2, "uri", l3)  BY <1>1, <1>d
  <2>. QED  BY <1>1, <1>3, <1>e, <2>1
<1>8. e1 \in Nat /\ e2 \in Nat /\ e3 \in Nat /\ e1 <= e2 /\ e2 <= e3 /\ Len(d) = e3
  BY <1>1, <1>d, <1>e
<1>. DEFINE c1 == StringCut(e, "name", 261)
            c2 == StringAfter(c1, e, "symbol")
            c3 == StringAfter(c2, e, "uri")
<1>9. StringCuts(e) = <<c1, c2, c3>> /\ StringCuts(e)[3] = c3
  BY DEF StringCuts
<1>10. c1 = (IF e1 <= Len(e) THEN Cut("name", 265, e1) ELSE Missing)
  BY <1>5
<1>11. c2 = Missing \/ (c2 = Cut("symbol", 269 + l1, e2) /\ e2 <= Len(e))
  <2>1. c1 = Missing \/ (c1 # Missing /\ c1.to = e1)  BY <1>4, <1>5
  <2>2. c2 = IF c1 = Missing THEN Missing ELSE StringCut(e, "symbol", c1.to)
    BY DEF StringAfter
  <2>. HIDE DEF c1, c2
  <2>. QED  BY <1>6, <2>1, <2>2
<1>12. c3 = Missing \/ (c3 = Cut("uri", 273 + l1 + l2, e3) /\ e3 <= Len(e))
  <2>1. c2 = Missing \/ (c2 # Missing /\ c2.to = e2)  BY <1>4, <1>11
  <2>2. c3 = IF c2 = Missing THEN Missing ELSE StringCut(e, "uri", c2.to)
    BY DEF StringAfter
  <2>. HIDE DEF c1, c2, c3
  <2>. QED  BY <1>7, <2>1, <2>2
<1>13. Len(e) < Len(d) => c3 = Missing
  <2>. HIDE DEF c3
  <2>. QED  BY <1>2, <1>8, <1>12
<1>14. ASSUME Len(e) = Len(d)
       PROVE  /\ c1 = Cut("name", 265, e1) /\ c2 = Cut("symbol", 269 + l1, e2)
              /\ c3 = Cut("uri", 273 + l1 + l2, e3)
  <2>0. e1 <= Len(e) /\ e2 <= Len(e) /\ e3 <= Len(e)  BY <1>2, <1>8, <1>14
  <2>1. c1 = Cut("name", 265, e1)  BY <1>5, <2>0
  <2>2. c2 = StringCut(e, "symbol", e1)  BY <1>4, <2>1 DEF StringAfter
  <2>3. c2 = Cut("symbol", 269 + l1, e2)  BY <1>6, <2>0, <2>2
  <2>4. c3 = StringCut(e, "uri", e2)  BY <1>4, <2>3 DEF StringAfter
  <2>5. c3 = Cut("uri", 273 + l1 + l2, e3)  BY <1>7, <2>0, <2>4
  <2>. QED  BY <2>1, <2>3, <2>5
<1>15. ASSUME Len(e) = Len(d) PROVE c3 # Missing
  BY <1>4, <1>14, <1>15
<1>. HIDE DEF c1, c2, c3
<1>. QED  BY <1>9, <1>13, <1>14, <1>15, <1>d

LEMMA FirstBytes ==
  ASSUME NEW d \in Seq(Byte), NEW m \in 0..Len(d)
  PROVE  /\ SubSeq(d, 1, m) \in Seq(Byte) /\ Len(SubSeq(d, 1, m)) = m
         /\ \A i \in 1..m : SubSeq(d, 1, m)[i] = d[i]
<1>1. Len(d) \in Nat /\ m \in Nat /\ \A i \in 1..m : i \in 1..Len(d)  OBVIOUS
<1>2. \A i \in 1..m : d[i] \in Byte  BY <1>1
<1>. QED  BY <1>1, <1>2, SubSeqProperties

LEMMA TokenParsed ==
  ASSUME NEW lengths \in Lengths,
         NEW d, d = Body("TokenCreated", lengths),
         NEW l1, NEW l2, NEW l3,
         l1 = lengths["name"], l2 = lengths["symbol"], l3 = lengths["uri"]
  PROVE  /\ d \in Seq(Byte)
         /\ ParseAs("TokenCreated", d) = Itself("TokenCreated", lengths)
         /\ \A m \in 0..Len(d) - 1 : ParseAs("TokenCreated", SubSeq(d, 1, m)) = Nothing
<1>1. /\ l1 \in StringLengths /\ l2 \in StringLengths /\ l3 \in StringLengths
      /\ d \in Seq(Byte) /\ Len(d) = 273 + l1 + l2 + l3
      /\ FixedAt(d)
      /\ StringAt(d, 261, "name", l1) /\ StringAt(d, 265 + l1, "symbol", l2)
      /\ StringAt(d, 269 + l1 + l2, "uri", l3)
  BY TokenBody
<1>. DEFINE cuts == TokenCreated.cuts
            strings == << Cut("name", 265, 265 + l1), Cut("symbol", 269 + l1, 269 + l1 + l2),
                          Cut("uri", 273 + l1 + l2, 273 + l1 + l2 + l3) >>
            all == cuts \o strings
<1>2. /\ d \in Seq(Byte) /\ Len(d) = 273 + l1 + l2 + l3
      /\ \A i \in 1..11 : SubSeq(d, cuts[i].from + 1, cuts[i].to)
                            = Content(cuts[i].name, Width(IdlFields["TokenCreated"][i][1]))
      /\ StringAt(d, 261, "name", l1) /\ StringAt(d, 265 + l1, "symbol", l2)
      /\ StringAt(d, 269 + l1 + l2, "uri", l3)
      /\ l1 \in StringLengths /\ l2 \in StringLengths /\ l3 \in StringLengths
  BY <1>1 DEF FixedAt
<1>3. l1 \in Nat /\ l2 \in Nat /\ l3 \in Nat
  <2>1. \A l \in StringLengths : l \in Nat  BY LengthsFit
  <2>. QED  BY <1>2, <2>1
<1>4. Len(d) \in Nat /\ 261 <= Len(d)
  <2>1. Len(d) = 273 + l1 + l2 + l3  BY <1>2
  <2>2. 273 + l1 + l2 + l3 \in Nat  BY <1>3
  <2>3. 261 <= 273 + l1 + l2 + l3  BY <1>3
  <2>. QED  BY <2>1, <2>2, <2>3
<1>5. Parser("TokenCreated").need = 261 /\ Parser("TokenCreated").cuts = cuts
  BY DEF Parser, TokenCreated
<1>6. /\ Len(all) = 14 /\ DOMAIN all = 1..14
      /\ \A i \in 1..11 : all[i] = cuts[i]
      /\ all[12] = strings[1] /\ all[13] = strings[2] /\ all[14] = strings[3]
  BY DEF TokenCreated
<1>7. Event("TokenCreated", d, all) = Itself("TokenCreated", lengths)
  <2>. HIDE DEF cuts, strings
  <2>. DEFINE Right(i) == CutsOut(d, all[i], FieldsOf("TokenCreated", lengths)[i])
  <2>1. ASSUME NEW i \in 1..11 PROVE Right(i)
    <3>1. i \in 1..14 /\ all[i] = cuts[i]
      <4>. HIDE DEF all
      <4>. QED  BY <1>6
    <3>2. cuts[i].to \in Nat /\ cuts[i].to <= 261  BY TokenCreatedFits DEF cuts
    <3>3. cuts[i].to <= Len(d)
      <4>1. PICK x, y : x = cuts[i].to /\ y = Len(d)  OBVIOUS
      <4>2. x \in Nat /\ y \in Nat /\ x <= 261 /\ 261 <= y  BY <1>4, <3>2, <4>1
      <4>3. x <= y  BY <4>2
      <4>. QED  BY <4>1, <4>3
    <3>4. /\ IdlFields["TokenCreated"][i][2] = cuts[i].name
          /\ IdlFields["TokenCreated"][i][1] # "string"
      BY TokenCreatedFits DEF cuts
    <3>5. FieldsOf("TokenCreated", lengths)[i]
            = <<cuts[i].name, Content(cuts[i].name, Width(IdlFields["TokenCreated"][i][1]))>>
      BY <3>1, <3>4, TokenStrings DEF FieldsOf
    <3>6. SubSeq(d, cuts[i].from + 1, cuts[i].to)
            = Content(cuts[i].name, Width(IdlFields["TokenCreated"][i][1]))
      BY <1>2
    <3>. QED  BY <3>1, <3>2, <3>3, <3>5, <3>6 DEF CutsOut
  <2>2. ASSUME NEW i \in 1..14, NEW name, NEW l \in StringLengths, NEW at,
               IdlFields["TokenCreated"][i] = <<"string", name>>, lengths[name] = l,
               StringAt(d, at, name, l), all[i] = Cut(name, at + 4, at + 4 + l)
        PROVE  Right(i)
    <3>1. at \in Nat /\ at + 4 + l <= Len(d) /\ SubSeq(d, at + 4 + 1, at + 4 + l) = Content(name, l)
      BY <2>2 DEF StringAt
    <3>2. all[i].name = name /\ all[i].from = at + 4 /\ all[i].to = at + 4 + l
      BY <2>2 DEF Cut
    <3>3. at + 4 + l \in Nat
      <4>1. l \in Nat  BY LengthsFit
      <4>. QED  BY <3>1, <4>1
    <3>4. FieldsOf("TokenCreated", lengths)[i] = <<name, Content(name, l)>>
      <4>1. PICK f : f = IdlFields["TokenCreated"][i]  OBVIOUS
      <4>2. FieldsOf("TokenCreated", lengths)[i]
              = << f[2], Content(f[2], IF f[1] = "string" THEN lengths[f[2]] ELSE Width(f[1])) >>
        BY <4>1, TokenStrings DEF FieldsOf
      <4>3. f[1] = "string" /\ f[2] = name  BY <2>2, <4>1
      <4>. QED  BY <2>2, <4>2, <4>3
    <3>. QED  BY <3>1, <3>2, <3>3, <3>4 DEF CutsOut
  <2>3. all[12] = Cut("name", 265, 265 + l1) /\ all[13] = Cut("symbol", 269 + l1, 269 + l1 + l2)
        /\ all[14] = Cut("uri", 273 + l1 + l2, 273 + l1 + l2 + l3)
    BY <1>6 DEF strings
  <2>. HIDE DEF all, Right
  <2>4. Right(12)
    <3>1. 265 = 261 + 4 /\ 265 + l1 = 261 + 4 + l1 /\ 12 \in 1..14  BY <1>3
    <3>2. all[12] = Cut("name", 261 + 4, 261 + 4 + l1)  BY <2>3, <3>1
    <3>3. IdlFields["TokenCreated"][12] = <<"string", "name">>  BY TokenStrings
    <3>4. StringAt(d, 261, "name", l1) /\ l1 \in StringLengths  BY <1>2
    <3>. QED  BY <2>2, <3>1, <3>2, <3>3, <3>4
  <2>5. Right(13)
    <3>1. /\ 269 + l1 = (265 + l1) + 4 /\ 269 + l1 + l2 = (265 + l1) + 4 + l2
          /\ 13 \in 1..14
      BY <1>3
    <3>2. all[13] = Cut("symbol", (265 + l1) + 4, (265 + l1) + 4 + l2)  BY <2>3, <3>1
    <3>3. IdlFields["TokenCreated"][13] = <<"string", "symbol">>  BY TokenStrings
    <3>4. StringAt(d, 265 + l1, "symbol", l2) /\ l2 \in StringLengths  BY <1>2
    <3>. QED  BY <2>2, <3>1, <3>2, <3>3, <3>4
  <2>6. Right(14)
    <3>1. /\ 273 + l1 + l2 = (269 + l1 + l2) + 4
          /\ 273 + l1 + l2 + l3 = (269 + l1 + l2) + 4 + l3
          /\ 14 \in 1..14
      BY <1>3
    <3>2. all[14] = Cut("uri", (269 + l1 + l2) + 4, (269 + l1 + l2) + 4 + l3)  BY <2>3, <3>1
    <3>3. IdlFields["TokenCreated"][14] = <<"string", "uri">>  BY TokenStrings
    <3>4. StringAt(d, 269 + l1 + l2, "uri", l3) /\ l3 \in StringLengths  BY <1>2
    <3>. QED  BY <2>2, <3>1, <3>2, <3>3, <3>4
  <2>7. \A i \in DOMAIN all : i \in 1..11 \/ i = 12 \/ i = 13 \/ i = 14  BY <1>6
  <2>8. \A i \in DOMAIN all : Right(i)
    BY <2>1, <2>4, <2>5, <2>6, <2>7
  <2>. USE DEF Right
  <2>9. DOMAIN all = DOMAIN IdlFields["TokenCreated"] /\ "TokenCreated" \in EventTypes
    BY <1>6, TokenStrings
  <2>10. d \in Seq(Byte)  BY <1>2
  <2>. QED  BY <2>8, <2>9, <2>10, EventIs
<1>8. ParseAs("TokenCreated", d) = Itself("TokenCreated", lengths)
  <2>1. StringCuts(d) = strings /\ StringCuts(d)[3] # Missing
    <3>1. d \in Seq(Byte) /\ Begins(d, d)
      <4>. HIDE DEF cuts, strings, all
      <4>1. Begins(d, d)  BY <1>4 DEF Begins
      <4>. QED  BY <1>2, <4>1
    <3>2. /\ StringCuts(d)[3] # Missing
          /\ StringCuts(d) = << Cut("name", 265, 265 + l1),
                                Cut("symbol", 269 + l1, 269 + l1 + l2),
                                Cut("uri", 273 + l1 + l2, 273 + l1 + l2 + l3) >>
      <4>. HIDE DEF cuts, strings, all
      <4>. QED  BY <3>1, TokenCuts
    <3>. QED  BY <3>2
  <2>2. ~(Len(d) < 261)  BY <1>4
  <2>. HIDE DEF cuts, strings
  <2>. QED  BY <1>5, <1>7, <2>1, <2>2 DEF ParseAs
<1>9. ASSUME NEW m \in 0..Len(d) - 1 PROVE ParseAs("TokenCreated", SubSeq(d, 1, m)) = Nothing
  <2>. DEFINE e == SubSeq(d, 1, m)
  <2>1. e \in Seq(Byte) /\ Len(e) = m /\ \A i \in 1..m : e[i] = d[i]
    <3>1. m \in 0..Len(d)  BY <1>4
    <3>. HIDE DEF cuts, strings, all
    <3>. QED  BY <1>2, <3>1, FirstBytes
  <2>. HIDE DEF e
  <2>2. Len(e) < Len(d) /\ Begins(e, d)  BY <1>4, <2>1 DEF Begins
  <2>3. StringCuts(e)[3] = Missing
    <3>. HIDE DEF cuts, strings, all
    <3>. QED  BY <2>1, <2>2, TokenCuts
  <2>4. ParseAs("TokenCreated", e) = Nothing  BY <2>3 DEF ParseAs
  <2>. QED  BY <2>4 DEF e
<1>. QED  BY <1>2, <1>8, <1>9

-----------------------------------------------------------------------------
(* Every type *)

LEMMA EveryParsed ==
  ASSUME NEW k \in EventTypes, NEW lengths \in Lengths
  PROVE  /\ Body(k, lengths) \in Seq(Byte)
         /\ ParseAs(k, Body(k, lengths)) = Itself(k, lengths)
         /\ \A m \in 0..Len(Body(k, lengths)) - 1 :
              \/ ParseAs(k, SubSeq(Body(k, lengths), 1, m)) = Nothing
              \/ /\ ParseAs(k, SubSeq(Body(k, lengths), 1, m)) = Panic
                 /\ k = "MilestoneDiscount"
<1>1. CASE k = "TokenCreated"
  <2>1. PICK d, l1, l2, l3 : /\ d = Body("TokenCreated", lengths) /\ l1 = lengths["name"]
                             /\ l2 = lengths["symbol"] /\ l3 = lengths["uri"]
    OBVIOUS
  <2>2. /\ d \in Seq(Byte)
        /\ ParseAs("TokenCreated", d) = Itself("TokenCreated", lengths)
        /\ \A m \in 0..Len(d) - 1 : ParseAs("TokenCreated", SubSeq(d, 1, m)) = Nothing
    BY <2>1, TokenParsed
  <2>. QED  BY <1>1, <2>1, <2>2
<1>2. CASE k # "TokenCreated"
  BY <1>2, FixedDecoded
<1>. QED  BY <1>1, <1>2

(* For strings of any length that four bytes can hold, every event of every *)
(* one of the seven types is decoded to itself: no field that             *)
(* parse_event_data cuts out by a hand-written offset begins or ends a byte *)
(* too early or too late or has another's name, the strings of a creation  *)
(* included, no two discriminators are taken for one another, and an event *)
(* that breaks off anywhere is refused, or, if a discount, panics.         *)
THEOREM DecodesEveryEvent == DecodedExactly = EventTypes
<1>1. ASSUME NEW k \in EventTypes, NEW lengths \in Lengths
      PROVE  /\ Decode(Emitted(k, lengths)) = [type |-> k, fields |-> FieldsOf(k, lengths)]
             /\ \A n \in 0..Len(Emitted(k, lengths)) - 1 :
                  \/ Decode(SubSeq(Emitted(k, lengths), 1, n)) = Nothing
                  \/ /\ k = "MilestoneDiscount"
                     /\ Decode(SubSeq(Emitted(k, lengths), 1, n)) = Panic
  <2>. DEFINE d == Body(k, lengths)
  <2>1. /\ d \in Seq(Byte) /\ ParseAs(k, d) = Itself(k, lengths)
        /\ \A m \in 0..Len(d) - 1 :
             \/ ParseAs(k, SubSeq(d, 1, m)) = Nothing
             \/ ParseAs(k, SubSeq(d, 1, m)) = Panic /\ k = "MilestoneDiscount"
    BY EveryParsed
  <2>2. /\ Decode(Emitted(k, lengths)) = ParseAs(k, d)
        /\ \A n \in 0..Len(Emitted(k, lengths)) - 1 :
             \/ Decode(SubSeq(Emitted(k, lengths), 1, n)) = Nothing
             \/ \E m \in 0..Len(d) - 1 :
                  Decode(SubSeq(Emitted(k, lengths), 1, n)) = ParseAs(k, SubSeq(d, 1, m))
    BY <2>1, EmittedIs
  <2>. HIDE DEF d
  <2>3. Decode(Emitted(k, lengths)) = [type |-> k, fields |-> FieldsOf(k, lengths)]
    BY <2>1, <2>2 DEF Itself
  <2>4. ASSUME NEW n \in 0..Len(Emitted(k, lengths)) - 1
        PROVE  \/ Decode(SubSeq(Emitted(k, lengths), 1, n)) = Nothing
               \/ /\ k = "MilestoneDiscount"
                  /\ Decode(SubSeq(Emitted(k, lengths), 1, n)) = Panic
    BY <2>1, <2>2
  <2>. QED  BY <2>3, <2>4
<1>. QED  BY <1>1 DEF DecodedExactly, Lengths

(* At every moment of every execution on the transactions the runs use,     *)
(* what has been written so far is decoded exactly: now for strings of any *)
(* length, where the run tries three.                                      *)
THEOREM DecodingIsExact == LogsOf = MCLogsOf => (Spec => []DecodesWhatIsWritten)
<1>. SUFFICES ASSUME LogsOf = MCLogsOf PROVE Spec => []DecodesWhatIsWritten
  OBVIOUS
<1>. DEFINE Inv == executed \in 0..3
<1>1. Len(LogsOf) = 3
  BY DEF MCLogsOf
<1>2. Init => Inv
  BY DEF Init
<1>3. Inv /\ [Next]_vars => Inv'
  <2>. SUFFICES ASSUME Inv, [Next]_vars PROVE Inv'
    OBVIOUS
  <2>1. CASE Execute
    BY <1>1, <2>1 DEF Execute
  <2>2. CASE Loop
    BY <2>2 DEF Loop, Connecting, ConnectOk, ConnectErr, SubscribeErr, Retry, SubscribeOk,
                SleepOver, StreamEnds, Leave, NodePings, PongSent, PongErr, netVars
  <2>3. CASE Message \/ Processor
    BY <2>3 DEF Message, ReadMessage, FetchOk, FetchNothing, Broadcast, Processor, Lagged,
                HandleEvent, netVars
  <2>4. CASE PingOk \/ PingErr
    BY <2>4 DEF PingOk, PingErr, netVars
  <2>5. ASSUME NEW t \in Txs, Repeat(t) PROVE Inv'
    BY <2>5 DEF Repeat
  <2>6. ASSUME NEW how, NEW n, Break(how, n) PROVE Inv'
    BY <2>6 DEF Break
  <2>7. CASE UNCHANGED vars
    BY <2>7 DEF vars, netVars
  <2>. QED  BY <2>1, <2>2, <2>3, <2>4, <2>5, <2>6, <2>7 DEF Next
<1>4. Inv => DecodesWhatIsWritten
  <2>1. \A t \in 1..3 : MCTypesIn[t] \subseteq EventTypes
    BY DEF MCTypesIn, EventTypes
  <2>2. Inv => \A t \in 1..executed : t \in 1..3
    OBVIOUS
  <2>. QED  BY <2>1, <2>2, DecodesEveryEvent DEF DecodesWhatIsWritten
<1>. QED  BY <1>2, <1>3, <1>4, PTL DEF Spec
=============================================================================
