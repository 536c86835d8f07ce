------------------------------ MODULE Induction ------------------------------
(***************************************************************************)
(* Induction over data for the proofs of the other modules, without an     *)
(* operator as a parameter: the set of the numbers a statement fails for is *)
(* a set like any other, and a nonempty set of naturals has a least        *)
(* element.                                                                *)
(***************************************************************************)
EXTENDS Integers, FiniteSetTheorems, TLAPS

(* A nonempty set of naturals has a least element: the initial parts of a  *)
(* finite part of it are well-founded under inclusion.                     *)
LEMMA LeastElement ==
  ASSUME NEW T \in SUBSET Nat, T # {}
  PROVE  \E m \in T : \A n \in T : m <= n
<1>1. PICK a \in T : TRUE  OBVIOUS
<1>. DEFINE D(x) == {n \in T : n <= x}
            W == {d \in SUBSET (0..a) : \E x \in T : d = D(x)}
<1>2. IsWellFoundedOn(StrictSubsetOrdering(0..a), FiniteSubsetsOf(0..a))
  BY FS_StrictSubsetOrderingWellFounded
<1>3. W \subseteq FiniteSubsetsOf(0..a)
  <2>1. IsFiniteSet(0..a)  BY FS_Interval
  <2>. QED  BY <2>1, FS_Subset DEF FiniteSubsetsOf
<1>4. ASSUME NEW x \in T, x <= a PROVE D(x) \in W
  <2>1. T \subseteq Nat /\ x \in Nat /\ a \in Nat  OBVIOUS
  <2>2. \A k \in D(x) : k \in 0..a  BY <1>4, <2>1
  <2>3. D(x) \in SUBSET (0..a)
    <3>. HIDE DEF D
    <3>. QED  BY <2>2
  <2>. QED  BY <2>3
<1>5. W # {}
  <2>1. D(a) \in W  BY <1>4
  <2>. QED  BY <2>1
<1>6. PICK d \in W : \A y \in W : ~(<<y, d>> \in StrictSubsetOrdering(0..a))
  <2>. HIDE DEF W
  <2>. QED  BY <1>2, <1>3, <1>5, WFMin
<1>7. PICK x \in T : d = D(x)  OBVIOUS
<1>8. x <= a
  <2>1. x \in D(x)  OBVIOUS
  <2>. QED  BY <2>1, <1>7
<1>9. ASSUME NEW n \in T, n < x PROVE FALSE
  <2>1. \A k \in D(n) : k \in D(x)  BY <1>9
  <2>2. x \in D(x) /\ x \notin D(n)  BY <1>9
  <2>3. D(n) \in W  BY <1>4, <1>8, <1>9
  <2>4. <<D(n), d>> \in StrictSubsetOrdering(0..a)
    <3>. HIDE DEF D
    <3>1. D(n) \in SUBSET (0..a) /\ d \in SUBSET (0..a)  BY <2>3
    <3>2. D(n) \subseteq d /\ D(n) # d  BY <2>1, <2>2, <1>7
    <3>. QED  BY <3>1, <3>2 DEF StrictSubsetOrdering
  <2>. QED  BY <2>3, <2>4, <1>6
<1>. QED  BY <1>9

(* Induction up to L, for a set of naturals. *)
LEMMA UpTo ==
  ASSUME NEW L \in Nat, NEW T, 0 \in T, \A n \in 1..L : n - 1 \in T => n \in T
  PROVE  0..L \subseteq T
<1>. SUFFICES ASSUME (0..L) \ T # {} PROVE FALSE
  OBVIOUS
<1>1. PICK m \in (0..L) \ T : \A n \in (0..L) \ T : m <= n
  <2>. DEFINE U == (0..L) \ T
  <2>1. U \in SUBSET Nat /\ U # {}  OBVIOUS
  <2>. HIDE DEF U
  <2>2. \E m \in U : \A n \in U : m <= n  BY <2>1, LeastElement
  <2>. QED  BY <2>2 DEF U
<1>2. m \in 1..L /\ m - 1 \in 0..L
  BY <1>1
<1>3. m - 1 \in T
  BY <1>1, <1>2
<1>. QED  BY <1>1, <1>2, <1>3

(* A function defined by steps from line to line exists. *)
Follows(f, L, c, G) == f[0] = c /\ \A n \in 1..L : f[n] = G[n][f[n - 1]]

LEMMA StepsExist ==
  ASSUME NEW L \in Nat, NEW S, NEW c \in S, NEW G,
         \A n \in 1..L : \A s \in S : G[n][s] \in S
  PROVE  \E f \in [0..L -> S] : Follows(f, L, c, G)
<1>. USE DEF Follows
<1>. DEFINE T == {k \in 0..L : \E f \in [0..L -> S] : Follows(f, k, c, G)}
<1>1. 0 \in T
  <2>. DEFINE g == [n \in 0..L |-> c]
  <2>1. g \in [0..L -> S] /\ g[0] = c /\ 1..0 = {}
    OBVIOUS
  <2>. HIDE DEF g
  <2>2. Follows(g, 0, c, G)  BY <2>1
  <2>. QED  BY <2>1, <2>2
<1>2. ASSUME NEW k \in 1..L, k - 1 \in T PROVE k \in T
  <2>1. PICK f \in [0..L -> S] : Follows(f, k - 1, c, G)
    BY <1>2
  <2>. DEFINE g == [f EXCEPT ![k] = G[k][f[k - 1]]]
  <2>2. G[k][f[k - 1]] \in S
    <3>1. k - 1 \in 0..L  OBVIOUS
    <3>. QED  BY <3>1
  <2>3. g \in [0..L -> S] /\ g[k] = G[k][f[k - 1]]
        /\ \A n \in 0..(k - 1) : g[n] = f[n]
    BY <2>2
  <2>. HIDE DEF g
  <2>4. g[0] = c
    BY <2>1, <2>3
  <2>5. ASSUME NEW n \in 1..k PROVE g[n] = G[n][g[n - 1]]
    <3>1. n - 1 \in 0..(k - 1)  OBVIOUS
    <3>2. CASE n = k  BY <2>3, <3>1, <3>2
    <3>3. CASE n \in 1..(k - 1)  BY <2>1, <2>3, <3>1, <3>3
    <3>. QED  BY <3>2, <3>3
  <2>. QED  BY <2>3, <2>4, <2>5
<1>3. L \in T
  <2>. HIDE DEF T
  <2>1. 0..L \subseteq T  BY <1>1, <1>2, UpTo
  <2>. QED  BY <2>1
<1>. QED  BY <1>3
=============================================================================
