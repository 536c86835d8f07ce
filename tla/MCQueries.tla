----------------------------- MODULE MCQueries -----------------------------
(* Instances of Queries for TLC: buckets of 1, 2 and 4 seconds, two prices  *)
(* in two slots, and three mints, two of which share a slot.               *)
EXTENDS Queries

MCWidth == [i \in Intervals |-> CASE i = "s1" -> 1 [] i = "s30" -> 2 [] i = "m5" -> 4]
MCTrades == {<<1, 2>>, <<2, 1>>}
MCCreations == {<<2, 1>>, <<1, 3>>, <<1, 2>>}
=============================================================================
