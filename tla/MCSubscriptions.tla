--------------------------- MODULE MCSubscriptions ---------------------------
(* Instances of Subscriptions for TLC: two sockets, two keys. *)
EXTENDS Subscriptions

CONSTANTS s1, s2, k1, k2
=============================================================================
