---------------------------- MODULE MCEventStore ----------------------------
(* Instances of EventStore for TLC: one mint, one or two wallets, an order  *)
(* account of the chain opened on one side or on both, and in one run an   *)
(* account named by test calls.                                            *)
EXTENDS EventStore

CONSTANTS m1, u1, u2, p1, p2, p3

MCOwnerOf == [p \in Pdas |-> IF p = p2 THEN u2 ELSE u1]
MCMintOf == [p \in Pdas |-> m1]
OneTestCall == {<<u1, p3>>}
OneSide == [p \in Pdas |-> CASE p = p1 -> {1} [] p = p2 -> {2} [] OTHER -> {}]
BothSides == [p \in Pdas |-> {1, 2}]
=============================================================================
