------------------------------- MODULE Ledger -------------------------------
(***************************************************************************)
(* What the event store promises of the tables written by the batch: a     *)
(* ledger that takes one event at a time and either records all of it in   *)
(* one step or drops it.                                                   *)
(*                                                                         *)
(* The ledger holds the event log, the listed mints, the history of each   *)
(* user, and a book with at most one order for each order account.  It     *)
(* knows nothing of sides, of the two indexes over the orders, of a batch  *)
(* filled before it is written, or of reads made while it is filled.       *)
(***************************************************************************)
EXTENDS Naturals

CONSTANTS Mints, Users, Pdas, TestCalls

VARIABLES
  request,   \* the event being stored
  log,       \* the events recorded, by mint, slot, kind and transaction
  listed,    \* the mints listed, with the slot of their creation
  book,      \* the open orders
  history    \* what concerned each user

vars == <<request, log, listed, book, history>>

None == [kind |-> "none"]
Kinds == {"tc", "bs", "ls", "fl", "fc", "pc", "md"}
Opening == {"ls", "pc"}        \* leave an order on the book
Closing == {"fl", "fc"}        \* take the order of an account off the book
Personal == Opening \cup Closing \cup {"md"}

Entry(e) == [mint |-> e.mint, slot |-> e.slot, kind |-> e.kind, sig |-> e.sig, user |-> e.user]
Holding(e) == [user |-> e.user, pda |-> e.pda, otype |-> e.otype, cut |-> e.cut]

Without(p) == {q \in book : q.pda # p}

(* The book after event e *)
Booked(e) ==
  (IF e.kind \in Opening \cup Closing THEN Without(e.pda) ELSE book)
    \cup (IF e.kind \in Opening THEN {Holding(e)} ELSE {})

(* One entry for a mint, slot, kind and transaction: the last one stays. *)
Logged(e) ==
  {n \in log : ~(n.mint = e.mint /\ n.slot = e.slot /\ n.kind = e.kind /\ n.sig = e.sig)}
    \cup {Entry(e)}

(* A user has one note for a mint and a slot: the last one stays. *)
Noted(e) ==
  IF e.kind \notin Personal THEN history
  ELSE {n \in history : ~(n.user = e.user /\ n.mint = e.mint /\ n.slot = e.slot)} \cup {Entry(e)}

-----------------------------------------------------------------------------
Init ==
  /\ request = None
  /\ log = {} /\ listed = {} /\ book = {} /\ history = {}

Submit ==
  /\ request = None
  /\ request'.kind \in Kinds /\ request'.mint \in Mints /\ request'.user \in Users
  /\ UNCHANGED <<log, listed, book, history>>

(* A creation is listed, unless something else was recorded of the mint.   *)
Record ==
  /\ request.kind \in Kinds
  /\ log' = Logged(request)
  /\ \/ listed' = listed
     \/ request.kind = "tc" /\ listed' = listed \cup {<<request.slot, request.mint>>}
  /\ book' = Booked(request)
  /\ history' = Noted(request)
  /\ request' = None

(* An error or a crash: nothing of the event is recorded. *)
Drop == request' = None /\ UNCHANGED <<log, listed, book, history>>

(* A test call places an order of its own at any time. *)
Place(c) ==
  /\ book' = Without(c[2]) \cup {[user |-> c[1], pda |-> c[2], otype |-> 2, cut |-> 0]}
  /\ UNCHANGED <<request, log, listed, history>>

Next == Submit \/ Record \/ Drop \/ \E c \in TestCalls : Place(c)

Spec == Init /\ [][Next]_vars
=============================================================================
