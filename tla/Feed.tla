-------------------------------- MODULE Feed --------------------------------
(***************************************************************************)
(* What the listener promises to the event handler, told by the chain and  *)
(* not by the connection: transactions are published in the order of the   *)
(* chain, each at most once and as one of the sequences of events it may   *)
(* be published as; the events wait in a bounded backlog, which drops its  *)
(* oldest only when more than it holds are waiting; and the handler gets   *)
(* the next event only after it heard of those dropped.                    *)
(***************************************************************************)
EXTENDS Naturals, Sequences

CONSTANTS
  Transactions,  (* those the listener reports, by their place in the chain *)
  Yields,        (* of each, the sequences of events it may be published as *)
  Capacity       (* the events that wait without loss                      *)

VARIABLES
  published,   \* the transactions published
  backlog,     \* their events that are neither delivered nor dropped
  dropped,     \* the events dropped,
  unreported,  \* and how many of them the handler has not heard of
  delivered    \* the events delivered, in order

vars == <<published, backlog, dropped, unreported, delivered>>

Init ==
  /\ published = {} /\ backlog = <<>>
  /\ dropped = {} /\ unreported = 0 /\ delivered = <<>>

Publish(t) ==
  /\ \A u \in published : u < t
  /\ published' = published \cup {t}
  /\ \E events \in Yields[t] : backlog' = backlog \o events
  /\ UNCHANGED <<dropped, unreported, delivered>>

Drop ==
  /\ Len(backlog) > Capacity
  /\ backlog' = Tail(backlog)
  /\ dropped' = dropped \cup {Head(backlog)}
  /\ unreported' = unreported + 1
  /\ UNCHANGED <<published, delivered>>

Report ==
  /\ unreported > 0 /\ unreported' = 0
  /\ UNCHANGED <<published, backlog, dropped, delivered>>

Deliver ==
  /\ unreported = 0 /\ backlog # <<>>
  /\ delivered' = Append(delivered, Head(backlog))
  /\ backlog' = Tail(backlog)
  /\ UNCHANGED <<published, dropped, unreported>>

Next ==
  \/ \E t \in Transactions : Publish(t)
  \/ Drop \/ Report \/ Deliver

Spec == Init /\ [][Next]_vars
=============================================================================
