------------------------------ MODULE Listings ------------------------------
(***************************************************************************)
(* How the store cuts a table into pages (the query_* functions of         *)
(* src/services/event_storage.rs).  A row is a tuple whose first component *)
(* is what the listing is sorted by, and whose rest is the order of the    *)
(* keys among rows that agree on it.                                       *)
(***************************************************************************)
EXTENDS Integers, FiniteSets, Sequences, SequencesExt

KeyBefore(a, b) == a[1] < b[1] \/ (a[1] = b[1] /\ a[2] < b[2])

(* The rows of S in an order, which is a set of pairs of rows: the row with *)
(* i - 1 rows before it comes i-th.                                        *)
Preceding(S, r, order) == {q \in S : <<q, r>> \in order}
InOrder(S, order) ==
  [i \in 1..Cardinality(S) |->
     CHOOSE r \in S : Cardinality(Preceding(S, r, order)) = i - 1]

(* The rows are read in the order of their keys and sorted by a stable     *)
(* sort: rows that agree stay in that order, newest first too.             *)
ByValue(S, desc) ==
  {p \in S \X S : /\ p[1] # p[2]
                 /\ \/ IF desc THEN p[2][1] < p[1][1] ELSE p[1][1] < p[2][1]
                    \/ p[1][1] = p[2][1] /\ p[1][2] < p[2][2]}
Sorted(S, desc) == InOrder(S, ByValue(S, desc))

(* query_events, query_orders, query_user_transactions, query_user_orders, *)
(* query_kline_data: page and limit.                                       *)
PageOf(S, desc, page, limit) ==
  LET all == Sorted(S, desc)
      offset == (page - 1) * limit
      last == IF offset + limit < Len(all) THEN offset + limit ELSE Len(all)
  IN [items |-> SubSeq(all, offset + 1, last), has_next |-> offset + limit < Len(all)]

(* The first page, newest first *)
FirstRows(S, limit) == ToSet(PageOf(S, TRUE, 1, limit).items)

(* query_mints: iterate from the cursor and skip the first record, which is *)
(* the last of the page before.  The count is compared after each record,  *)
(* so a limit of 0 asks for one.                                           *)
NoCursor == <<>>
ByKey(S, desc) ==
  {p \in S \X S : IF desc THEN KeyBefore(p[2], p[1]) ELSE KeyBefore(p[1], p[2])}
FromCursor(S, desc, cursor) ==
  LET rest == {k \in S : cursor = NoCursor \/ k = cursor
                         \/ (IF desc THEN KeyBefore(k, cursor) ELSE KeyBefore(cursor, k))}
  IN InOrder(rest, ByKey(rest, desc))
(* Faulty variants (named ..Faulty..) are not part of the specification: each *)
(* is a slip a property must notice.                                       *)
MintsFromFaultySkip(S, desc, cursor, limit) ==   \* the first page skips as well
  LET all == FromCursor(S, desc, cursor)
      size == IF limit = 0 THEN 1 ELSE limit
      full == Len(all) >= 1 + size
      last == IF full THEN 1 + size ELSE Len(all)
  IN [items |-> SubSeq(all, 2, last), has_next |-> full,
      next_cursor |-> IF full THEN all[last] ELSE NoCursor]
MintsFromFaultyRepeat(S, desc, cursor, limit) ==   \* no page skips
  LET all == FromCursor(S, desc, cursor)
      size == IF limit = 0 THEN 1 ELSE limit
      full == Len(all) >= size
      last == IF full THEN size ELSE Len(all)
  IN [items |-> SubSeq(all, 1, last), has_next |-> full,
      next_cursor |-> IF full THEN all[last] ELSE NoCursor]
MintsFrom(S, desc, cursor, limit) ==
  LET all == FromCursor(S, desc, cursor)
      skip == IF cursor = NoCursor THEN 0 ELSE 1
      size == IF limit = 0 THEN 1 ELSE limit
      full == Len(all) >= skip + size
      last == IF full THEN skip + size ELSE Len(all)
  IN [items |-> SubSeq(all, skip + 1, last),
      has_next |-> full,
      next_cursor |-> IF full THEN all[last] ELSE NoCursor]
=============================================================================
