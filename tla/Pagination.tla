----------------------------- MODULE Pagination -----------------------------
(***************************************************************************)
(* Cursor pages (GetPagedAsync of FeatureFlagsRepository, and the same of  *)
(* AuditLogsRepository) over a table whose rows come and go between the     *)
(* requests, and a client that walks through it in either direction with   *)
(* the cursors it is given.                                                *)
(*                                                                         *)
(* A cursor holds a row's creation time and id, so it still names a        *)
(* position when the row is gone: a cursor is represented by the row's id. *)
(* A page is the set of its items and whether they are listed in order.    *)
(***************************************************************************)
EXTENDS Integers, FiniteSets

CONSTANTS
  Ids,      \* the ids rows can have, in the order of the database's uuid type
  Created,  \* Created[i]: the time that row i is, or would be, stamped with
  Sizes,    \* the values of the query parameter first
  Blank,    \* a cursor that is absent
  Garbled   \* a cursor that does not decode

ASSUME PageAssumption ==
  /\ Ids \subseteq Int
  /\ IsFiniteSet(Ids)
  /\ Created \in [Ids -> Int]
  /\ Sizes \subseteq Int
  /\ Blank \notin Ids /\ Garbled \notin Ids /\ Blank # Garbled

VARIABLES
  rows,       \* the ids of the rows that are in the table
  used,       \* history: the ids that have been
  page,       \* the last response
  dir,        \* the parameter the client walks with: "after" or "before"
  delivered,  \* the items of the walk so far
  kept        \* history: what the table had at the start of the walk in its
              \* direction, and still has

tableVars == <<rows, used>>
walkVars  == <<page, dir, delivered, kept>>
vars == <<tableVars, walkVars>>

-----------------------------------------------------------------------------
(* GetPagedAsync.                                                          *)

\* The rows' order: ORDER BY CreatedAt, Id.
Before(i, j) == \/ Created[i] < Created[j]
                \/ Created[i] = Created[j] /\ i < j

\* i comes before j in a query's order, which is ascending or descending.
Precedes(up, i, j) == IF up THEN Before(i, j) ELSE Before(j, i)

\* Mutant of Beyond: the tie on CreatedAt is not broken by the id.
BeyondWithoutTies(S, up, c) ==
  {i \in S : IF up THEN Created[c] < Created[i] ELSE Created[i] < Created[c]}

\* WHERE: the rows of S on the far side of cursor c.
Beyond(S, up, c) == {i \in S : Precedes(up, c, i)}

\* LIMIT n: the first n rows of S.
Take(S, up, n) == {i \in S : Cardinality({j \in S : Precedes(up, j, i)}) < n}

\* The first of the rows S.
Head(S, up) == CHOOSE i \in S : \A j \in S \ {i} : Precedes(up, i, j)

\* Math.Clamp(first, 1, 100).
Clamp(first) == IF first < 1 THEN 1 ELSE IF first > 100 THEN 100 ELSE first

\* Mutant of Response: an empty page has cursors, that name no row.
ResponseUnchecked(items, ascending, hasNext, hasPrevious) ==
  [items       |-> items,
   startCursor |-> IF items = {} THEN Garbled ELSE Head(items, ascending),
   endCursor   |-> IF items = {} THEN Garbled ELSE Head(items, ~ascending),
   hasNext     |-> hasNext,
   hasPrevious |-> hasPrevious]

\* A response with the rows in items, listed in order or in reverse.
Response(items, ascending, hasNext, hasPrevious) ==
  [items       |-> items,
   startCursor |-> IF items = {} THEN Blank ELSE Head(items, ascending),
   endCursor   |-> IF items = {} THEN Blank ELSE Head(items, ~ascending),
   hasNext     |-> hasNext,
   hasPrevious |-> hasPrevious]

\* Mutant of Ascends: ORDER BY is left as it is for a page before a cursor.
AscendsAlways(after, before) == TRUE

\* A query descends from the cursor `before', unless `after' is usable too.
Ascends(after, before) == after \in Ids \/ before \notin Ids

\* The rows that match.
Matching(after, before) ==
  IF after \in Ids THEN Beyond(rows, TRUE, after)
  ELSE IF before \in Ids THEN Beyond(rows, FALSE, before)
  ELSE rows

\* Mutant of Listed: a page before a cursor is not reversed.
ListedAsRead(after, before) == Ascends(after, before)

\* Whether the items are in order in the end: they are reversed whenever a
\* `before' was sent, usable or not.
Listed(after, before) == Ascends(after, before) <=> before = Blank

\* One row more is read than is returned, to see whether there are more.
GetPaged(first, after, before) ==
  LET up   == Ascends(after, before)
      read == Take(Matching(after, before), up, Clamp(first) + 1)
      more == Cardinality(read) > Clamp(first)
  IN Response(IF more THEN Take(read, up, Clamp(first)) ELSE read,
              Listed(after, before), before = Blank /\ more,
              after # Blank \/ (before # Blank /\ more))

-----------------------------------------------------------------------------
(* The table, and the client.                                              *)

Init ==
  /\ rows \in SUBSET Ids /\ used = rows
  /\ page = Response({}, TRUE, FALSE, FALSE)
  /\ dir = "after" /\ delivered = {} /\ kept = {}

\* A row is inserted, under a new id.  Its CreatedAt was stamped before, on
\* whatever node made it: it need not be the latest.
Insert(i) ==
  /\ i \notin used
  /\ rows' = rows \cup {i} /\ used' = used \cup {i}
  /\ UNCHANGED walkVars

Delete(i) ==
  /\ i \in rows
  /\ rows' = rows \ {i} /\ kept' = kept \ {i}
  /\ UNCHANGED <<used, page, dir, delivered>>

\* A walk starts at the beginning, without a cursor or with one that does not
\* decode.
Start(first) ==
  /\ \E after \in {Blank, Garbled} : page' = GetPaged(first, after, Blank)
  /\ dir' = "after" /\ delivered' = page'.items /\ kept' = rows
  /\ UNCHANGED tableVars

\* The end of a page that a client goes on from in direction d.
End(p, d) == IF d = "after" THEN p.endCursor ELSE p.startCursor
Edge(d)   == End(page, d)

\* The page in direction d from a cursor.
Ask(d, first, c) == IF d = "after" THEN GetPaged(first, c, Blank) ELSE GetPaged(first, Blank, c)

\* The client sends the end of its page as the parameter d: it goes on, or
\* turns round, which starts a walk from there.
Walk(d, first) ==
  /\ Edge(d) # Blank
  /\ page' = Ask(d, first, Edge(d))
  /\ dir' = d
  /\ IF d = dir
     THEN delivered' = delivered \cup page'.items /\ UNCHANGED kept
     ELSE /\ delivered' = page'.items
          /\ kept' = {i \in rows : Precedes(d = "after", Edge(d), i)}
  /\ UNCHANGED tableVars

Next == \/ \E i \in Ids : Insert(i) \/ Delete(i)
        \/ \E first \in Sizes : Start(first) \/ Walk("after", first) \/ Walk("before", first)

Spec == Init /\ [][Next]_vars

-----------------------------------------------------------------------------
(* Properties.                                                             *)

\* Every variable has its type; a page has both cursors, of items of its own, or
\* is empty and has none.
TypeOK ==
  /\ rows \subseteq used /\ used \subseteq Ids
  /\ page \in [items : SUBSET Ids, startCursor : Ids \cup {Blank},
               endCursor : Ids \cup {Blank}, hasNext : BOOLEAN, hasPrevious : BOOLEAN]
  /\ {page.startCursor, page.endCursor} \subseteq (IF page.items = {} THEN {Blank} ELSE page.items)
  /\ dir \in {"after", "before"}
  /\ delivered \subseteq Ids
  /\ kept \subseteq rows

\* A page says that there are more rows in direction d.
HasMore(p, d) == IF d = "after" THEN p.hasNext ELSE p.hasPrevious

\* The client has come to the end: its last page says that there are no more.
Over == ~HasMore(page, dir)

\* A walk that the client follows to its end, in either direction, has delivered
\* every row that was there from its start to its end, whatever was inserted and
\* deleted meanwhile, the rows of the cursors included, and however many rows
\* share a creation time.
WalkComplete == Over => kept \subseteq delivered

\* A walk goes one way: each page lies beyond everything delivered before, so
\* that no row is delivered twice.
WalkInOrder ==
  [][(\E first \in Sizes : Walk(dir, first)) =>
       \A i \in delivered, j \in page'.items : Precedes(dir = "after", i, j)]_vars

\* Turning round leads back: from any page that has more behind it in its direction, one step
\* on and one step back give that very page again, with its cursors, while the rows stay.
TurningRoundLeadsBack ==
  \A d \in {"after", "before"}, first \in Sizes, c \in Ids \cup {Blank} :
    LET back == IF d = "after" THEN "before" ELSE "after"
        here == Ask(d, first, c)
        on   == Ask(d, first, End(here, d))
        same == Ask(back, first, End(on, back))
    IN  (d = "before" => c # Blank) /\ HasMore(here, d) =>
          /\ on.items # {} /\ on.items \cap here.items = {}
          /\ same.items = here.items
          /\ same.startCursor = here.startCursor /\ same.endCursor = here.endCursor
=============================================================================
