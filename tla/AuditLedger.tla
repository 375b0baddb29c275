----------------------------- MODULE AuditLedger -----------------------------
(***************************************************************************)
(* What the audit trail promises, with requests, channels, consumers and   *)
(* failures hidden: rows are only added at the end, each for a change of    *)
(* somebody that was committed by then, that has no row yet and that none  *)
(* of the rows was sent after.  That every change gets a row is no promise. *)
(***************************************************************************)
EXTENDS Sequences

CONSTANTS
  Changes,    \* the requests that change a flag
  Named       \* those made by somebody

VARIABLES
  committed,  \* the changes whose statement was committed
  before,     \* per change: those that its client knew of when it was sent
  rows,       \* the rows in the order of their insertion
  struck      \* the changes whose row was deleted again

ledgerVars == <<committed, before, rows, struck>>

Recorded == {rows[i] : i \in DOMAIN rows}

Init == /\ committed = {} /\ struck = {} /\ rows = << >>
        /\ before = [c \in Changes |-> {}]

\* A change is sent by a client that was told of some committed changes.
Send(c) == /\ c \notin committed
           /\ \E known \in SUBSET committed : before' = [before EXCEPT ![c] = known]
           /\ UNCHANGED <<committed, rows, struck>>

\* The row of a change may be the next one.
MayFollow(c) == /\ c \in (committed \cap Named) \ Recorded
                /\ \A d \in Recorded : c \notin before[d]

\* Changes are committed, and at most one row is inserted.
Write == /\ \E new \in SUBSET Changes : committed' = committed \cup new
         /\ \/ UNCHANGED rows
            \/ \E c \in Changes : MayFollow(c) /\ rows' = Append(rows, c)
         /\ UNCHANGED <<before, struck>>

\* The row of a change is deleted.
Strike(c) == /\ c \in Recorded \ struck
             /\ struck' = struck \cup {c}
             /\ UNCHANGED <<committed, before, rows>>

Next == Write \/ \E c \in Changes : Send(c) \/ Strike(c)

Spec == Init /\ [][Next]_ledgerVars
=============================================================================
