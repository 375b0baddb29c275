------------------------------ MODULE FlagTable ------------------------------
(***************************************************************************)
(* What the service promises about the rows of one flag key, with caches,  *)
(* nodes, handlers and failures hidden: a key names at most one flag at a   *)
(* time, a flag keeps its id for as long as it exists, and an id that was   *)
(* deleted never names a flag again.  Writes to a flag's content are       *)
(* stuttering steps here.                                                  *)
(***************************************************************************)
CONSTANTS
  Ids,      \* the ids a flag of this key can have
  Null      \* no flag

VARIABLES
  live,     \* the id of the flag the key names, or Null
  dead      \* the ids of the deleted flags

tableVars == <<live, dead>>

Init == /\ live \in Ids \cup {Null}
        /\ dead = {}

\* A flag is inserted: only when the key is free, and under an id never used.
Insert(i) == /\ live = Null
             /\ i \notin dead
             /\ live' = i
             /\ UNCHANGED dead

\* The live flag is deleted.
Delete == /\ live # Null
          /\ dead' = dead \cup {live}
          /\ live' = Null

Next == Delete \/ \E i \in Ids : Insert(i)

Spec == Init /\ [][Next]_tableVars
=============================================================================
