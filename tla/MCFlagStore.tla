----------------------------- MODULE MCFlagStore -----------------------------
(* FlagStore on a small instance: some requests read, again and again, and  *)
(* the others write, once.                                                  *)
EXTENDS FlagStore, TLC

CONSTANTS Readers, Writes

MCScript == [r \in Requests |-> IF r \in Readers THEN {"get"}
                                ELSE Writes]

\* Every placement that differs from the others by more than the nodes' names
\* when there is one writer: it is served by the first node.
CONSTANT Home
MCAnywhere == [Requests -> Nodes]
MCHome == {p \in [Requests -> Nodes] : \A r \in Requests \ Readers : p[r] = Home}

\* Nodes do not differ, nor do requests with the same script.
MCSymmetry == Permutations(Nodes) \cup Permutations(Requests \ Readers)
=============================================================================
