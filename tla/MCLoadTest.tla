----------------------------- MODULE MCLoadTest -----------------------------
(* Small instances of LoadTest.                                            *)
EXTENDS LoadTest, TLC

Environment(s, p, f, g) ==
  [script |-> s, projects |-> p, apiKeys |-> 2, flags |-> f, given |-> g]

\* Either script with one project of two flags, or with a key that is given.
OneProject  == {Environment(s, 1, 2, FALSE) : s \in {"steady", "keyStress"}}
Given       == {Environment(s, 1, 2, TRUE) : s \in {"steady", "keyStress"}}
\* Two projects of one flag.
TwoProjects == {Environment(s, 2, 1, FALSE) : s \in {"steady", "keyStress"}}

\* Testers that meet at projects of the same names.
MCEnvs == [Testers -> OneProject \cup Given] \cup [Testers -> TwoProjects]

\* Testers do the same things; virtual users differ by their numbers.
MCSymmetry == Permutations(Testers)
=============================================================================
