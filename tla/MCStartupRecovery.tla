------------------------- MODULE MCStartupRecovery -------------------------
(* Instances of StartupRecovery for TLC. *)
EXTENDS StartupRecovery, TLC

CONSTANTS l1, l2, s1, h1, d1, d2, d3, e1, o1

OneLease == {l1}
TwoLeases == {l1, l2}
OneScope == {s1}
OneHolder == {h1}
OneDaemon == {d1}
ThreeDaemons == {d1, d2, d3}
OneEvidence == {e1}
OneOp == {o1}
TwoItems == {1, 2}
TwoPriorities == {1, 2}
AllOutcomes == Outcomes
None == {}

\* Lease and instance IDs are compared for equality only.
Symmetry == Permutations(TwoLeases) \cup Permutations(ThreeDaemons)
=============================================================================
