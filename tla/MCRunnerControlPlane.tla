------------------------- MODULE MCRunnerControlPlane -------------------------
(* Instances of the control plane: which rows exist, on which desktops.     *)
EXTENDS RunnerControlPlane, TLC

CONSTANTS r1, r2, w1, w2

OneRun == {r1}
TwoRuns == {r1, r2}
OneRow == {w1}
TwoRows == {w1, w2}
NoRows == {}
FirstRow == {w1}
\* Every row stands for the same physical session.
OneDesk == [w \in Runner |-> "desk"]

RunSymmetry == Permutations(Run)

NoTimes == {}
OneTime == {1}
TwoTimes == 1..2

\* The services as deployed: no lease operation is called from outside them.
ServiceNext == ~LibraryCalls /\ Next
ServiceSpec == Init /\ [][ServiceNext]_vars

=============================================================================
