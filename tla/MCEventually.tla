---------------------------- MODULE MCEventually ----------------------------
(* What must happen in the end, under the fairness of the loops that do it:  *)
(* the recovery worker over lost handoffs, and the purge worker over deleted *)
(* evidence.  They share no row, so a behaviour follows one of the two.      *)
EXTENDS MCRunnerControlPlane, EvidenceRetention

VARIABLE followed   \* the component this behaviour is about

bothVars == <<followed, vars, retentionVars>>

BothInit ==
  /\ followed \in {"recovery", "retention"}
  /\ Init /\ RetentionInit

BothNext ==
  \/ followed = "recovery" /\ ServiceNext /\ UNCHANGED <<followed, retentionVars>>
  \/ followed = "retention" /\ RetentionNext /\ UNCHANGED <<followed, vars>>

\* The loops of the component that is not followed have nothing to do.
BothSpec == BothInit /\ [][BothNext]_bothVars /\ Fairness /\ RetentionFairness

\* The class of a kind of evidence is its own.
OwnClass == [k \in Kinds |-> k]
=============================================================================
