---------------------------- MODULE MCExecution -----------------------------
(* Where outside programs act: the build of an approved patch, the baseline  *)
(* build with its trial and reader, and the navigator, bridge and runner of  *)
(* a native execution; the row locks of the transactions around a run; and   *)
(* the restore of a backup while what it replaces still runs.  A behaviour   *)
(* follows one of them.                                                      *)
EXTENDS CandidateBuild, BaselineRun, NativeExecution, RowLocks, RestoreReconcile

CONSTANT d1

VARIABLE followed   \* the component this behaviour is about

vars == <<followed, buildVars, baselineVars, nativeVars, locksVars, restoreVars>>

Init ==
  /\ followed \in {"build", "baseline", "native", "locks", "restore"}
  /\ BuildInit /\ BaselineInit /\ NativeInit /\ LocksInit /\ RestoreInit
  /\ (followed # "restore" => subject = "desktop")

Next ==
  \/ /\ followed = "build" /\ BuildNext
     /\ UNCHANGED <<followed, baselineVars, nativeVars, locksVars, restoreVars>>
  \/ /\ followed = "baseline" /\ BaselineNext
     /\ UNCHANGED <<followed, buildVars, nativeVars, locksVars, restoreVars>>
  \/ /\ followed = "native" /\ NativeNext
     /\ UNCHANGED <<followed, buildVars, baselineVars, locksVars, restoreVars>>
  \/ /\ followed = "locks" /\ LocksNext
     /\ UNCHANGED <<followed, buildVars, baselineVars, nativeVars, restoreVars>>
  \/ /\ followed = "restore" /\ RestoreNext
     /\ UNCHANGED <<followed, buildVars, baselineVars, nativeVars, locksVars>>

Spec == Init /\ [][Next]_vars

\* The runs were leased one desktop.
OneDesktop == [r \in Run |-> d1]
=============================================================================
