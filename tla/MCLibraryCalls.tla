--------------------------- MODULE MCLibraryCalls ---------------------------
(* The control plane with the lease operations no service calls yet          *)
(* (heartbeats, lease cancellation and stop, the expiry sweep, ambiguous     *)
(* termination), in three scenarios: one run in depth, two runs on one       *)
(* desktop, and two registrations of one desktop.                            *)
EXTENDS MCRunnerControlPlane

VARIABLE scenario

allVars == <<scenario, vars>>

\* Runs this behaviour has done anything for.
Touched ==
  {r \in Run : runs[r] # NewRun \/ \E w \in Runner : preflight[w].run = r}
EpochsAtMost(n) == \A w \in Runner : runner[w].epoch <= n
ActionsAtMost(n) == \A r \in Run : Count(r) <= n
OneActs == Cardinality({r \in Run : Count(r) > 0}) <= 1
NoClockReadings == \A r \in Run : runs[r].cancelAt = NoTime /\ runs[r].stopAt = NoTime
NothingRunsOut == \A r \in Run : ~lease[r].due /\ ~lease[r].cancel /\ authority[r]
OneRegistration == runner[w2].status = "ABSENT"

\* What a scenario explores, of everything the control plane can do.
Explored ==
  CASE \* one run, whose desktop may be retired
       scenario = "deep" -> OneRegistration /\ Cardinality(Touched) <= 1 /\ EpochsAtMost(1)
       \* two runs that follow each other on one desktop
    [] scenario = "pair" -> OneRegistration /\ NoClockReadings /\ ActionsAtMost(1)
                              /\ revoking = {}
       \* two runs and two rows for one desktop, of which the first may be retired;
       \* one of the runs acts, and only where no deadline or authority has run out
    [] scenario = "twin" -> NoClockReadings /\ EpochsAtMost(1) /\ ActionsAtMost(1)
                              /\ OneActs /\ (NothingRunsOut \/ ActionsAtMost(0))

ScenarioInit == Init /\ scenario \in {"deep", "pair", "twin"}
ScenarioNext == Next /\ UNCHANGED scenario /\ Explored'
ScenarioSpec == ScenarioInit /\ [][ScenarioNext]_allVars

TwoRunSymmetry == Permutations(TwoRuns)
=============================================================================
