---------------------------- MODULE RunLifecycle ----------------------------
(***************************************************************************)
(* The life of one run: the reducers of RunReducers applied in any order   *)
(* any caller could, one transition at a time.  It is the abstract         *)
(* specification that the control plane implements run by run              *)
(* (RunnerControlPlane).                                                   *)
(*                                                                         *)
(* Timestamps are arguments the callers read from their own clocks before  *)
(* they hold the row lock, so nothing orders them by commit: any member of *)
(* Times may arrive at any step.                                           *)
(***************************************************************************)
EXTENDS RunReducers

CONSTANTS
    Times,        \* clock readings, positive
    MaxEpoch,     \* bound on desktop-session epochs
    MaxRevision   \* bound on accepted transitions

ASSUME TimesAssumption == Times \subseteq Nat \ {0}
ASSUME BoundsAssumption == MaxEpoch \in Nat /\ MaxRevision \in Nat

VARIABLE run      \* the run row (RunState)

-----------------------------------------------------------------------------
(* The specification: any admitted reducer, one at a time under the row    *)
(* lock of apply_transition.                                               *)

LifecycleInit == run = NewRun

\* Name of the bound: the model stops a run at MaxRevision transitions.
Room == run.revision < MaxRevision

Progress == Room /\ MayProgress(run) /\ run' = Progressed(run)

AdmitToDesktop ==
    \E e \in 1..MaxEpoch :
        Room /\ MayAdmitToDesktop(run, e) /\ run' = AdmittedToDesktop(run, e)

AdmitAction == Room /\ MayAdmitAction(run) /\ run' = ActionAdmitted(run)

ResolveAction == Room /\ MayResolveAction(run) /\ run' = ActionResolved(run)

RequestCancellation ==
    \E t \in Times :
        Room /\ MayRequestCancellation(run) /\ run' = CancellationRequestedAt(run, t)

AcknowledgeStop ==
    \E t \in Times, e \in 0..MaxEpoch :
        Room /\ MayAcknowledgeStop(run, e) /\ run' = StopAcknowledged(run, t, e)

\* The one composite transition in the code: finish_session acknowledges the
\* stop and leaves RUNNING in a single apply_transition, two revisions at once.
FinishExecution ==
    \E t \in Times, e \in 0..MaxEpoch :
        /\ Room
        /\ run.status = "RUNNING"
        /\ MayAcknowledgeStop(run, e)
        /\ MayProgress(StopAcknowledged(run, t, e))
        /\ run' = Progressed(StopAcknowledged(run, t, e))

Cancel == Room /\ MayCancel(run) /\ run' = Cancelled(run)

Interrupt == Room /\ MayInterrupt(run) /\ run' = Interrupted(run)

Complete ==
    \E o \in Outcome : Room /\ MayComplete(run, o) /\ run' = Completed(run, o)

LifecycleNext ==
    \/ Progress \/ AdmitToDesktop \/ AdmitAction \/ ResolveAction
    \/ RequestCancellation \/ AcknowledgeStop \/ FinishExecution \/ Cancel \/ Interrupt \/ Complete

LifecycleSpec == LifecycleInit /\ [][LifecycleNext]_run

-----------------------------------------------------------------------------
(* Properties                                                              *)

\* Every field of the row has its declared type.
LifecycleTypeOK == run \in RunState

\* A row never pairs a status with an outcome that status cannot have; this is
\* the CHECK constraint of migration 0003, which would otherwise abort the
\* transaction that tries to end the run.
AdmissiblePair == run.outcome \in AdmissibleOutcomes(run.status, run.began)

\* Whatever order the reducers are called in, what they return can be stored: a row of
\* the declared type that the CHECK does not refuse.
RowIsAdmissible == LifecycleTypeOK /\ AdmissiblePair

\* CANCELLED says that nothing is still acting: either no desktop was ever
\* admitted, or the desktop of the row's own epoch acknowledged a stop that is
\* not older than the request.
CancelledMeansStopped ==
    run.status = "CANCELLED" =>
        /\ CancellationRequested(run)
        /\ ~run.unresolved
        /\ \/ ~run.began /\ run.epoch = 0
           \/ run.stopEpoch = run.epoch /\ run.stopAt >= run.cancelAt

\* Execution is recorded before anything can depend on it: a run that reached
\* RUNNING, that has an action in the air or that holds a verdict has began set
\* (it selects the outcome of a later cancellation), and an action without a
\* result leaves INTERRUPTED as the only ending.
AmbiguityAndVerdict ==
    /\ run.status \in {"RUNNING", "FINALIZING", "COMPLETED"} \/ run.unresolved => run.began
    /\ run.unresolved => run.status \notin {"COMPLETED", "CANCELLED"}

Rank(status) ==
    CASE status = "QUEUED" -> 0 [] status = "LEASED" -> 1 [] status = "RUNNING" -> 2
      [] status = "FINALIZING" -> 3 [] OTHER -> 4

\* A terminal row is immutable (INV-11), the lifecycle never goes backwards, the
\* epoch never decreases, and every change takes a later revision: a caller
\* whose expected revision still matches decided on the row it changes.
ForwardOnly ==
    [][/\ NonTerminal(run)
       /\ Rank(run'.status) >= Rank(run.status)
       /\ run'.epoch >= run.epoch
       /\ run'.revision > run.revision]_run

\* Once cancellation is requested nothing more is admitted (no desktop, no
\* execution, no action) and the request is never rewritten: what remains is to
\* stop, or to finish what had already finished executing.
CancellationFences ==
    [][CancellationRequested(run) =>
          /\ run'.cancelAt = run.cancelAt /\ run'.cancelRevision = run.cancelRevision
          /\ run'.epoch = run.epoch /\ run'.began = run.began
          /\ run'.unresolved => run.unresolved
          /\ run'.status \in {run.status} \cup Terminal
          /\ run'.status = "COMPLETED" => run.status = "FINALIZING"]_run

=============================================================================
