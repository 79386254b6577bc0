----------------------------- MODULE RunReducers -----------------------------
(***************************************************************************)
(* The run row and the pure reducers of accessforge_domain over it.  Every *)
(* reducer is a guard, May..., that stands for its refusals, and an        *)
(* operator from a row to a row.  Modules that keep run rows EXTEND this   *)
(* one: RunLifecycle keeps a single row, RunnerControlPlane one per run.   *)
(***************************************************************************)
EXTENDS Integers

NoTime  == 0      \* a NULL timestamp
NoEpoch == -1     \* a NULL epoch or revision

RunStatus   == {"QUEUED", "LEASED", "RUNNING", "FINALIZING",
                "COMPLETED", "INTERRUPTED", "CANCELLED"}
Terminal    == {"COMPLETED", "INTERRUPTED", "CANCELLED"}
Outcome     == {"NOT_EVALUATED", "PASS", "FAIL", "INCONCLUSIVE"}
Evaluated   == {"PASS", "FAIL", "INCONCLUSIVE"}

RunState ==
    [status : RunStatus, outcome : Outcome, revision : Nat, epoch : Nat,
     began : BOOLEAN, unresolved : BOOLEAN,
     cancelAt : Nat, cancelRevision : Int,
     stopAt : Nat, stopEpoch : Int, quarantined : BOOLEAN]

NewRun ==
    [status |-> "QUEUED", outcome |-> "NOT_EVALUATED", revision |-> 0, epoch |-> 0,
     began |-> FALSE, unresolved |-> FALSE,
     cancelAt |-> NoTime, cancelRevision |-> NoEpoch,
     stopAt |-> NoTime, stopEpoch |-> NoEpoch, quarantined |-> FALSE]

NormalProgression(s) ==
    CASE s = "QUEUED" -> "LEASED"
      [] s = "LEASED" -> "RUNNING"
      [] s = "RUNNING" -> "FINALIZING"
      [] OTHER -> "COMPLETED"

AdmissibleOutcomes(status, began) ==
    CASE status = "COMPLETED"   -> Evaluated
      [] status = "INTERRUPTED" -> {"INCONCLUSIVE"}
      [] status = "CANCELLED"   -> IF began THEN {"INCONCLUSIVE"} ELSE {"NOT_EVALUATED"}
      [] OTHER                  -> {"NOT_EVALUATED"}

-----------------------------------------------------------------------------
(* Derived properties of a row.                                            *)

\* Mutant: forgets that an acknowledgement belongs to one desktop session.
AnyEpochStopped(s) == s.stopAt # NoTime

CancellationRequested(s) == s.cancelAt # NoTime
PhysicallyStopped(s) == s.stopAt # NoTime /\ s.stopEpoch = s.epoch
StoppedInResponse(s) ==
    PhysicallyStopped(s) /\ CancellationRequested(s) /\ s.cancelAt <= s.stopAt
NeverDispatched(s) == s.status = "QUEUED" /\ ~s.began /\ ~s.unresolved
NonTerminal(s) == s.status \notin Terminal

-----------------------------------------------------------------------------
(* Mutated reducers: the plausible slips each property is checked against. *)

UnfencedAdmitAction(s) == s.status = "RUNNING" /\ ~s.unresolved
UnversionedRequest(s, t) ==
    IF CancellationRequested(s) THEN s
    ELSE [s EXCEPT !.cancelAt = t, !.cancelRevision = s.revision]
CompleteUnresolved(s, outcome) == s.status = "FINALIZING" /\ outcome \in Evaluated
CancelledByStatus(s) ==
    [s EXCEPT !.status = "CANCELLED",
              !.outcome = IF s.status = "QUEUED" THEN "NOT_EVALUATED" ELSE "INCONCLUSIVE",
              !.revision = @ + 1]

-----------------------------------------------------------------------------
(* The reducers: a guard and a new row each.                               *)

MayProgress(s) ==
    /\ NonTerminal(s)
    /\ ~CancellationRequested(s)
    /\ NormalProgression(s.status) # "COMPLETED"
Progressed(s) ==
    [s EXCEPT !.status = NormalProgression(s.status),
              !.began = IF NormalProgression(s.status) = "RUNNING" THEN TRUE ELSE @,
              !.revision = @ + 1]

MayAdmitToDesktop(s, epoch) ==
    /\ NonTerminal(s)
    /\ ~CancellationRequested(s)
    /\ s.status = "QUEUED"
    /\ epoch > s.epoch
AdmittedToDesktop(s, epoch) ==
    [s EXCEPT !.status = "LEASED", !.epoch = epoch, !.revision = @ + 1]

MayAdmitAction(s) ==
    /\ s.status = "RUNNING"
    /\ ~CancellationRequested(s)
    /\ ~s.unresolved
ActionAdmitted(s) ==
    [s EXCEPT !.unresolved = TRUE, !.began = TRUE, !.revision = @ + 1]

MayResolveAction(s) == NonTerminal(s) /\ s.unresolved
ActionResolved(s) == [s EXCEPT !.unresolved = FALSE, !.revision = @ + 1]

MayRequestCancellation(s) == NonTerminal(s)
\* Asking again changes nothing, the revision included.
CancellationRequestedAt(s, t) ==
    IF CancellationRequested(s) THEN s
    ELSE [s EXCEPT !.cancelAt = t, !.cancelRevision = s.revision, !.revision = @ + 1]

MayAcknowledgeStop(s, epoch) == NonTerminal(s) /\ epoch = s.epoch
StopAcknowledged(s, t, epoch) ==
    [s EXCEPT !.stopAt = t, !.stopEpoch = epoch, !.revision = @ + 1]

MayCancel(s) ==
    /\ NonTerminal(s)
    /\ CancellationRequested(s)
    /\ \/ NeverDispatched(s)
       \/ ~s.unresolved /\ PhysicallyStopped(s) /\ StoppedInResponse(s)
Cancelled(s) ==
    [s EXCEPT !.status = "CANCELLED",
              !.outcome = IF s.began THEN "INCONCLUSIVE" ELSE "NOT_EVALUATED",
              !.revision = @ + 1]

MayInterrupt(s) == NonTerminal(s)
Interrupted(s) ==
    [s EXCEPT !.status = "INTERRUPTED", !.outcome = "INCONCLUSIVE",
              !.quarantined = TRUE, !.revision = @ + 1]

MayComplete(s, outcome) ==
    /\ s.status = "FINALIZING"
    /\ ~s.unresolved
    /\ outcome \in AdmissibleOutcomes("COMPLETED", s.began)
Completed(s, outcome) ==
    [s EXCEPT !.status = "COMPLETED", !.outcome = outcome, !.revision = @ + 1]

=============================================================================
