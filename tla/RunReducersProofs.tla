-------------------------- MODULE RunReducersProofs --------------------------
(***************************************************************************)
(* What each reducer of RunReducers returns, field by field.  The proofs   *)
(* about the modules that keep run rows cite these lemmas and never expand *)
(* an EXCEPT on a run row.                                                 *)
(***************************************************************************)
EXTENDS RunReducers, TLAPS

\* A row is the record of its eleven fields.
RowOf(t) ==
    [status |-> t.status, outcome |-> t.outcome, revision |-> t.revision,
     epoch |-> t.epoch, began |-> t.began, unresolved |-> t.unresolved,
     cancelAt |-> t.cancelAt, cancelRevision |-> t.cancelRevision,
     stopAt |-> t.stopAt, stopEpoch |-> t.stopEpoch, quarantined |-> t.quarantined]

\* A record with the row's fields, each of its type, is a row.
LEMMA RowType ==
    ASSUME NEW t, t = RowOf(t),
           t.status \in RunStatus, t.outcome \in Outcome, t.revision \in Nat,
           t.epoch \in Nat, t.began \in BOOLEAN, t.unresolved \in BOOLEAN,
           t.cancelAt \in Nat, t.cancelRevision \in Int,
           t.stopAt \in Nat, t.stopEpoch \in Int, t.quarantined \in BOOLEAN
    PROVE  t \in RunState
BY Zenon DEF RowOf, RunState

\* progress moves the status one step and sets began on the way into RUNNING.
LEMMA ProgressedFields ==
    ASSUME NEW s \in RunState, MayProgress(s)
    PROVE  LET t == Progressed(s) IN
           /\ t \in RunState
           /\ t.revision = s.revision + 1 /\ t.epoch = s.epoch
           /\ t.outcome = s.outcome /\ t.unresolved = s.unresolved
           /\ t.quarantined = s.quarantined
           /\ t.cancelAt = s.cancelAt /\ t.cancelRevision = s.cancelRevision
           /\ t.stopAt = s.stopAt /\ t.stopEpoch = s.stopEpoch
           /\ \/ s.status = "QUEUED" /\ t.status = "LEASED" /\ t.began = s.began
              \/ s.status = "LEASED" /\ t.status = "RUNNING" /\ t.began = TRUE
              \/ s.status = "RUNNING" /\ t.status = "FINALIZING" /\ t.began = s.began
<1>0. PICK t : t = Progressed(s)
  OBVIOUS
<1>1. \/ s.status = "QUEUED" /\ NormalProgression(s.status) = "LEASED"
      \/ s.status = "LEASED" /\ NormalProgression(s.status) = "RUNNING"
      \/ s.status = "RUNNING" /\ NormalProgression(s.status) = "FINALIZING"
  BY DEF MayProgress, NormalProgression, NonTerminal, Terminal, RunState, RunStatus
<1>2. /\ t.revision = s.revision + 1 /\ t.epoch = s.epoch
      /\ t.outcome = s.outcome /\ t.unresolved = s.unresolved
      /\ t.quarantined = s.quarantined
      /\ t.cancelAt = s.cancelAt /\ t.cancelRevision = s.cancelRevision
      /\ t.stopAt = s.stopAt /\ t.stopEpoch = s.stopEpoch
      /\ t.status = NormalProgression(s.status)
      /\ t.began = IF NormalProgression(s.status) = "RUNNING" THEN TRUE ELSE s.began
      /\ t = RowOf(t)
  BY <1>0 DEF Progressed, RunState, RowOf
<1>3. t \in RunState
  <2>1. /\ t.status \in RunStatus /\ t.outcome \in Outcome /\ t.revision \in Nat
        /\ t.epoch \in Nat /\ t.cancelAt \in Nat /\ t.cancelRevision \in Int
        /\ t.stopAt \in Nat /\ t.stopEpoch \in Int
    BY <1>1, <1>2 DEF RunState, RunStatus
  <2>2. t.began \in BOOLEAN /\ t.unresolved \in BOOLEAN /\ t.quarantined \in BOOLEAN
    BY <1>2 DEF RunState
  <2> QED
    BY <1>2, <2>1, <2>2, RowType
<1> QED
  BY <1>0, <1>1, <1>2, <1>3

\* admit_to_desktop leases the run at the epoch it is given.
LEMMA AdmittedFields ==
    ASSUME NEW s \in RunState, NEW e \in Nat
    PROVE  LET t == AdmittedToDesktop(s, e) IN
           /\ t \in RunState
           /\ t.status = "LEASED" /\ t.epoch = e /\ t.revision = s.revision + 1
           /\ t.outcome = s.outcome /\ t.began = s.began /\ t.unresolved = s.unresolved
           /\ t.cancelAt = s.cancelAt /\ t.cancelRevision = s.cancelRevision /\ t.stopAt = s.stopAt
           /\ t.stopEpoch = s.stopEpoch /\ t.quarantined = s.quarantined
<1>0. PICK t : t = AdmittedToDesktop(s, e)
  OBVIOUS
<1>1. /\ t = RowOf(t)
      /\ t.status = "LEASED" /\ t.epoch = e /\ t.revision = s.revision + 1
      /\ t.outcome = s.outcome /\ t.began = s.began /\ t.unresolved = s.unresolved
      /\ t.cancelAt = s.cancelAt /\ t.cancelRevision = s.cancelRevision /\ t.stopAt = s.stopAt
      /\ t.stopEpoch = s.stopEpoch /\ t.quarantined = s.quarantined
  BY <1>0 DEF AdmittedToDesktop, RunState, RowOf
<1>2. t \in RunState
  <2>1. /\ t.status \in RunStatus /\ t.outcome \in Outcome /\ t.revision \in Nat
        /\ t.epoch \in Nat /\ t.cancelAt \in Nat /\ t.cancelRevision \in Int
        /\ t.stopAt \in Nat /\ t.stopEpoch \in Int
    BY <1>1 DEF RunState, RunStatus, Outcome
  <2>2. t.began \in BOOLEAN /\ t.unresolved \in BOOLEAN /\ t.quarantined \in BOOLEAN
    BY <1>1 DEF RunState
  <2> QED
    BY <1>1, <2>1, <2>2, RowType
<1> QED
  BY <1>0, <1>1, <1>2

\* admit_action marks the action unresolved and execution begun.
LEMMA ActionAdmittedFields ==
    ASSUME NEW s \in RunState
    PROVE  LET t == ActionAdmitted(s) IN
           /\ t \in RunState
           /\ t.unresolved = TRUE /\ t.began = TRUE /\ t.revision = s.revision + 1
           /\ t.status = s.status /\ t.outcome = s.outcome /\ t.epoch = s.epoch
           /\ t.cancelAt = s.cancelAt /\ t.cancelRevision = s.cancelRevision /\ t.stopAt = s.stopAt
           /\ t.stopEpoch = s.stopEpoch /\ t.quarantined = s.quarantined
<1>0. PICK t : t = ActionAdmitted(s)
  OBVIOUS
<1>1. /\ t = RowOf(t)
      /\ t.unresolved = TRUE /\ t.began = TRUE /\ t.revision = s.revision + 1
      /\ t.status = s.status /\ t.outcome = s.outcome /\ t.epoch = s.epoch
      /\ t.cancelAt = s.cancelAt /\ t.cancelRevision = s.cancelRevision /\ t.stopAt = s.stopAt
      /\ t.stopEpoch = s.stopEpoch /\ t.quarantined = s.quarantined
  BY <1>0 DEF ActionAdmitted, RunState, RowOf
<1>2. t \in RunState
  <2>1. /\ t.status \in RunStatus /\ t.outcome \in Outcome /\ t.revision \in Nat
        /\ t.epoch \in Nat /\ t.cancelAt \in Nat /\ t.cancelRevision \in Int
        /\ t.stopAt \in Nat /\ t.stopEpoch \in Int
    BY <1>1 DEF RunState, RunStatus, Outcome
  <2>2. t.began \in BOOLEAN /\ t.unresolved \in BOOLEAN /\ t.quarantined \in BOOLEAN
    BY <1>1 DEF RunState
  <2> QED
    BY <1>1, <2>1, <2>2, RowType
<1> QED
  BY <1>0, <1>1, <1>2

\* resolve_action clears the unresolved mark.
LEMMA ActionResolvedFields ==
    ASSUME NEW s \in RunState
    PROVE  LET t == ActionResolved(s) IN
           /\ t \in RunState
           /\ t.unresolved = FALSE /\ t.revision = s.revision + 1 /\ t.status = s.status
           /\ t.outcome = s.outcome /\ t.epoch = s.epoch /\ t.began = s.began
           /\ t.cancelAt = s.cancelAt /\ t.cancelRevision = s.cancelRevision /\ t.stopAt = s.stopAt
           /\ t.stopEpoch = s.stopEpoch /\ t.quarantined = s.quarantined
<1>0. PICK t : t = ActionResolved(s)
  OBVIOUS
<1>1. /\ t = RowOf(t)
      /\ t.unresolved = FALSE /\ t.revision = s.revision + 1 /\ t.status = s.status
      /\ t.outcome = s.outcome /\ t.epoch = s.epoch /\ t.began = s.began
      /\ t.cancelAt = s.cancelAt /\ t.cancelRevision = s.cancelRevision /\ t.stopAt = s.stopAt
      /\ t.stopEpoch = s.stopEpoch /\ t.quarantined = s.quarantined
  BY <1>0 DEF ActionResolved, RunState, RowOf
<1>2. t \in RunState
  <2>1. /\ t.status \in RunStatus /\ t.outcome \in Outcome /\ t.revision \in Nat
        /\ t.epoch \in Nat /\ t.cancelAt \in Nat /\ t.cancelRevision \in Int
        /\ t.stopAt \in Nat /\ t.stopEpoch \in Int
    BY <1>1 DEF RunState, RunStatus, Outcome
  <2>2. t.began \in BOOLEAN /\ t.unresolved \in BOOLEAN /\ t.quarantined \in BOOLEAN
    BY <1>1 DEF RunState
  <2> QED
    BY <1>1, <2>1, <2>2, RowType
<1> QED
  BY <1>0, <1>1, <1>2

\* The first request_cancellation records the time and the revision it fenced.
LEMMA FirstRequestFields ==
    ASSUME NEW s \in RunState, NEW x \in Nat, ~CancellationRequested(s)
    PROVE  LET t == CancellationRequestedAt(s, x) IN
           /\ t \in RunState
           /\ t.cancelAt = x /\ t.cancelRevision = s.revision /\ t.revision = s.revision + 1
           /\ t.status = s.status /\ t.outcome = s.outcome /\ t.epoch = s.epoch
           /\ t.began = s.began /\ t.unresolved = s.unresolved /\ t.stopAt = s.stopAt
           /\ t.stopEpoch = s.stopEpoch /\ t.quarantined = s.quarantined
<1>0. PICK t : t = CancellationRequestedAt(s, x)
  OBVIOUS
<1>1. /\ t = RowOf(t)
      /\ t.cancelAt = x /\ t.cancelRevision = s.revision /\ t.revision = s.revision + 1
      /\ t.status = s.status /\ t.outcome = s.outcome /\ t.epoch = s.epoch
      /\ t.began = s.began /\ t.unresolved = s.unresolved /\ t.stopAt = s.stopAt
      /\ t.stopEpoch = s.stopEpoch /\ t.quarantined = s.quarantined
  BY <1>0 DEF CancellationRequestedAt, CancellationRequested, RunState, RowOf
<1>2. t \in RunState
  <2>1. /\ t.status \in RunStatus /\ t.outcome \in Outcome /\ t.revision \in Nat
        /\ t.epoch \in Nat /\ t.cancelAt \in Nat /\ t.cancelRevision \in Int
        /\ t.stopAt \in Nat /\ t.stopEpoch \in Int
    BY <1>1 DEF RunState, RunStatus, Outcome
  <2>2. t.began \in BOOLEAN /\ t.unresolved \in BOOLEAN /\ t.quarantined \in BOOLEAN
    BY <1>1 DEF RunState
  <2> QED
    BY <1>1, <2>1, <2>2, RowType
<1> QED
  BY <1>0, <1>1, <1>2

\* acknowledge_stop records the acknowledged epoch.
LEMMA StopAcknowledgedFields ==
    ASSUME NEW s \in RunState, NEW x \in Nat, NEW e \in Nat
    PROVE  LET t == StopAcknowledged(s, x, e) IN
           /\ t \in RunState
           /\ t.stopAt = x /\ t.stopEpoch = e /\ t.revision = s.revision + 1
           /\ t.status = s.status /\ t.outcome = s.outcome /\ t.epoch = s.epoch
           /\ t.began = s.began /\ t.unresolved = s.unresolved /\ t.cancelAt = s.cancelAt
           /\ t.cancelRevision = s.cancelRevision /\ t.quarantined = s.quarantined
<1>0. PICK t : t = StopAcknowledged(s, x, e)
  OBVIOUS
<1>1. /\ t = RowOf(t)
      /\ t.stopAt = x /\ t.stopEpoch = e /\ t.revision = s.revision + 1
      /\ t.status = s.status /\ t.outcome = s.outcome /\ t.epoch = s.epoch
      /\ t.began = s.began /\ t.unresolved = s.unresolved /\ t.cancelAt = s.cancelAt
      /\ t.cancelRevision = s.cancelRevision /\ t.quarantined = s.quarantined
  BY <1>0 DEF StopAcknowledged, RunState, RowOf
<1>2. t \in RunState
  <2>1. /\ t.status \in RunStatus /\ t.outcome \in Outcome /\ t.revision \in Nat
        /\ t.epoch \in Nat /\ t.cancelAt \in Nat /\ t.cancelRevision \in Int
        /\ t.stopAt \in Nat /\ t.stopEpoch \in Int
    BY <1>1 DEF RunState, RunStatus, Outcome
  <2>2. t.began \in BOOLEAN /\ t.unresolved \in BOOLEAN /\ t.quarantined \in BOOLEAN
    BY <1>1 DEF RunState
  <2> QED
    BY <1>1, <2>1, <2>2, RowType
<1> QED
  BY <1>0, <1>1, <1>2

\* What finish_session's composite reducer, acknowledge_stop then progress,
\* returns.
LEMMA FinishedFields ==
    ASSUME NEW s \in RunState, NEW x \in Nat, NEW e \in Nat, s.status = "RUNNING",
           MayProgress(StopAcknowledged(s, x, e))
    PROVE  LET t == Progressed(StopAcknowledged(s, x, e)) IN
           /\ t \in RunState
           /\ t.status = "FINALIZING" /\ t.outcome = s.outcome /\ t.epoch = s.epoch
           /\ t.began = s.began /\ t.unresolved = s.unresolved
           /\ t.stopAt = x /\ t.stopEpoch = e /\ t.cancelAt = s.cancelAt
           /\ t.quarantined = s.quarantined /\ t.revision = s.revision + 2
           /\ ~CancellationRequested(s)
<1>0. PICK t : t = Progressed(StopAcknowledged(s, x, e))
  OBVIOUS
<1>1. PICK m : m = StopAcknowledged(s, x, e)
  OBVIOUS
<1>2. /\ m \in RunState /\ m.status = s.status /\ m.outcome = s.outcome /\ m.epoch = s.epoch
      /\ m.revision = s.revision + 1 /\ m.cancelAt = s.cancelAt
      /\ m.began = s.began /\ m.unresolved = s.unresolved
      /\ m.stopAt = x /\ m.stopEpoch = e /\ m.quarantined = s.quarantined
  <2>1. m \in RunState
    BY <1>1, StopAcknowledgedFields, Zenon
  <2> QED
    BY <1>1, <2>1 DEF StopAcknowledged, RunState
<1>3. MayProgress(m) /\ t = Progressed(m)
  BY <1>0, <1>1
<1>4. /\ t \in RunState /\ t.status = "FINALIZING" /\ t.outcome = m.outcome
      /\ t.epoch = m.epoch /\ t.began = m.began /\ t.unresolved = m.unresolved
      /\ t.revision = m.revision + 1 /\ t.stopAt = m.stopAt /\ t.stopEpoch = m.stopEpoch
      /\ t.cancelAt = m.cancelAt /\ t.quarantined = m.quarantined
  BY <1>2, <1>3, ProgressedFields
<1>5. t.revision = s.revision + 2
  BY <1>2, <1>4 DEF RunState
<1>6. ~CancellationRequested(s)
  BY <1>2, <1>3 DEF MayProgress, CancellationRequested
<1> QED
  BY <1>0, <1>2, <1>4, <1>5, <1>6

\* cancel ends the run with the outcome execution selects.
LEMMA CancelledFields ==
    ASSUME NEW s \in RunState
    PROVE  LET t == Cancelled(s) IN
           /\ t \in RunState
           /\ t.status = "CANCELLED"
           /\ t.outcome = (IF s.began THEN "INCONCLUSIVE" ELSE "NOT_EVALUATED")
           /\ t.revision = s.revision + 1
           /\ t.epoch = s.epoch /\ t.began = s.began /\ t.unresolved = s.unresolved
           /\ t.cancelAt = s.cancelAt /\ t.cancelRevision = s.cancelRevision /\ t.stopAt = s.stopAt
           /\ t.stopEpoch = s.stopEpoch /\ t.quarantined = s.quarantined
<1>0. PICK t : t = Cancelled(s)
  OBVIOUS
<1>1. /\ t = RowOf(t)
      /\ t.status = "CANCELLED"
      /\ t.outcome = (IF s.began THEN "INCONCLUSIVE" ELSE "NOT_EVALUATED")
      /\ t.revision = s.revision + 1
      /\ t.epoch = s.epoch /\ t.began = s.began /\ t.unresolved = s.unresolved
      /\ t.cancelAt = s.cancelAt /\ t.cancelRevision = s.cancelRevision /\ t.stopAt = s.stopAt
      /\ t.stopEpoch = s.stopEpoch /\ t.quarantined = s.quarantined
  BY <1>0 DEF Cancelled, RunState, RowOf
<1>2. t \in RunState
  <2>1. /\ t.status \in RunStatus /\ t.outcome \in Outcome /\ t.revision \in Nat
        /\ t.epoch \in Nat /\ t.cancelAt \in Nat /\ t.cancelRevision \in Int
        /\ t.stopAt \in Nat /\ t.stopEpoch \in Int
    BY <1>1 DEF RunState, RunStatus, Outcome
  <2>2. t.began \in BOOLEAN /\ t.unresolved \in BOOLEAN /\ t.quarantined \in BOOLEAN
    BY <1>1 DEF RunState
  <2> QED
    BY <1>1, <2>1, <2>2, RowType
<1> QED
  BY <1>0, <1>1, <1>2

\* interrupt ends the run inconclusive and quarantined.
LEMMA InterruptedFields ==
    ASSUME NEW s \in RunState
    PROVE  LET t == Interrupted(s) IN
           /\ t \in RunState
           /\ t.status = "INTERRUPTED" /\ t.outcome = "INCONCLUSIVE" /\ t.quarantined = TRUE
           /\ t.revision = s.revision + 1 /\ t.epoch = s.epoch /\ t.began = s.began
           /\ t.unresolved = s.unresolved /\ t.cancelAt = s.cancelAt /\ t.cancelRevision = s.cancelRevision
           /\ t.stopAt = s.stopAt /\ t.stopEpoch = s.stopEpoch
<1>0. PICK t : t = Interrupted(s)
  OBVIOUS
<1>1. /\ t = RowOf(t)
      /\ t.status = "INTERRUPTED" /\ t.outcome = "INCONCLUSIVE" /\ t.quarantined = TRUE
      /\ t.revision = s.revision + 1 /\ t.epoch = s.epoch /\ t.began = s.began
      /\ t.unresolved = s.unresolved /\ t.cancelAt = s.cancelAt /\ t.cancelRevision = s.cancelRevision
      /\ t.stopAt = s.stopAt /\ t.stopEpoch = s.stopEpoch
  BY <1>0 DEF Interrupted, RunState, RowOf
<1>2. t \in RunState
  <2>1. /\ t.status \in RunStatus /\ t.outcome \in Outcome /\ t.revision \in Nat
        /\ t.epoch \in Nat /\ t.cancelAt \in Nat /\ t.cancelRevision \in Int
        /\ t.stopAt \in Nat /\ t.stopEpoch \in Int
    BY <1>1 DEF RunState, RunStatus, Outcome
  <2>2. t.began \in BOOLEAN /\ t.unresolved \in BOOLEAN /\ t.quarantined \in BOOLEAN
    BY <1>1 DEF RunState
  <2> QED
    BY <1>1, <2>1, <2>2, RowType
<1> QED
  BY <1>0, <1>1, <1>2

\* complete ends the run with the evaluated outcome.
LEMMA CompletedFields ==
    ASSUME NEW s \in RunState, NEW o \in Outcome
    PROVE  LET t == Completed(s, o) IN
           /\ t \in RunState
           /\ t.status = "COMPLETED" /\ t.outcome = o /\ t.revision = s.revision + 1
           /\ t.epoch = s.epoch /\ t.began = s.began /\ t.unresolved = s.unresolved
           /\ t.cancelAt = s.cancelAt /\ t.cancelRevision = s.cancelRevision /\ t.stopAt = s.stopAt
           /\ t.stopEpoch = s.stopEpoch /\ t.quarantined = s.quarantined
<1>0. PICK t : t = Completed(s, o)
  OBVIOUS
<1>1. /\ t = RowOf(t)
      /\ t.status = "COMPLETED" /\ t.outcome = o /\ t.revision = s.revision + 1
      /\ t.epoch = s.epoch /\ t.began = s.began /\ t.unresolved = s.unresolved
      /\ t.cancelAt = s.cancelAt /\ t.cancelRevision = s.cancelRevision /\ t.stopAt = s.stopAt
      /\ t.stopEpoch = s.stopEpoch /\ t.quarantined = s.quarantined
  BY <1>0 DEF Completed, RunState, RowOf
<1>2. t \in RunState
  <2>1. /\ t.status \in RunStatus /\ t.outcome \in Outcome /\ t.revision \in Nat
        /\ t.epoch \in Nat /\ t.cancelAt \in Nat /\ t.cancelRevision \in Int
        /\ t.stopAt \in Nat /\ t.stopEpoch \in Int
    BY <1>1 DEF RunState, RunStatus, Outcome
  <2>2. t.began \in BOOLEAN /\ t.unresolved \in BOOLEAN /\ t.quarantined \in BOOLEAN
    BY <1>1 DEF RunState
  <2> QED
    BY <1>1, <2>1, <2>2, RowType
<1> QED
  BY <1>0, <1>1, <1>2

=============================================================================
