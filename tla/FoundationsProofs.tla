-------------------------- MODULE FoundationsProofs --------------------------
(***************************************************************************)
(* Proofs about five transactional foundations, for every instance of      *)
(* them: the life of one run, the review of findings, the write rate       *)
(* limiter, the admission of runs and the outbox.  They share no state.    *)
(***************************************************************************)
EXTENDS RunLifecycle, RunReducersProofs, FindingReview, WriteLimiter, RunAdmission, OutboxDelivery,
        FiniteSetTheorems, TLAPS

-----------------------------------------------------------------------------
(* The life of a run: the inductive invariant.                             *)

\* What a queued row looks like: cancelling it without a stop acknowledgement
\* is only sound because of this.
QueuedIsUntouched ==
    run.status = "QUEUED" => run.epoch = 0 /\ ~run.began /\ ~run.unresolved

\* Inductive strengthening of the invariants the run checks.
LifecycleInv == /\ LifecycleTypeOK
        /\ AdmissiblePair
        /\ CancelledMeansStopped
        /\ AmbiguityAndVerdict
        /\ QueuedIsUntouched

\* A fresh row satisfies the inductive invariant.
LEMMA LifecycleBegins == LifecycleInit => LifecycleInv
<1> SUFFICES ASSUME LifecycleInit PROVE LifecycleInv
  OBVIOUS
<1>1. /\ run.status = "QUEUED" /\ run.outcome = "NOT_EVALUATED" /\ run.epoch = 0
      /\ run.began = FALSE /\ run.unresolved = FALSE
  BY DEF LifecycleInit, NewRun
<1>2. LifecycleTypeOK
  BY DEF LifecycleInit, NewRun, LifecycleTypeOK, RunState, RunStatus, Outcome, NoTime, NoEpoch
<1> QED
  BY <1>1, <1>2 DEF LifecycleInv, AdmissiblePair, AdmissibleOutcomes, CancelledMeansStopped,
     AmbiguityAndVerdict, QueuedIsUntouched

\* Every admitted reducer preserves the inductive invariant.
LEMMA LifecycleKeeps == LifecycleInv /\ [LifecycleNext]_run => LifecycleInv'
<1> SUFFICES ASSUME LifecycleInv, [LifecycleNext]_run PROVE LifecycleInv'
  OBVIOUS
<1> USE DEF LifecycleInv, LifecycleTypeOK
<1>a. run \in RunState /\ run.status \in RunStatus /\ run.began \in BOOLEAN
      /\ run.unresolved \in BOOLEAN /\ run.epoch \in Nat
  BY DEF RunState
<1>1. CASE Progress
  <2>1. MayProgress(run) /\ run' = Progressed(run)
    BY <1>1 DEF Progress
  <2> QED
    BY <2>1, <1>a, ProgressedFields DEF AdmissiblePair, AdmissibleOutcomes,
       CancelledMeansStopped, AmbiguityAndVerdict, QueuedIsUntouched
<1>2. CASE AdmitToDesktop
  <2>1. PICK e \in 1..MaxEpoch : MayAdmitToDesktop(run, e) /\ run' = AdmittedToDesktop(run, e)
    BY <1>2 DEF AdmitToDesktop
  <2>2. e \in Nat
    BY BoundsAssumption
  <2> QED
    BY <2>1, <2>2, <1>a, AdmittedFields DEF AdmissiblePair, AdmissibleOutcomes,
       CancelledMeansStopped, AmbiguityAndVerdict, QueuedIsUntouched, MayAdmitToDesktop
<1>3. CASE AdmitAction
  BY <1>3, <1>a, ActionAdmittedFields DEF AdmitAction, MayAdmitAction, AdmissiblePair,
     AdmissibleOutcomes, CancelledMeansStopped, AmbiguityAndVerdict, QueuedIsUntouched
<1>4. CASE ResolveAction
  BY <1>4, <1>a, ActionResolvedFields DEF ResolveAction, MayResolveAction, NonTerminal,
     Terminal, AdmissiblePair, AdmissibleOutcomes, CancelledMeansStopped,
     AmbiguityAndVerdict, QueuedIsUntouched
<1>5. CASE RequestCancellation
  <2>1. PICK x \in Times : MayRequestCancellation(run) /\ run' = CancellationRequestedAt(run, x)
    BY <1>5 DEF RequestCancellation
  <2>2. CASE CancellationRequested(run)
    <3>1. run' = run
      BY <2>1, <2>2 DEF CancellationRequestedAt
    <3> QED
      BY <3>1 DEF AdmissiblePair, CancelledMeansStopped, AmbiguityAndVerdict, QueuedIsUntouched
  <2>3. CASE ~CancellationRequested(run)
    BY <2>1, <2>3, <1>a, TimesAssumption, FirstRequestFields DEF MayRequestCancellation,
       NonTerminal, Terminal, AdmissiblePair, AdmissibleOutcomes, CancelledMeansStopped,
       AmbiguityAndVerdict, QueuedIsUntouched
  <2> QED
    BY <2>2, <2>3
<1>6. CASE AcknowledgeStop
  <2>1. PICK x \in Times, e \in 0..MaxEpoch :
          MayAcknowledgeStop(run, e) /\ run' = StopAcknowledged(run, x, e)
    BY <1>6 DEF AcknowledgeStop
  <2>2. e \in Nat /\ x \in Nat
    BY BoundsAssumption, TimesAssumption
  <2> QED
    BY <2>1, <2>2, <1>a, StopAcknowledgedFields DEF MayAcknowledgeStop, NonTerminal, Terminal,
       AdmissiblePair, AdmissibleOutcomes, CancelledMeansStopped, AmbiguityAndVerdict,
       QueuedIsUntouched
<1>7. CASE Cancel
  BY <1>7, <1>a, CancelledFields DEF Cancel, MayCancel, NonTerminal, Terminal, NeverDispatched,
     PhysicallyStopped, StoppedInResponse, CancellationRequested, NoTime, RunState,
     AdmissiblePair, AdmissibleOutcomes, CancelledMeansStopped, AmbiguityAndVerdict,
     QueuedIsUntouched
<1>8. CASE Interrupt
  BY <1>8, <1>a, InterruptedFields DEF Interrupt, MayInterrupt, AdmissiblePair,
     AdmissibleOutcomes, CancelledMeansStopped, AmbiguityAndVerdict, QueuedIsUntouched
<1>9. CASE Complete
  <2>1. PICK o \in Outcome : MayComplete(run, o) /\ run' = Completed(run, o)
    BY <1>9 DEF Complete
  <2> QED
    BY <2>1, <1>a, CompletedFields DEF MayComplete, AdmissiblePair, AdmissibleOutcomes,
       Evaluated, CancelledMeansStopped, AmbiguityAndVerdict, QueuedIsUntouched
<1>11. CASE FinishExecution
  <2>1. PICK x \in Times, e \in 0..MaxEpoch :
          /\ run.status = "RUNNING"
          /\ MayProgress(StopAcknowledged(run, x, e))
          /\ run' = Progressed(StopAcknowledged(run, x, e))
    BY <1>11 DEF FinishExecution
  <2>2. e \in Nat /\ x \in Nat
    BY BoundsAssumption, TimesAssumption
  <2>3. /\ run' \in RunState /\ run'.status = "FINALIZING"
        /\ run'.outcome = run.outcome /\ run'.epoch = run.epoch /\ run'.began = run.began
        /\ run'.unresolved = run.unresolved
    BY <2>1, <2>2, <1>a, FinishedFields
  <2> QED
    BY <2>1, <2>3, <1>a DEF AdmissiblePair, AdmissibleOutcomes, CancelledMeansStopped,
       AmbiguityAndVerdict, QueuedIsUntouched
<1>10. CASE UNCHANGED run
  BY <1>10 DEF AdmissiblePair, CancelledMeansStopped, AmbiguityAndVerdict, QueuedIsUntouched
<1> QED
  BY <1>1, <1>2, <1>3, <1>4, <1>5, <1>6, <1>7, <1>8, <1>9, <1>10, <1>11 DEF LifecycleNext

\* The invariant holds of every run, whatever order the reducers are called in.
THEOREM LifecycleInvariance == LifecycleSpec => []LifecycleInv
BY LifecycleBegins, LifecycleKeeps, PTL DEF LifecycleSpec

\* Every reducer returns a row of the declared type.
LEMMA LifecycleTypes == LifecycleSpec => []LifecycleTypeOK
<1>1. LifecycleInv => LifecycleTypeOK
  BY DEF LifecycleInv
<1> QED
  BY <1>1, LifecycleInvariance, PTL

\* Every reducer returns a row of the declared type that the status/outcome CHECK
\* constraint of migration 0003 accepts, in whatever order they are called.
THEOREM RowsAdmissible == LifecycleSpec => []RowIsAdmissible
<1>1. LifecycleInv => RowIsAdmissible
  BY DEF LifecycleInv, RowIsAdmissible
<1> QED
  BY <1>1, LifecycleInvariance, PTL

\* A CANCELLED run provably never had a desktop, or its desktop answered the
\* request with a stop at the run's own epoch.
THEOREM CancelProof == LifecycleSpec => []CancelledMeansStopped
<1>1. LifecycleInv => CancelledMeansStopped
  BY DEF LifecycleInv
<1> QED
  BY <1>1, LifecycleInvariance, PTL

\* A run with an unresolved action ends INTERRUPTED or not at all.
THEOREM AmbiguityProof == LifecycleSpec => []AmbiguityAndVerdict
<1>1. LifecycleInv => AmbiguityAndVerdict
  BY DEF LifecycleInv
<1> QED
  BY <1>1, LifecycleInvariance, PTL

-----------------------------------------------------------------------------
(* Action properties.                                                      *)

\* How one step may change the row: the facts both action properties need.
LEMMA LifecycleStep ==
    ASSUME LifecycleTypeOK, LifecycleNext
    PROVE  \/ UNCHANGED run
           \/ /\ NonTerminal(run)
              /\ run'.revision \in {run.revision + 1, run.revision + 2}
              /\ \/ /\ ~CancellationRequested(run)
                    /\ run'.epoch >= run.epoch
                    /\ Rank(run'.status) >= Rank(run.status)
                 \/ /\ run'.cancelAt = run.cancelAt
                    /\ run'.cancelRevision = run.cancelRevision
                    /\ run'.epoch = run.epoch
                    /\ run'.began = run.began
                    /\ run'.unresolved => run.unresolved
                    /\ \/ run'.status = run.status
                       \/ run'.status \in {"CANCELLED", "INTERRUPTED"}
                       \/ run.status = "FINALIZING" /\ run'.status = "COMPLETED"
<1>a. run \in RunState /\ run.status \in RunStatus /\ run.began \in BOOLEAN
      /\ run.unresolved \in BOOLEAN /\ run.epoch \in Nat /\ run.revision \in Nat
  BY DEF LifecycleTypeOK, RunState
<1>1. CASE Progress
  <2>1. MayProgress(run) /\ run' = Progressed(run)
    BY <1>1 DEF Progress
  <2>2. /\ run'.revision = run.revision + 1 /\ run'.epoch = run.epoch
        /\ \/ run.status = "QUEUED" /\ run'.status = "LEASED"
           \/ run.status = "LEASED" /\ run'.status = "RUNNING"
           \/ run.status = "RUNNING" /\ run'.status = "FINALIZING"
    BY <2>1, <1>a, ProgressedFields
  <2>3. Rank(run'.status) >= Rank(run.status)
    BY <2>2 DEF Rank
  <2> QED
    BY <2>1, <2>2, <2>3, <1>a DEF MayProgress
<1>2. CASE AdmitToDesktop
  <2>1. PICK e \in 1..MaxEpoch : MayAdmitToDesktop(run, e) /\ run' = AdmittedToDesktop(run, e)
    BY <1>2 DEF AdmitToDesktop
  <2>2. e \in Nat
    BY BoundsAssumption
  <2> QED
    BY <2>1, <2>2, <1>a, AdmittedFields DEF MayAdmitToDesktop, Rank
<1>3. CASE AdmitAction
  <2>1. MayAdmitAction(run) /\ run' = ActionAdmitted(run)
    BY <1>3 DEF AdmitAction
  <2>2. /\ run'.revision = run.revision + 1 /\ run'.epoch = run.epoch
        /\ run'.status = run.status
    BY <2>1, <1>a, ActionAdmittedFields
  <2>3. Rank(run'.status) >= Rank(run.status)
    BY <2>2 DEF Rank
  <2> QED
    BY <2>1, <2>2, <2>3, <1>a DEF MayAdmitAction, NonTerminal, Terminal
<1>4. CASE ResolveAction
  BY <1>4, <1>a, ActionResolvedFields DEF ResolveAction, MayResolveAction
<1>5. CASE RequestCancellation
  <2>1. PICK x \in Times : MayRequestCancellation(run) /\ run' = CancellationRequestedAt(run, x)
    BY <1>5 DEF RequestCancellation
  <2>2. CASE CancellationRequested(run)
    BY <2>1, <2>2 DEF CancellationRequestedAt
  <2>3. CASE ~CancellationRequested(run)
    <3>1. /\ run'.revision = run.revision + 1 /\ run'.epoch = run.epoch
          /\ run'.status = run.status
      BY <2>1, <2>3, <1>a, TimesAssumption, FirstRequestFields
    <3>2. Rank(run'.status) >= Rank(run.status)
      BY <3>1 DEF Rank
    <3> QED
      BY <2>1, <2>3, <3>1, <3>2, <1>a DEF MayRequestCancellation
  <2> QED
    BY <2>2, <2>3
<1>6. CASE AcknowledgeStop
  <2>1. PICK x \in Times, e \in 0..MaxEpoch :
          MayAcknowledgeStop(run, e) /\ run' = StopAcknowledged(run, x, e)
    BY <1>6 DEF AcknowledgeStop
  <2>2. e \in Nat /\ x \in Nat
    BY BoundsAssumption, TimesAssumption
  <2> QED
    <3>1. /\ run'.revision = run.revision + 1 /\ run'.epoch = run.epoch
          /\ run'.status = run.status /\ run'.began = run.began
          /\ run'.unresolved = run.unresolved
          /\ run'.cancelAt = run.cancelAt /\ run'.cancelRevision = run.cancelRevision
      BY <2>1, <1>a DEF StopAcknowledged, RunState
    <3> QED
      BY <2>1, <3>1 DEF MayAcknowledgeStop
<1>7. CASE Cancel
  BY <1>7, <1>a, CancelledFields DEF Cancel, MayCancel
<1>8. CASE Interrupt
  BY <1>8, <1>a, InterruptedFields DEF Interrupt, MayInterrupt
<1>9. CASE Complete
  <2>1. PICK o \in Outcome : MayComplete(run, o) /\ run' = Completed(run, o)
    BY <1>9 DEF Complete
  <2> QED
    BY <2>1, <1>a, CompletedFields DEF MayComplete, NonTerminal, Terminal
<1>10. CASE FinishExecution
  <2>1. PICK x \in Times, e \in 0..MaxEpoch :
          /\ run.status = "RUNNING"
          /\ MayProgress(StopAcknowledged(run, x, e))
          /\ run' = Progressed(StopAcknowledged(run, x, e))
    BY <1>10 DEF FinishExecution
  <2>2. e \in Nat /\ x \in Nat
    BY BoundsAssumption, TimesAssumption
  <2>3. /\ run'.revision = run.revision + 2 /\ run'.epoch = run.epoch
        /\ run'.status = "FINALIZING" /\ ~CancellationRequested(run)
    BY <2>1, <2>2, <1>a, FinishedFields
  <2>4. Rank(run'.status) >= Rank(run.status)
    BY <2>1, <2>3 DEF Rank
  <2> QED
    BY <2>1, <2>3, <2>4, <1>a DEF NonTerminal, Terminal
<1> QED
  BY <1>1, <1>2, <1>3, <1>4, <1>5, <1>6, <1>7, <1>8, <1>9, <1>10 DEF LifecycleNext

\* Terminal rows never change, status and epoch never go back, and every
\* accepted transition takes a later revision.
THEOREM LifecycleForward == LifecycleSpec => ForwardOnly
<1>1. LifecycleTypeOK /\ [LifecycleNext]_run =>
        [/\ NonTerminal(run)
         /\ Rank(run'.status) >= Rank(run.status)
         /\ run'.epoch >= run.epoch
         /\ run'.revision > run.revision]_run
  <2> SUFFICES ASSUME LifecycleTypeOK, LifecycleNext, run' # run
               PROVE  /\ NonTerminal(run)
                      /\ Rank(run'.status) >= Rank(run.status)
                      /\ run'.epoch >= run.epoch
                      /\ run'.revision > run.revision
    OBVIOUS
  <2>1. run.status \in RunStatus /\ run.epoch \in Nat /\ run.revision \in Nat
    BY DEF LifecycleTypeOK, RunState
  <2> QED
    BY <2>1, LifecycleStep DEF Rank, RunStatus
<1> QED
  BY <1>1, LifecycleTypes, PTL DEF LifecycleSpec, ForwardOnly

\* After a cancellation request no step admits a desktop, execution or an
\* action, and only an already finalizing run may still complete.
THEOREM LifecycleFence == LifecycleSpec => CancellationFences
<1>1. LifecycleTypeOK /\ [LifecycleNext]_run =>
        [CancellationRequested(run) =>
            /\ run'.cancelAt = run.cancelAt /\ run'.cancelRevision = run.cancelRevision
            /\ run'.epoch = run.epoch /\ run'.began = run.began
            /\ run'.unresolved => run.unresolved
            /\ run'.status \in {run.status} \cup Terminal
            /\ run'.status = "COMPLETED" => run.status = "FINALIZING"]_run
  <2> SUFFICES ASSUME LifecycleTypeOK, LifecycleNext, run' # run, CancellationRequested(run)
               PROVE  /\ run'.cancelAt = run.cancelAt /\ run'.cancelRevision = run.cancelRevision
                      /\ run'.epoch = run.epoch /\ run'.began = run.began
                      /\ run'.unresolved => run.unresolved
                      /\ run'.status \in {run.status} \cup Terminal
                      /\ run'.status = "COMPLETED" => run.status = "FINALIZING"
    OBVIOUS
  <2> QED
    BY LifecycleStep DEF Terminal, NonTerminal
<1> QED
  BY <1>1, LifecycleTypes, PTL DEF LifecycleSpec, CancellationFences

-----------------------------------------------------------------------------
(* The review of a finding: the inductive invariant.                       *)

\* What a page shows was true at the revision it shows; the finding exists exactly when
\* it has a history.
PageInv ==
    /\ finding = "none" <=> trail = <<>>
    /\ Len(trail) <= MaxMoves
    /\ \A u \in People : /\ shown[u].revision <= Len(trail)
                         /\ shown[u].revision # 0 => shown[u].status = trail[shown[u].revision].to

ReviewInv == ReviewIsInformed /\ PageInv

\* A row of finding_transition.
Moves == [from : Statuses \cup {"none"}, to : Statuses, saw : Statuses \cup {"none"},
          review : Slips \cup {NoReviewer}]
Reviews == [by : People, verdict : Verdicts, patch : 1 .. MaxPatch, supersedes : Slips \cup {NoReviewer}]
Pages == [revision : 0 .. MaxMoves, status : Statuses \cup {"none"}, patch : 0 .. MaxPatch]

LEMMA ReviewTypes ==
    ReviewTypeOK <=> /\ outcome \in {"FAIL", "INCONCLUSIVE"} /\ finding \in Statuses \cup {"none"}
                     /\ trail \in Seq(Moves) /\ proposal \in 1 .. MaxPatch
                     /\ review \in [Slips -> Reviews \cup {NoReview}]
                     /\ shown \in [People -> Pages]
    BY DEF ReviewTypeOK, Moves, Reviews, Pages

LEMMA InitiallyInformed == ReviewInit => ReviewInv
<1> SUFFICES ASSUME ReviewInit PROVE ReviewInv
    OBVIOUS
<1>1. trail = <<>> /\ Len(trail) = 0 /\ trail \in Seq(Moves)
    BY DEF ReviewInit
<1>2. NoPage \in Pages
    BY ReviewAssumption DEF NoPage, Pages
<1>3. ReviewTypeOK
    BY <1>1, <1>2, ReviewTypes, ReviewAssumption DEF ReviewInit
<1>4. DecidedOnWhatWasSeen /\ ResolvedWasAccepted
    BY <1>1 DEF DecidedOnWhatWasSeen, ResolvedWasAccepted
<1>5. PageInv
    BY <1>1, ReviewAssumption DEF PageInv, ReviewInit, NoPage
<1> QED
    BY <1>3, <1>4, <1>5 DEF ReviewInv, ReviewIsInformed

\* A move is written after the others, which stay.
LEMMA MoveIsAppended ==
    ASSUME trail \in Seq(Moves), NEW m \in Moves, trail' = Append(trail, m)
    PROVE  /\ trail' \in Seq(Moves) /\ trail' # <<>> /\ Len(trail') = Len(trail) + 1
           /\ Len(trail) \in Nat /\ trail'[Len(trail) + 1] = m
           /\ \A i \in 1 .. Len(trail) : trail'[i] = trail[i]
    OBVIOUS

LEMMA ReviewKept == ReviewInv /\ [ReviewNext]_reviewVars => ReviewInv'
<1> SUFFICES ASSUME ReviewInv, [ReviewNext]_reviewVars
             PROVE  ReviewInv'
    OBVIOUS
<1>0. /\ ReviewTypeOK /\ DecidedOnWhatWasSeen /\ ResolvedWasAccepted /\ PageInv
      /\ trail \in Seq(Moves) /\ review \in [Slips -> Reviews \cup {NoReview}] /\ shown \in [People -> Pages]
      /\ Len(trail) \in Nat
    BY ReviewTypes DEF ReviewInv, ReviewIsInformed
<1>1. ASSUME NEW supported \in BOOLEAN, CreateFinding(supported)
      PROVE  ReviewInv'
  <2> DEFINE m == [from |-> "none", to |-> OpensAs(supported), saw |-> "none", review |-> NoReviewer]
  <2>1. m \in Moves /\ m.to \in {"REPRODUCED", "CANDIDATE"} /\ m.to = finding'
      BY <1>1 DEF CreateFinding, OpensAs, Moves, Statuses
  <2> HIDE DEF m
  <2>2. trail' = <<m>> /\ trail = <<>>
      BY <1>0, <1>1 DEF CreateFinding, PageInv, m
  <2>3. trail' \in Seq(Moves) /\ Len(trail') = 1 /\ trail'[1] = m /\ trail' # <<>> /\ Len(trail) = 0
      BY <2>1, <2>2
  <2>4. ReviewTypeOK'
      BY <1>0, <1>1, <2>1, <2>3 DEF CreateFinding, Statuses, ReviewTypeOK, Moves, Reviews, Pages
  <2>5. DecidedOnWhatWasSeen'
      BY <2>1, <2>3 DEF DecidedOnWhatWasSeen
  <2>6. ResolvedWasAccepted'
      BY <2>1, <2>2, <2>3 DEF ResolvedWasAccepted
  <2>7. PageInv'
    <3>1. \A u \in People : shown'[u].revision = 0
        BY <1>0, <1>1, <2>3 DEF CreateFinding, PageInv, Pages
    <3> QED
        BY <3>1, <2>1, <2>3, ReviewAssumption DEF PageInv
  <2> QED
      BY <2>4, <2>5, <2>6, <2>7 DEF ReviewInv, ReviewIsInformed
<1>2. ASSUME NEW u \in People, GetFinding(u)
      PROVE  ReviewInv'
  <2> DEFINE page == [revision |-> Revision, status |-> finding, patch |-> proposal]
  <2>1. page \in Pages
      BY <1>0, ReviewTypes, ReviewAssumption DEF PageInv, Pages, Revision
  <2>2. page.revision = Len(trail) /\ page.status = finding
      BY DEF Revision
  <2>3. shown' = [shown EXCEPT ![u] = page]
      BY <1>2 DEF GetFinding
  <2> HIDE DEF page
  <2>4. shown' \in [People -> Pages]
      BY <1>0, <2>1, <2>3
  <2>5. ReviewTypeOK' /\ DecidedOnWhatWasSeen' /\ ResolvedWasAccepted'
      BY <1>0, <1>2, <2>4
         DEF GetFinding, DecidedOnWhatWasSeen, ResolvedWasAccepted, Written, ReviewTypeOK, Moves, Reviews, Pages
  <2>6. PageInv'
      BY <1>0, <1>2, <2>2, <2>3 DEF GetFinding, PageInv, DecidedOnWhatWasSeen
  <2> QED
      BY <2>5, <2>6 DEF ReviewInv, ReviewIsInformed
<1>3. ASSUME NEW u \in People, NEW named \in BOOLEAN, NEW s \in Slips, NEW verdict \in Verdicts,
             NEW old \in Slips \cup {NoReviewer}, SubmitReview(u, named, s, verdict, old)
      PROVE  ReviewInv'
  <2> DEFINE slip == [by |-> u, verdict |-> verdict, patch |-> shown[u].patch, supersedes |-> old]
  <2>1. slip \in Reviews
      BY <1>0, <1>3, ReviewAssumption DEF SubmitReview, Reviews, Pages
  <2>2. review' = [review EXCEPT ![s] = slip] /\ review[s] = NoReview
      BY <1>3 DEF SubmitReview
  <2> HIDE DEF slip
  <2>3. ReviewTypeOK'
      BY <1>0, <1>3, <2>1, <2>2 DEF SubmitReview, ReviewTypeOK, Moves, Reviews, Pages
  <2>4. DecidedOnWhatWasSeen' /\ PageInv'
      BY <1>0, <1>3 DEF SubmitReview, DecidedOnWhatWasSeen, PageInv
  <2>5. \A x \in Written : review'[x] = review[x]
      BY <1>0, <2>2 DEF Written
  <2>6. ResolvedWasAccepted'
      BY <1>0, <1>3, <2>5 DEF SubmitReview, ResolvedWasAccepted, Written
  <2> QED
      BY <2>3, <2>4, <2>6 DEF ReviewInv, ReviewIsInformed
<1>4. ASSUME NEW u \in People, NEW to \in Statuses, NEW s \in Slips \cup {NoReviewer},
             TransitionFinding(u, to, s)
      PROVE  ReviewInv'
  <2> DEFINE m == [from |-> finding, to |-> to, saw |-> shown[u].status, review |-> s]
  <2>1. m \in Moves
      BY <1>0, ReviewTypes DEF Moves, Pages
  <2>2. /\ m.from = finding /\ m.to = to /\ m.saw = shown[u].status /\ m.review = s
        /\ trail' = Append(trail, m) /\ finding' = to
      BY <1>4 DEF TransitionFinding
  <2> HIDE DEF m
  <2>3. /\ trail' \in Seq(Moves) /\ trail' # <<>> /\ Len(trail') = Len(trail) + 1
        /\ trail'[Len(trail) + 1] = m /\ \A i \in 1 .. Len(trail) : trail'[i] = trail[i]
      BY <1>0, <2>1, <2>2, MoveIsAppended
  <2>4. /\ finding # "none" /\ Len(trail) < MaxMoves /\ shown[u].revision = Len(trail)
        /\ to = "RESOLVED" => s \in Written /\ review[s].verdict = "ACCEPT"
        /\ UNCHANGED <<outcome, proposal, review, shown>>
      BY <1>4 DEF TransitionFinding, SameRevision, Revision, Cited
  <2>5. Len(trail) >= 1 /\ trail # <<>>
      BY <1>0, <2>4 DEF PageInv
  <2>6. finding = trail[Len(trail)].to
      BY <1>0, <2>5 DEF DecidedOnWhatWasSeen
  <2>7. shown[u].status = finding
      BY <1>0, <2>4, <2>5, <2>6 DEF PageInv
  <2>8. ReviewTypeOK'
      BY <1>0, <2>2, <2>3, <2>4 DEF ReviewTypeOK, Moves, Reviews, Pages
  <2>9. DecidedOnWhatWasSeen'
    <3>1. finding' = trail'[Len(trail')].to
        BY <2>2, <2>3
    <3>2. ASSUME NEW i \in 2 .. Len(trail')
          PROVE  trail'[i].from = trail'[i - 1].to /\ trail'[i].saw = trail'[i].from
      <4>1. CASE i = Len(trail) + 1
        <5>1. trail'[i] = m /\ trail'[i - 1] = trail[Len(trail)]
            BY <1>0, <2>3, <2>5, <4>1
        <5> QED
            BY <2>2, <2>6, <2>7, <5>1
      <4>2. CASE i # Len(trail) + 1
        <5>1. i \in 2 .. Len(trail) /\ trail'[i] = trail[i] /\ trail'[i - 1] = trail[i - 1]
            BY <1>0, <2>3, <4>2
        <5> QED
            BY <1>0, <5>1 DEF DecidedOnWhatWasSeen
      <4> QED
          BY <4>1, <4>2
    <3> QED
        BY <3>1, <3>2 DEF DecidedOnWhatWasSeen
  <2>10. ResolvedWasAccepted'
    <3>1. DOMAIN trail = 1 .. Len(trail) /\ DOMAIN trail' = 1 .. Len(trail')
        BY <1>0, <2>3
    <3>2. ASSUME NEW i \in DOMAIN trail', trail'[i].to = "RESOLVED"
          PROVE  trail'[i].review \in Written /\ review[trail'[i].review].verdict = "ACCEPT"
      <4>1. CASE i = Len(trail) + 1
          BY <2>2, <2>3, <2>4, <3>2, <4>1
      <4>2. CASE i # Len(trail) + 1
        <5>1. i \in 1 .. Len(trail) /\ trail'[i] = trail[i]
            BY <1>0, <2>3, <3>1, <4>2
        <5> QED
            BY <1>0, <3>1, <3>2, <5>1 DEF ResolvedWasAccepted
      <4> QED
          BY <4>1, <4>2
    <3> QED
        BY <2>4, <3>2 DEF ResolvedWasAccepted, Written
  <2>11. PageInv'
    <3>1. finding' # "none" /\ Len(trail') <= MaxMoves
        BY <1>0, <2>2, <2>3, <2>4, ReviewAssumption DEF Statuses
    <3>2. ASSUME NEW v \in People
          PROVE  /\ shown'[v].revision <= Len(trail')
                 /\ shown'[v].revision # 0 => shown'[v].status = trail'[shown'[v].revision].to
      <4>1. shown[v].revision \in 0 .. Len(trail)
          BY <1>0, ReviewAssumption DEF PageInv, Pages
      <4> QED
          BY <1>0, <2>3, <2>4, <4>1 DEF PageInv
    <3> QED
        BY <2>3, <3>1, <3>2 DEF PageInv
  <2> QED
      BY <2>8, <2>9, <2>10, <2>11 DEF ReviewInv, ReviewIsInformed
<1>5. CASE ProposeAgain
  <2>1. proposal' \in 1 .. MaxPatch
      BY <1>0, <1>5, ReviewTypes, ReviewAssumption DEF ProposeAgain
  <2> QED
      BY <1>0, <1>5, <2>1
         DEF ReviewTypeOK, ProposeAgain, ReviewInv, ReviewIsInformed, DecidedOnWhatWasSeen, ResolvedWasAccepted, Written, PageInv
<1>6. CASE UNCHANGED reviewVars
    BY <1>0, <1>6
       DEF ReviewTypeOK, reviewVars, ReviewInv, ReviewIsInformed, DecidedOnWhatWasSeen, ResolvedWasAccepted, Written, PageInv
<1> QED
    BY <1>1, <1>2, <1>3, <1>4, <1>5, <1>6 DEF ReviewNext

\* Whoever moved a finding (transition_finding) had been shown the status it was moved from, the
\* trail has no gap, and every RESOLVED in it cites a review that accepted a repair.
THEOREM InformedReview == ReviewSpec => []ReviewIsInformed
<1>1. ReviewInv => ReviewIsInformed
    BY DEF ReviewInv
<1> QED
    BY <1>1, InitiallyInformed, ReviewKept, PTL DEF ReviewSpec

-----------------------------------------------------------------------------
(* The write limiter: arithmetic.                                          *)

\* A bucket that gains what has come back in e ticks and loses a token stays within its due.
LEMMA ChargeArithmetic ==
    ASSUME NEW s \in Nat, NEW t \in Nat, NEW cap \in Nat, NEW unit \in Nat, NEW at \in Nat, NEW e \in Nat,
           NEW rate \in Nat, NEW u \in Nat, s * unit + t <= cap + at * rate, u <= t + e * rate
    PROVE  (s + 1) * unit + (u - unit) <= cap + (at + e) * rate
<1>1. (s + 1) * unit = s * unit + unit
    OBVIOUS
<1>2. (at + e) * rate = at * rate + e * rate
    OBVIOUS
<1> QED
    BY <1>1, <1>2

\* A quotient rounded up is enough.
LEMMA RoundedUp ==
    ASSUME NEW n \in Nat, NEW d \in Nat \ {0}
    PROVE  /\ (n + d - 1) \div d \in Nat
           /\ n <= ((n + d - 1) \div d) * d
<1> DEFINE q == (n + d - 1) \div d
           r == (n + d - 1) % d
<1>1. q \in Nat /\ r \in 0 .. d - 1 /\ n + d - 1 = q * d + r
    OBVIOUS
<1> HIDE DEF q, r
<1>2. n <= q * d
    BY <1>1
<1> QED
    BY <1>1, <1>2 DEF q

LEMMA Monotone ==
    ASSUME NEW a \in Nat, NEW b \in Nat, NEW rate \in Nat, a <= b
    PROVE  a * rate <= b * rate
    OBVIOUS

LEMMA CapacityIsPositive ==
    ASSUME NEW s \in Scopes
    PROVE  Capacity(s) \in Nat /\ Unit <= Capacity(s)
<1>1. Burst[s] \in Nat /\ 1 <= Burst[s] /\ Unit \in Nat
    BY LimiterAssumption
<1>2. 1 * Unit <= Burst[s] * Unit
    BY <1>1, Monotone
<1> QED
    BY <1>1, <1>2 DEF Capacity

\* What a bucket holds at a moment: never more than its capacity, all of it when the row is
\* missing, and otherwise what it held and what has come back since; an older moment adds nothing.
LEMMA TokensAtMoment ==
    ASSUME LimiterTypeOK, NEW s \in Scopes, NEW now \in Nat
    PROVE  /\ TokensAt(s, now) \in Nat /\ TokensAt(s, now) <= Capacity(s)
           /\ bucket[s] = NoBucket => TokensAt(s, now) = Capacity(s)
           /\ bucket[s] # NoBucket =>
                /\ Elapsed(s, now) \in Nat
                /\ TokensAt(s, now) <= bucket[s].tokens + Elapsed(s, now) * Rate
                /\ TokensAt(s, now) < Capacity(s) =>
                     TokensAt(s, now) = bucket[s].tokens + Elapsed(s, now) * Rate
<1>1. Capacity(s) \in Nat
    BY CapacityIsPositive
<1>2. CASE bucket[s] = NoBucket
    BY <1>1, <1>2 DEF TokensAt
<1>3. CASE bucket[s] # NoBucket
  <2>1. bucket[s].tokens \in Nat /\ bucket[s].at \in Nat
      BY <1>3, LimiterAssumption DEF LimiterTypeOK
  <2>2. PICK e \in Nat : e = Elapsed(s, now)
      BY <2>1 DEF Elapsed
  <2>3. PICK g \in Nat : g = e * Rate
      BY <2>2, LimiterAssumption
  <2>4. TokensAt(s, now) = IF Capacity(s) < bucket[s].tokens + g THEN Capacity(s) ELSE bucket[s].tokens + g
      BY <1>3, <2>2, <2>3 DEF TokensAt, Least
  <2> QED
      BY <1>1, <1>3, <2>1, <2>2, <2>3, <2>4
<1> QED
    BY <1>2, <1>3

\* Waiting as advised refills what is short: the seconds are rounded up.
LEMMA WaitSuffices ==
    ASSUME NEW s \in Scopes, NEW now \in Nat, TokensAt(s, now) \in Nat, TokensAt(s, now) < Unit
    PROVE  Wait(s, now) \in Nat /\ Unit <= TokensAt(s, now) + Wait(s, now) * Rate
<1>1. PICK short \in Nat : short = Unit - TokensAt(s, now)
    BY LimiterAssumption
<1>2. PICK q \in Nat : q = (short + Rate - 1) \div Rate /\ short <= q * Rate
    BY <1>1, RoundedUp, LimiterAssumption
<1>3. Wait(s, now) = IF short <= Rate THEN 1 ELSE q
    BY <1>1, <1>2 DEF Wait
<1>4. short <= Wait(s, now) * Rate
    BY <1>1, <1>2, <1>3, LimiterAssumption
<1>5. PICK w \in Nat : w = Wait(s, now) * Rate
    BY <1>2, <1>3, LimiterAssumption
<1> QED
    BY <1>1, <1>2, <1>3, <1>4, <1>5, LimiterAssumption

-----------------------------------------------------------------------------
(* The write limiter: the inductive invariant.  A charge may be late: its *)
(* moment is at most Late ticks old.                                       *)

\* A moment that a charge may still bring.
MayCharge(m) == m \in 0 .. clock /\ clock <= m + Late

\* What was ever taken from a bucket, with what it still holds, is its burst and what has come
\* back up to its last charge, counting twice the time that late charges gave it again; a pruned
\* bucket owes nothing to whatever moment may charge it next.
Ledger(s) ==
    /\ regained[s] <= Late * spent[s]
    /\ IF bucket[s] = NoBucket
       THEN \A m \in Nat : MayCharge(m) => spent[s] * Unit <= (m + regained[s]) * Rate
       ELSE /\ bucket[s].at <= clock
            /\ spent[s] * Unit + bucket[s].tokens <= Capacity(s) + (bucket[s].at + regained[s]) * Rate

\* The advice of a call stands as long as nothing is taken from the bucket that refused it,
\* and what was taken is never given back.
Advised(c) ==
    advice[c] # NoAdvice =>
        /\ advice[c].spent <= spent[advice[c].scope]
        /\ spent[advice[c].scope] = advice[c].spent => TokensAt(advice[c].scope, advice[c].until) >= Unit

LimiterInv ==
    /\ LimiterTypeOK
    /\ \A c \in Calls : moment[c] # Nothing => MayCharge(moment[c])
    /\ \A s \in Scopes : Ledger(s)
    /\ \A c \in Calls : Advised(c)

LEMMA InitiallyWithinRate == LimiterInit => LimiterInv
<1> SUFFICES ASSUME LimiterInit PROVE LimiterInv
    OBVIOUS
<1>1. LimiterTypeOK
  <2>1. \A s \in Scopes : bucket[s].tokens <= Capacity(s)
      BY CapacityIsPositive DEF LimiterInit, NoBucket
  <2> QED
      BY <2>1, LimiterAssumption DEF LimiterInit, LimiterTypeOK
<1>2. \A s \in Scopes : Ledger(s)
  <2> SUFFICES ASSUME NEW s \in Scopes PROVE Ledger(s)
      OBVIOUS
  <2>1. spent[s] = 0 /\ regained[s] = 0 /\ bucket[s] = NoBucket /\ 0 * Unit = 0 /\ Late * 0 = 0
      BY LimiterAssumption DEF LimiterInit
  <2>2. \A m \in Nat : (m + 0) * Rate \in Nat
      BY LimiterAssumption
  <2> QED
      BY <2>1, <2>2 DEF Ledger
<1> QED
    BY <1>1, <1>2 DEF LimiterInit, LimiterInv, Advised

\* A row never looks like a missing one.
LEMMA BucketTypes ==
    ASSUME LimiterTypeOK, NEW s \in Scopes
    PROVE  /\ bucket[s].tokens \in Nat /\ bucket[s].tokens <= Capacity(s) /\ spent[s] \in Nat
           /\ clock \in Nat /\ regained[s] \in Nat
           /\ bucket[s] # NoBucket => bucket[s].at \in 0 .. MaxClock
    BY LimiterAssumption DEF LimiterTypeOK, NoBucket

\* A charge leaves the bucket within its due, also one that is late.
LEMMA ChargeIsEntered ==
    ASSUME LimiterInv, NEW s \in Scopes, NEW now \in Nat, MayCharge(now), Unit <= TokensAt(s, now)
    PROVE  LET b == Charged(s, now)
               r == regained[s] + Before(s, now)
           IN  /\ b \in [tokens : Nat, at : 0 .. MaxClock] /\ b # NoBucket
               /\ b.tokens <= Capacity(s) /\ b.at = now /\ now <= clock
               /\ r \in Nat /\ r <= Late * (spent[s] + 1)
               /\ (spent[s] + 1) * Unit + b.tokens <= Capacity(s) + (now + r) * Rate
<1> DEFINE b == Charged(s, now)
<1>0. /\ LimiterTypeOK /\ Ledger(s) /\ clock \in Nat /\ clock \in 0 .. MaxClock /\ spent[s] \in Nat
      /\ bucket[s].tokens \in Nat /\ Unit \in Nat /\ Rate \in Nat /\ Capacity(s) \in Nat
      /\ regained[s] \in Nat /\ Late \in Nat /\ now <= clock /\ clock <= now + Late
    BY BucketTypes, CapacityIsPositive, LimiterAssumption DEF LimiterInv, LimiterTypeOK, MayCharge
<1>1. PICK t \in Nat : t = TokensAt(s, now) /\ t <= Capacity(s) /\ Unit <= t
    BY <1>0, TokensAtMoment
<1>2. b = [tokens |-> t - Unit, at |-> now]
    BY <1>1 DEF Charged
<1>3. t - Unit \in Nat /\ t - Unit <= Capacity(s)
    BY <1>0, <1>1
<1>4. PICK back \in Nat :
         /\ back = Before(s, now) /\ back <= Late
         /\ bucket[s] = NoBucket => back = 0
         /\ bucket[s] # NoBucket => now + back = bucket[s].at + Elapsed(s, now)
    BY <1>0, BucketTypes, LimiterAssumption DEF Before, Elapsed, Ledger
<1>a. PICK g \in Nat, n \in Nat, k \in Nat :
         g = regained[s] /\ n = spent[s] /\ k = bucket[s].tokens
    BY <1>0
<1>5. g + back <= Late * (n + 1)
  <2>1. g <= Late * n
      BY <1>0, <1>a DEF Ledger
  <2>2. Late * (n + 1) = Late * n + Late
      BY <1>0
  <2>3. PICK z \in Nat : z = Late * n
      BY <1>0
  <2> QED
      BY <1>0, <1>4, <2>1, <2>2, <2>3
<1>6. (n + 1) * Unit + (t - Unit) <= Capacity(s) + (now + (g + back)) * Rate
  <2>1. CASE bucket[s] = NoBucket
    <3>1. n * Unit <= (now + g) * Rate
        BY <1>0, <1>a, <2>1 DEF Ledger
    <3>2. back = 0
        BY <1>4, <2>1
    <3>3. (n + 1) * Unit = n * Unit + Unit
        BY <1>0
    <3>4. PICK x \in Nat, y \in Nat : x = n * Unit /\ y = (now + g) * Rate
        BY <1>0
    <3>5. now + (g + back) = now + g
        BY <3>2
    <3> QED
        BY <1>0, <1>1, <3>1, <3>3, <3>4, <3>5
  <2>2. CASE bucket[s] # NoBucket
    <3>0. bucket[s].at \in Nat
        BY <1>0, <2>2, BucketTypes, LimiterAssumption
    <3>1. PICK at \in Nat, e \in Nat : at = bucket[s].at /\ e = Elapsed(s, now)
        BY <1>0, <2>2, <3>0, TokensAtMoment
    <3>2. n * Unit + k <= Capacity(s) + (at + g) * Rate
        BY <1>0, <1>a, <2>2, <3>1 DEF Ledger
    <3>3. t <= k + e * Rate
        BY <1>0, <1>1, <1>a, <2>2, <3>1, TokensAtMoment
    <3>4. now + back = at + e
        BY <1>4, <2>2, <3>1
    <3>5. at + g + e = now + (g + back)
        BY <3>4
    <3>6. (n + 1) * Unit + (t - Unit) <= Capacity(s) + (at + g + e) * Rate
        BY <1>0, <1>1, <3>1, <3>2, <3>3, ChargeArithmetic
    <3> QED
        BY <3>5, <3>6
  <2> QED
      BY <2>1, <2>2
<1>7. b # NoBucket
    BY <1>0, <1>2, LimiterAssumption DEF NoBucket
<1>8. regained[s] + Before(s, now) = g + back /\ g + back \in Nat /\ spent[s] = n
    BY <1>4, <1>a
<1>9. b \in [tokens : Nat, at : 0 .. MaxClock] /\ b.tokens = t - Unit /\ b.at = now
    BY <1>0, <1>2, <1>3, LimiterAssumption
<1> HIDE DEF b
<1> QED
    BY <1>0, <1>3, <1>5, <1>6, <1>7, <1>8, <1>9 DEF b

\* A bucket idle long enough to be pruned was full, and stays so for a late moment: forgetting
\* it gives nothing away.
LEMMA PrunedWasFull ==
    ASSUME LimiterInv, NEW s \in Scopes, bucket[s] # NoBucket, bucket[s].at + IdleFor < clock,
           NEW m \in Nat, MayCharge(m)
    PROVE  spent[s] * Unit <= (m + regained[s]) * Rate
<1>1. /\ bucket[s].at \in Nat /\ clock \in Nat /\ spent[s] \in Nat /\ bucket[s].tokens \in Nat
      /\ Unit \in Nat /\ Rate \in Nat /\ IdleFor \in Nat /\ Capacity(s) \in Nat
      /\ Late \in Nat /\ regained[s] \in Nat /\ clock <= m + Late
      /\ spent[s] * Unit + bucket[s].tokens <= Capacity(s) + (bucket[s].at + regained[s]) * Rate
    BY BucketTypes, CapacityIsPositive, LimiterAssumption DEF LimiterInv, Ledger, MayCharge
<1>2. Capacity(s) + Late * Rate <= IdleFor * Rate
    BY LimiterAssumption
<1>3. PICK a \in Nat, e \in Nat, n \in Nat :
         a = bucket[s].at + regained[s] /\ e = m + regained[s] /\ n = spent[s]
    BY <1>1
<1>4. (a + IdleFor) * Rate <= (e + Late) * Rate
    BY <1>1, <1>3, Monotone
<1>5. (a + IdleFor) * Rate = a * Rate + IdleFor * Rate /\ (e + Late) * Rate = e * Rate + Late * Rate
    BY <1>1, <1>3
<1>6. PICK x \in Nat, y \in Nat, w \in Nat : x = n * Unit /\ y = a * Rate /\ w = e * Rate
    BY <1>1
<1>7. PICK z \in Nat, l \in Nat : z = IdleFor * Rate /\ l = Late * Rate
    BY <1>1
<1>8. x + bucket[s].tokens <= Capacity(s) + y /\ Capacity(s) + l <= z /\ y + z <= w + l
    BY <1>1, <1>2, <1>3, <1>4, <1>5, <1>6, <1>7
<1>9. x <= w
    BY <1>1, <1>8
<1> QED
    BY <1>3, <1>6, <1>9

\* The advice of a call stands when neither it nor its bucket changes, and when the bucket
\* is charged or pruned.
LEMMA AdviceStands ==
    ASSUME LimiterInv, NEW c \in Calls, advice'[c] = advice[c],
           \A s \in Scopes : \/ spent'[s] = spent[s] /\ bucket'[s] \in {bucket[s], NoBucket}
                             \/ spent'[s] = spent[s] + 1
    PROVE  Advised(c)'
<1> SUFFICES ASSUME advice[c] # NoAdvice PROVE Advised(c)'
    BY DEF Advised
<1>1. PICK told : told = advice[c]
    OBVIOUS
<1>2. told.scope \in Scopes /\ told.until \in Nat /\ told.spent \in Nat /\ LimiterTypeOK /\ Advised(c)
    BY <1>1 DEF LimiterInv, LimiterTypeOK
<1>3. PICK s \in Scopes : s = told.scope
    BY <1>2
<1>4. told.spent <= spent[s] /\ (spent[s] = told.spent => TokensAt(s, told.until) >= Unit) /\ spent[s] \in Nat
    BY <1>1, <1>2, <1>3, BucketTypes DEF Advised
<1>5. CASE spent'[s] = spent[s] + 1
    BY <1>1, <1>2, <1>3, <1>4, <1>5 DEF Advised
<1>6. CASE spent'[s] = spent[s] /\ bucket'[s] = bucket[s]
    BY <1>1, <1>2, <1>3, <1>4, <1>6 DEF Advised, TokensAt, Elapsed
<1>7. CASE spent'[s] = spent[s] /\ bucket'[s] = NoBucket
    BY <1>1, <1>2, <1>3, <1>4, <1>7, CapacityIsPositive, LimiterAssumption DEF Advised, TokensAt
<1> QED
    BY <1>3, <1>5, <1>6, <1>7

LEMMA LimiterKept ==
    ASSUME LimiterInv, [LimiterNext]_limiterVars
    PROVE  LimiterInv'
<1>0. /\ LimiterTypeOK /\ clock \in Nat /\ clock \in 0 .. MaxClock /\ Workspace \in Scopes
      /\ \A c \in Calls : PrincipalOf[c] \in Scopes
      /\ \A c \in Calls : moment[c] # Nothing => MayCharge(moment[c])
      /\ \A s \in Scopes : Ledger(s) /\ regained[s] \in Nat
      /\ Late \in Nat /\ MaxClock \in Nat /\ Nothing \notin Nat
    BY LimiterAssumption DEF LimiterInv, LimiterTypeOK, Scopes
<1>1. ASSUME NEW c \in Calls, Arrive(c)
      PROVE  LimiterInv'
  <2>1. LimiterTypeOK'
      BY <1>0, <1>1 DEF Arrive, LimiterTypeOK
  <2>2. \A d \in Calls : (moment[d] # Nothing => MayCharge(moment[d]))'
      BY <1>0, <1>1 DEF Arrive, LimiterTypeOK, MayCharge
  <2>3. \A s \in Scopes : Ledger(s)'
      BY <1>0, <1>1 DEF Arrive, Ledger, MayCharge
  <2>4. \A d \in Calls : Advised(d)'
      BY <1>1, AdviceStands DEF Arrive
  <2> QED
      BY <2>1, <2>2, <2>3, <2>4 DEF LimiterInv
<1>2. ASSUME NEW c \in Calls, Decide(c)
      PROVE  LimiterInv'
  <2>0. PICK now \in 0 .. MaxClock : now = moment[c]
      BY <1>0, <1>2 DEF Decide, LimiterTypeOK
  <2> DEFINE two == {PrincipalOf[c], Workspace}
             empty == {s \in two : TokensAt(s, now) < Unit}
             refuser == IF PrincipalOf[c] \in empty THEN PrincipalOf[c] ELSE Workspace
  <2>1. MayCharge(now) /\ now \in Nat /\ two \subseteq Scopes
      BY <1>0, <1>2, <2>0 DEF Decide
  <2>2. /\ moment' = [moment EXCEPT ![c] = Nothing] /\ clock' = clock
        /\ IF empty = {}
           THEN /\ bucket' = [s \in Scopes |-> IF s \in two THEN Charged(s, now) ELSE bucket[s]]
                /\ spent' = [s \in Scopes |-> IF s \in two THEN spent[s] + 1 ELSE spent[s]]
                /\ regained' = [s \in Scopes |-> regained[s] + Before(s, bucket'[s].at)]
                /\ advice' = [advice EXCEPT ![c] = NoAdvice]
           ELSE /\ advice' = [advice EXCEPT ![c] =
                     [scope |-> refuser, until |-> clock + Wait(refuser, now), spent |-> spent[refuser]]]
                /\ UNCHANGED <<bucket, spent, regained>>
      BY <1>2, <2>0 DEF Decide
  <2>3. /\ moment' \in [Calls -> 0 .. MaxClock \cup {Nothing}]
        /\ \A d \in Calls : (moment[d] # Nothing => MayCharge(moment[d]))'
      BY <1>0, <2>2 DEF LimiterTypeOK, MayCharge
  <2>4. CASE empty = {}
    <3>1. \A s \in two : Unit <= TokensAt(s, now)
      <4> SUFFICES ASSUME NEW s \in two PROVE Unit <= TokensAt(s, now)
          OBVIOUS
      <4>1. TokensAt(s, now) \in Nat /\ ~(TokensAt(s, now) < Unit)
          BY <1>0, <2>1, <2>4, TokensAtMoment
      <4> QED
          BY <4>1, LimiterAssumption
    <3> HIDE DEF two, empty
    <3>2. /\ \A s \in two : bucket'[s] = Charged(s, now) /\ spent'[s] = spent[s] + 1
          /\ \A s \in Scopes \ two : bucket'[s] = bucket[s] /\ spent'[s] = spent[s]
          /\ \A s \in Scopes : regained'[s] = regained[s] + Before(s, bucket'[s].at)
          /\ DOMAIN bucket' = Scopes /\ DOMAIN spent' = Scopes
          /\ bucket' = [s \in Scopes |-> bucket'[s]] /\ spent' = [s \in Scopes |-> spent'[s]]
          /\ regained' = [s \in Scopes |-> regained'[s]]
        BY <2>1, <2>2, <2>4
    <3>3. ASSUME NEW s \in Scopes
          PROVE  /\ bucket'[s] \in [tokens : Nat, at : 0 .. MaxClock] \cup {NoBucket}
                 /\ bucket'[s].tokens <= Capacity(s) /\ spent'[s] \in Nat /\ regained'[s] \in Nat
                 /\ Ledger(s)'
      <4>1. CASE s \in two
        <5>1. PICK b, r : b = Charged(s, now) /\ r = regained[s] + Before(s, now)
            OBVIOUS
        <5>2. /\ b \in [tokens : Nat, at : 0 .. MaxClock] /\ b # NoBucket
              /\ b.tokens <= Capacity(s) /\ b.at = now /\ now <= clock
              /\ r \in Nat /\ r <= Late * (spent[s] + 1)
              /\ (spent[s] + 1) * Unit + b.tokens <= Capacity(s) + (now + r) * Rate
            BY <2>1, <3>1, <4>1, <5>1, ChargeIsEntered
        <5>3. bucket'[s] = b /\ spent'[s] = spent[s] + 1 /\ regained'[s] = r
            BY <3>2, <4>1, <5>1, <5>2
        <5>4. spent[s] \in Nat
            BY <1>0, BucketTypes
        <5>5. Ledger(s)'
            BY <1>0, <2>2, <5>2, <5>3 DEF Ledger, Capacity
        <5> QED
            BY <5>2, <5>3, <5>4, <5>5
      <4>2. CASE s \notin two
        <5>1. /\ bucket'[s] = bucket[s] /\ spent'[s] = spent[s]
              /\ regained'[s] = regained[s] + Before(s, bucket[s].at)
            BY <3>2, <4>2
        <5>2. Before(s, bucket[s].at) = 0
            BY <1>0, BucketTypes, LimiterAssumption DEF Before
        <5>3. regained'[s] = regained[s]
            BY <1>0, <5>1, <5>2
        <5> QED
            BY <1>0, <2>2, <5>1, <5>3 DEF Ledger, LimiterTypeOK, Capacity, MayCharge
      <4> QED
          BY <4>1, <4>2
    <3>4. LimiterTypeOK'
        BY <1>0, <2>2, <2>3, <2>4, <3>2, <3>3 DEF LimiterTypeOK, Capacity
    <3>5. \A d \in Calls : Advised(d)'
      <4>1. \A d \in Calls \ {c} : advice'[d] = advice[d]
          BY <1>0, <2>2, <2>4 DEF LimiterTypeOK
      <4>2. advice'[c] = NoAdvice
          BY <1>0, <2>2, <2>4 DEF LimiterTypeOK
      <4> QED
          BY <3>2, <4>1, <4>2, AdviceStands DEF Advised
    <3> QED
        BY <2>3, <3>3, <3>4, <3>5 DEF LimiterInv
  <2>5. CASE empty # {}
    <3>1. PICK r \in Scopes : r = refuser /\ TokensAt(r, now) < Unit
        BY <2>1, <2>5
    <3> HIDE DEF two, empty, refuser
    <3>2. PICK told : told = [scope |-> r, until |-> clock + Wait(r, now), spent |-> spent[r]]
        OBVIOUS
    <3>3. /\ advice' = [advice EXCEPT ![c] = told] /\ UNCHANGED <<bucket, spent, regained, clock>>
        BY <2>2, <2>5, <3>1, <3>2
    <3>4. TokensAt(r, now) \in Nat /\ spent[r] \in Nat
        BY <1>0, <2>1, TokensAtMoment, BucketTypes
    <3>5. /\ Wait(r, now) \in Nat /\ Unit <= TokensAt(r, now) + Wait(r, now) * Rate
        BY <1>0, <2>1, <3>1, <3>4, WaitSuffices
    <3>6. /\ told.scope = r /\ told.until = clock + Wait(r, now) /\ told.spent = spent[r]
          /\ told.until \in Nat /\ told \in [scope : Scopes, until : Nat, spent : Nat]
        BY <1>0, <3>2, <3>4, <3>5
    <3>7. LimiterTypeOK'
        BY <1>0, <2>3, <3>3, <3>6 DEF LimiterTypeOK, Capacity
    <3>8. \A s \in Scopes : Ledger(s)'
        BY <1>0, <3>3 DEF Ledger, Capacity, MayCharge
    <3>9. TokensAt(r, told.until) >= Unit
      <4>1. CASE bucket[r] = NoBucket
          BY <1>0, <4>1, <3>6, TokensAtMoment, CapacityIsPositive, LimiterAssumption
      <4>2. CASE bucket[r] # NoBucket
        <5>1. bucket[r].at \in Nat /\ bucket[r].at <= clock /\ bucket[r].tokens \in Nat /\ now <= clock
            BY <1>0, <2>1, <4>2, BucketTypes, LimiterAssumption DEF Ledger, MayCharge
        <5>2. TokensAt(r, now) < Capacity(r)
            BY <3>1, <3>4, CapacityIsPositive, LimiterAssumption
        <5>3. PICK w \in Nat, e \in Nat, f \in Nat :
                 w = Wait(r, now) /\ e = Elapsed(r, now) /\ f = Elapsed(r, told.until)
            BY <1>0, <2>1, <3>5, <3>6, <4>2, TokensAtMoment
        <5>4. TokensAt(r, now) = bucket[r].tokens + e * Rate
            BY <1>0, <2>1, <4>2, <5>2, <5>3, TokensAtMoment
        <5>5. e + w <= f
            BY <1>0, <2>1, <3>6, <5>1, <5>3 DEF Elapsed
        <5>6. (e + w) * Rate <= f * Rate /\ (e + w) * Rate = e * Rate + w * Rate
            BY <5>3, <5>5, Monotone, LimiterAssumption
        <5>7. /\ TokensAt(r, told.until) \in Nat /\ TokensAt(r, told.until) <= Capacity(r)
              /\ TokensAt(r, told.until) < Capacity(r) =>
                   TokensAt(r, told.until) = bucket[r].tokens + f * Rate
            BY <1>0, <3>6, <4>2, <5>3, TokensAtMoment
        <5>8. PICK x \in Nat, y \in Nat, z \in Nat : x = e * Rate /\ y = w * Rate /\ z = f * Rate
            BY <5>3, LimiterAssumption
        <5>9. Unit <= bucket[r].tokens + z
            BY <3>4, <3>5, <5>1, <5>3, <5>4, <5>6, <5>8, LimiterAssumption
        <5> QED
            BY <5>1, <5>7, <5>8, <5>9, CapacityIsPositive, LimiterAssumption
      <4> QED
          BY <4>1, <4>2
    <3>10. Advised(c)'
      <4>1. advice'[c] = told
          BY <1>0, <3>3 DEF LimiterTypeOK
      <4>2. told.spent <= spent'[told.scope]
          BY <3>3, <3>4, <3>6
      <4> QED
          BY <3>3, <3>6, <3>9, <4>1, <4>2 DEF Advised, TokensAt, Elapsed
    <3>11. \A d \in Calls \ {c} : Advised(d)'
        BY <1>0, <3>3, AdviceStands DEF LimiterTypeOK
    <3> QED
        BY <2>3, <3>7, <3>8, <3>10, <3>11 DEF LimiterInv
  <2> QED
      BY <2>4, <2>5
<1>3. CASE Prune
  <2>1. /\ \A s \in Scopes : \/ bucket'[s] = bucket[s]
                             \/ /\ bucket'[s] = NoBucket
                                /\ bucket[s] # NoBucket /\ bucket[s].at + IdleFor < clock
        /\ bucket' = [s \in Scopes |-> bucket'[s]]
        /\ UNCHANGED <<clock, moment, advice, spent, regained>>
      BY <1>3 DEF Prune
  <2>2. LimiterTypeOK'
    <3>1. \A s \in Scopes : /\ bucket'[s] \in [tokens : Nat, at : 0 .. MaxClock] \cup {NoBucket}
                            /\ bucket'[s].tokens <= Capacity(s)
        BY <1>0, <2>1, CapacityIsPositive DEF LimiterTypeOK, NoBucket
    <3> QED
        BY <1>0, <2>1, <3>1 DEF LimiterTypeOK, Capacity
  <2>3. \A s \in Scopes : Ledger(s)'
    <3> SUFFICES ASSUME NEW s \in Scopes PROVE Ledger(s)'
        OBVIOUS
    <3>1. CASE bucket'[s] = bucket[s]
        BY <1>0, <2>1, <3>1 DEF Ledger, Capacity, MayCharge
    <3>2. CASE bucket'[s] = NoBucket /\ bucket[s] # NoBucket /\ bucket[s].at + IdleFor < clock
      <4>1. ASSUME NEW m \in Nat, MayCharge(m) PROVE spent[s] * Unit <= (m + regained[s]) * Rate
          BY <3>2, <4>1, PrunedWasFull
      <4> QED
          BY <1>0, <2>1, <3>2, <4>1 DEF Ledger, MayCharge
    <3> QED
        BY <2>1, <3>1, <3>2
  <2>4. \A d \in Calls : Advised(d)'
      BY <2>1, AdviceStands
  <2> QED
      BY <1>0, <2>1, <2>2, <2>3, <2>4 DEF LimiterInv, MayCharge
<1>4. CASE Tick
  <2>1. /\ clock' = clock + 1 /\ clock < MaxClock /\ UNCHANGED <<bucket, moment, advice, spent, regained>>
        /\ \A c \in Calls : moment[c] # Nothing => clock < moment[c] + Late
      BY <1>4 DEF Tick
  <2>2. \A c \in Calls : (moment[c] # Nothing => MayCharge(moment[c]))'
      BY <1>0, <2>1 DEF MayCharge
  <2>3. LimiterTypeOK'
      BY <1>0, <2>1, LimiterAssumption DEF LimiterTypeOK, Capacity
  <2>4. \A s \in Scopes : Ledger(s)'
    <3> SUFFICES ASSUME NEW s \in Scopes PROVE Ledger(s)'
        OBVIOUS
    <3>1. CASE bucket[s] # NoBucket
        BY <1>0, <2>1, <3>1, BucketTypes, LimiterAssumption DEF Ledger, Capacity
    <3>2. CASE bucket[s] = NoBucket
      <4>1. ASSUME NEW m \in Nat, clock + 1 <= m + Late, m <= clock + 1
            PROVE  spent[s] * Unit <= (m + regained[s]) * Rate
        <5>1. CASE m <= clock
            BY <1>0, <3>2, <4>1, <5>1 DEF Ledger, MayCharge
        <5>2. CASE m = clock + 1
          <6>1. spent[s] * Unit <= (clock + regained[s]) * Rate
              BY <1>0, <3>2 DEF Ledger, MayCharge
          <6>2. (clock + regained[s]) * Rate <= (m + regained[s]) * Rate
              BY <1>0, <5>2, Monotone, LimiterAssumption
          <6>3. PICK n \in Nat, e \in Nat, f \in Nat :
                   n = spent[s] /\ e = clock + regained[s] /\ f = m + regained[s]
              BY <1>0, BucketTypes
          <6>4. PICK x \in Nat, y \in Nat, z \in Nat : x = n * Unit /\ y = e * Rate /\ z = f * Rate
              BY LimiterAssumption
          <6> QED
              BY <6>1, <6>2, <6>3, <6>4
        <5> QED
            BY <1>0, <4>1, <5>1, <5>2
      <4> QED
          BY <1>0, <2>1, <3>2, <4>1 DEF Ledger, MayCharge
    <3> QED
        BY <3>1, <3>2
  <2>5. \A d \in Calls : Advised(d)'
      BY <2>1, AdviceStands
  <2> QED
      BY <2>2, <2>3, <2>4, <2>5 DEF LimiterInv
<1>5. CASE UNCHANGED limiterVars
  <2>1. \A d \in Calls : Advised(d)'
      BY <1>5, AdviceStands DEF limiterVars
  <2> QED
      BY <1>0, <1>5, <2>1 DEF limiterVars, LimiterInv, LimiterTypeOK, Ledger, Capacity, MayCharge
<1> QED
    BY <1>1, <1>2, <1>3, <1>4, <1>5 DEF LimiterNext

\* However late calls charge their buckets, up to Late ticks, no principal and no workspace is
\* admitted beyond its burst, what has come back, and the time late charges gave it again, at most
\* Late for each admission; whichever idle bucket is pruned, and a refused call that waits as it
\* was told finds its token (charge, prune_idle_buckets).
THEOREM LimiterIsExact == LimiterSpec => []LimiterHolds
<1>1. LimiterInv => LimiterHolds
  <2> SUFFICES ASSUME LimiterInv PROVE LimiterHolds
      OBVIOUS
  <2>1. RateAccounted
    <3> SUFFICES ASSUME NEW s \in Scopes
                 PROVE  spent[s] * Unit <= Capacity(s) + (clock + regained[s]) * Rate
        BY DEF RateAccounted, LimiterInv, Ledger
    <3>1. /\ Ledger(s) /\ spent[s] \in Nat /\ clock \in Nat /\ bucket[s].tokens \in Nat
          /\ (bucket[s] # NoBucket => bucket[s].at \in Nat) /\ Capacity(s) \in Nat
          /\ regained[s] \in Nat /\ Late \in Nat
        BY BucketTypes, CapacityIsPositive, LimiterAssumption DEF LimiterInv
    <3>2. CASE bucket[s] = NoBucket
      <4>1. PICK x \in Nat, y \in Nat : x = spent[s] * Unit /\ y = (clock + regained[s]) * Rate
          BY <3>1, LimiterAssumption
      <4>2. MayCharge(clock)
          BY <3>1 DEF MayCharge
      <4> QED
          BY <3>1, <3>2, <4>1, <4>2 DEF Ledger
    <3>3. CASE bucket[s] # NoBucket
      <4>1. PICK a \in Nat, e \in Nat :
               a = bucket[s].at + regained[s] /\ e = clock + regained[s] /\ a <= e
          BY <3>1, <3>3 DEF Ledger
      <4>2. a * Rate <= e * Rate
          BY <4>1, Monotone, LimiterAssumption
      <4>3. PICK x \in Nat, y \in Nat, z \in Nat : x = spent[s] * Unit /\ y = e * Rate /\ z = a * Rate
          BY <3>1, <4>1, LimiterAssumption
      <4> QED
          BY <3>1, <3>3, <4>1, <4>2, <4>3 DEF Ledger
    <3> QED
        BY <3>2, <3>3
  <2>2. AdviceHolds
      BY DEF LimiterInv, Advised, AdviceHolds
  <2> QED
      BY <2>1, <2>2 DEF LimiterInv, LimiterHolds
<1>2. LimiterInv /\ [LimiterNext]_limiterVars => LimiterInv'
    BY LimiterKept
<1> QED
    BY <1>1, <1>2, InitiallyWithinRate, PTL DEF LimiterSpec

-----------------------------------------------------------------------------
(* The admission of runs: the inductive invariant.                         *)

\* The stages of a transaction that holds the lock of its sealed manifest.
PastSeal == {"sealed", "queued", "charged", "free"}
RowStatus == InFlight \cup {"ended"}

\* The rows a request and a candidate leave.
RequestRow(r, s) == [run |-> RunOf(r), status |-> s, charge |-> EventKey(r), by |-> r]
CandidateRow(c, s) ==
    [run |-> c, status |-> s, charge |-> <<"candidate", c>>,
     by |-> [id |-> c, principal |-> c, key |-> NoKey, manifest |-> c]]
RowsInv ==
    \A a \in admitted : \/ \E r \in Requests, s \in RowStatus : a = RequestRow(r, s)
                        \/ \E c \in CandidateRuns, s \in RowStatus : a = CandidateRow(c, s)

\* A keyed request's run is the one its operation answers with; a request without a key
\* that was performed is over.
AnsweredInv ==
    /\ \A a \in Requested :
          /\ a.by.key # NoKey => /\ Identity(a.by) \in DOMAIN operation
                                 /\ operation[Identity(a.by)] = [body |-> a.by.manifest, run |-> a.run]
          /\ a.by.key = NoKey => tx[a.by] = "done"
          /\ a.charge \in counted
    /\ \A i \in DOMAIN operation :
          \E a \in admitted : a.run = operation[i].run /\ a.by.manifest = operation[i].body
    /\ \A r \in Requests : tx[r] = "replayed" =>
          Identity(r) \in DOMAIN operation /\ operation[Identity(r)].body = r.manifest

\* The unique index entry: one transaction at a time performs an identity, and only a new one.
IndexInv ==
    /\ \A r \in Requests : InTx(r) /\ r.key # NoKey => Identity(r) \notin DOMAIN operation
    /\ \A r, q \in Requests : InTx(r) /\ InTx(q) /\ r.key # NoKey /\ q.key # NoKey
                              /\ Identity(r) = Identity(q) => r = q

\* The row lock of a canonical manifest: one transaction at a time consumes it, unused.
SealInv ==
    /\ \A r \in Requests : tx[r] \in PastSeal /\ r.manifest \in Canonical => r.manifest \notin Runs
    /\ \A r, q \in Requests : tx[r] \in PastSeal /\ tx[q] \in PastSeal /\ r.manifest = q.manifest
                              /\ r.manifest \in Canonical => r = q

\* The advisory lock of the budget: its holder finds the room it was admitted to.
Working == {a \in Requested : a.status \in InFlight}
BudgetInv ==
    /\ IsFiniteSet(admitted) /\ IsFiniteSet(usage)
    /\ \A r, q \in Requests : HoldsBudget(r) /\ HoldsBudget(q) => r = q
    /\ \A r \in Requests : tx[r] = "charged" =>
          /\ Cardinality(Working) + 1 <= entitlement.limits.concurrent
          /\ Cardinality(usage) + 1 <= entitlement.limits.daily

AdmissionInv ==
    /\ AdmissionTypeOK /\ RowsInv /\ OneRunPerSeal
    /\ AnsweredInv /\ IndexInv /\ SealInv /\ BudgetInv

-----------------------------------------------------------------------------
(* What follows from the invariant about rows.                             *)

LEMMA RunIdsDiffer ==
    ASSUME NEW r \in Requests
    PROVE  /\ RunOf(r) \notin CandidateRuns
           /\ \A q \in Requests : RunOf(r) = RunOf(q) =>
                 r = q \/ (r.manifest = q.manifest /\ r.manifest \in Canonical)
    BY AdmissionAssumption DEF RunOf

\* A requested row is what its request left.
LEMMA RequestedRow ==
    ASSUME RowsInv, NEW a \in admitted
    PROVE  /\ a \in Requested => /\ a.by \in Requests /\ a.status \in RowStatus
                                 /\ a = RequestRow(a.by, a.status)
                                 /\ a.run = RunOf(a.by) /\ a.charge = EventKey(a.by)
           /\ a \notin Requested => a.run \in CandidateRuns
<1>1. CASE \E r \in Requests, s \in RowStatus : a = RequestRow(r, s)
    BY <1>1, RunIdsDiffer DEF RequestRow, Requested
<1>2. CASE \E c \in CandidateRuns, s \in RowStatus : a = CandidateRow(c, s)
    BY <1>2 DEF CandidateRow, Requested
<1> QED
    BY <1>1, <1>2 DEF RowsInv

\* A transaction that goes on to create a run finds its identity unused.
LEMMA RunIsNew ==
    ASSUME AdmissionInv, NEW r \in Requests, tx[r] \in PastSeal
    PROVE  RunOf(r) \notin Runs
<1> SUFFICES ASSUME NEW a \in admitted, a.run = RunOf(r)
             PROVE  FALSE
    BY DEF Runs
<1>1. a \in Requested
    BY RunIdsDiffer DEF Requested
<1>2. a.by \in Requests /\ a.run = RunOf(a.by)
    BY <1>1, RequestedRow DEF AdmissionInv
<1>3. CASE r.manifest \in Canonical
    BY <1>3 DEF AdmissionInv, SealInv, Runs, RunOf
<1>4. CASE r.manifest \notin Canonical
  <2>1. a.by = r
      BY <1>2, <1>4, RunIdsDiffer
  <2>2. InTx(r) /\ tx[r] # "done"
      BY DEF InTx, PastSeal
  <2> QED
      BY <1>1, <2>1, <2>2 DEF AdmissionInv, AnsweredInv, IndexInv
<1> QED
    BY <1>3, <1>4

\* One element more, and one less.
LEMMA OneMore ==
    ASSUME NEW S, NEW x, NEW T, IsFiniteSet(S), T = S \cup {x}
    PROVE  /\ IsFiniteSet(T) /\ Cardinality(T) \in Nat /\ Cardinality(S) \in Nat
           /\ Cardinality(T) <= Cardinality(S) + 1
<1>1. /\ IsFiniteSet(T) /\ Cardinality(T) = IF x \in S THEN Cardinality(S) ELSE Cardinality(S) + 1
    BY FS_AddElement
<1>2. Cardinality(S) \in Nat
    BY FS_CardinalityType
<1> QED
    BY <1>1, <1>2

LEMMA OneLess ==
    ASSUME NEW S, NEW x, NEW T, IsFiniteSet(S), T = S \ {x}, x \in S
    PROVE  /\ IsFiniteSet(T) /\ Cardinality(T) \in Nat /\ Cardinality(S) \in Nat
           /\ Cardinality(T) + 1 = Cardinality(S)
<1>1. IsFiniteSet(T) /\ Cardinality(T) = Cardinality(S) - 1
    BY FS_RemoveElement
<1>2. Cardinality(S) \in Nat /\ Cardinality(T) \in Nat
    BY <1>1, FS_CardinalityType
<1> QED
    BY <1>1, <1>2

LEMMA InitiallyExact == AdmissionInit => AdmissionInv
<1> SUFFICES ASSUME AdmissionInit PROVE AdmissionInv
    OBVIOUS
<1>1. DOMAIN operation = {}
    BY DEF AdmissionInit
<1>2. AdmissionTypeOK
    BY <1>1, AdmissionAssumption DEF AdmissionInit, AdmissionTypeOK
<1>3. RowsInv /\ OneRunPerSeal /\ AnsweredInv /\ IndexInv /\ SealInv
    BY <1>1 DEF AdmissionInit, RowsInv, OneRunPerSeal, AnsweredInv, IndexInv, SealInv, Requested, InTx, PastSeal
<1>4. BudgetInv
    BY FS_EmptySet DEF AdmissionInit, BudgetInv, HoldsBudget
<1> QED
    BY <1>2, <1>3, <1>4 DEF AdmissionInv

-----------------------------------------------------------------------------
(* Steps of one request that write nothing but its own transaction.        *)

Stages == {"idle", "reserved", "sealed", "queued", "charged", "free", "done", "refused", "replayed"}

\* What a move of one transaction leaves alone, and what it must bring.
LEMMA StageMoves ==
    ASSUME AdmissionInv, NEW r \in Requests, NEW to \in Stages,
           tx' = [tx EXCEPT ![r] = to],
           UNCHANGED <<operation, admitted, usage, counted, entitlement, current>>,
           to = "done" \/ r.key # NoKey \/ tx[r] # "done",
           to \in {"reserved", "sealed", "queued", "charged", "free"} /\ ~InTx(r) /\ r.key # NoKey =>
              IdentityFree(r) /\ Identity(r) \notin DOMAIN operation,
           to \in PastSeal /\ tx[r] \notin PastSeal => SealUsable(r),
           to \in {"charged", "free"} => \A q \in Requests : ~HoldsBudget(q),
           to = "charged" => RoomFor,
           to = "replayed" => Identity(r) \in DOMAIN operation /\ operation[Identity(r)].body = r.manifest
    PROVE  AdmissionInv'
<1>0. /\ \A q \in Requests \ {r} : tx'[q] = tx[q]
      /\ tx'[r] = to
    BY DEF AdmissionInv, AdmissionTypeOK
<1>1. AdmissionTypeOK'
    BY DEF AdmissionInv, AdmissionTypeOK, Stages, Identities, Identity, Manifests
<1>2. RowsInv' /\ OneRunPerSeal' /\ Requested' = Requested /\ Runs' = Runs
    BY DEF AdmissionInv, RowsInv, OneRunPerSeal, Requested, Runs
<1>3. AnsweredInv'
  <2>1. ASSUME NEW a \in Requested, a.by.key = NoKey
        PROVE  tx'[a.by] = "done"
    <3>1. tx[a.by] = "done" /\ a.by \in Requests
        BY <2>1, RequestedRow DEF AdmissionInv, AnsweredInv, Requested
    <3> QED
        BY <1>0, <2>1, <3>1
  <2>2. \A q \in Requests : tx'[q] = "replayed" =>
            Identity(q) \in DOMAIN operation /\ operation[Identity(q)].body = q.manifest
      BY <1>0 DEF AdmissionInv, AnsweredInv
  <2> QED
      BY <1>2, <2>1, <2>2 DEF AdmissionInv, AnsweredInv
<1>4. IndexInv'
  <2>1. \A q \in Requests \ {r} : InTx(q)' <=> InTx(q)
      BY <1>0 DEF InTx
  <2>2. InTx(r)' => to \in {"reserved", "sealed", "queued", "charged", "free"}
      BY <1>0 DEF InTx, Stages
  <2>3. CASE InTx(r)' /\ ~InTx(r) /\ r.key # NoKey
      BY <2>1, <2>2, <2>3 DEF AdmissionInv, IndexInv, IdentityFree
  <2>4. CASE ~InTx(r)' \/ InTx(r) \/ r.key = NoKey
      BY <2>1, <2>4 DEF AdmissionInv, IndexInv
  <2> QED
      BY <2>3, <2>4
<1>5. SealInv'
  <2>1. CASE to \in PastSeal /\ tx[r] \notin PastSeal
    <3>1. SealUsable(r)
        BY <2>1
    <3> QED
        BY <1>0, <1>2, <2>1, <3>1 DEF AdmissionInv, SealInv, SealUsable, PastSeal, RunOf
  <2>2. CASE to \notin PastSeal \/ tx[r] \in PastSeal
      BY <1>0, <1>2, <2>2 DEF AdmissionInv, SealInv
  <2> QED
      BY <2>1, <2>2
<1>6. BudgetInv'
  <2>1. Working' = Working
      BY <1>2 DEF Working
  <2>2. \A p, q \in Requests : HoldsBudget(p)' /\ HoldsBudget(q)' => p = q
      BY <1>0 DEF AdmissionInv, BudgetInv, HoldsBudget
  <2>3. ASSUME to = "charged"
        PROVE  /\ Cardinality(Working) + 1 <= entitlement.limits.concurrent
               /\ Cardinality(usage) + 1 <= entitlement.limits.daily
    <3>1. RoomFor
        BY <2>3
    <3>2. Working \subseteq InProgress /\ InProgress \subseteq admitted /\ IsFiniteSet(admitted)
        BY DEF Working, InProgress, Requested, AdmissionInv, BudgetInv
    <3>3. Cardinality(Working) <= Cardinality(InProgress) /\ IsFiniteSet(InProgress) /\ IsFiniteSet(Working)
        BY <3>2, FS_Subset
    <3>4. Cardinality(Working) \in Nat /\ Cardinality(InProgress) \in Nat
        BY <3>3, FS_CardinalityType
    <3>5. entitlement.limits.concurrent \in Nat
        BY AdmissionAssumption DEF AdmissionInv, AdmissionTypeOK
    <3> QED
        BY <3>1, <3>3, <3>4, <3>5 DEF RoomFor
  <2> QED
      BY <1>0, <2>1, <2>2, <2>3 DEF AdmissionInv, BudgetInv
<1> QED
    BY <1>1, <1>2, <1>3, <1>4, <1>5, <1>6 DEF AdmissionInv

-----------------------------------------------------------------------------
(* The commit, and what moves around the request.                          *)

\* The identities of the keyed requests, and no other, are in the index.
LEMMA KeyedIdentities ==
    ASSUME NEW r \in Requests
    PROVE  Identity(r) \in Identities <=> r.key # NoKey
    BY DEF Identities, Identity

LEMMA CommitKeeps ==
    ASSUME AdmissionInv, NEW r \in Requests, CommitAdmission(r)
    PROVE  AdmissionInv'
<1> DEFINE entry == RequestRow(r, "QUEUED")
<1>0. /\ tx[r] \in PastSeal /\ HoldsBudget(r) /\ InTx(r) /\ AdmissionTypeOK
      /\ tx' = [tx EXCEPT ![r] = "done"] /\ tx'[r] = "done"
      /\ \A q \in Requests \ {r} : tx'[q] = tx[q]
    BY DEF CommitAdmission, HoldsBudget, PastSeal, InTx, AdmissionInv, AdmissionTypeOK
<1>1. /\ entry.run = RunOf(r) /\ entry.by = r /\ entry.charge = EventKey(r) /\ entry.status = "QUEUED"
      /\ admitted' = admitted \cup {entry}
    BY DEF CommitAdmission, RequestRow
<1>2. entry.run \notin Runs /\ entry \notin admitted
    BY <1>0, <1>1, RunIsNew DEF Runs
<1>3. entry = RequestRow(r, "QUEUED")
    OBVIOUS
<1> HIDE DEF entry
<1>4. Requested' = Requested \cup {entry} /\ Runs' = Runs \cup {entry.run}
    BY <1>1, RunIdsDiffer DEF Requested, Runs
<1>5. \A i \in DOMAIN operation : i \in DOMAIN operation' /\ operation'[i] = operation[i]
  <2>1. Identity(r) \notin DOMAIN operation
      BY <1>0, KeyedIdentities DEF AdmissionInv, AdmissionTypeOK, IndexInv
  <2> QED
      BY <2>1 DEF CommitAdmission
<1>6. /\ DOMAIN operation' = DOMAIN operation \cup ({Identity(r)} \cap Identities)
      /\ r.key # NoKey => /\ Identity(r) \in DOMAIN operation'
                          /\ operation'[Identity(r)] = [body |-> r.manifest, run |-> RunOf(r)]
    BY KeyedIdentities DEF CommitAdmission
<1>7. AdmissionTypeOK'
  <2>1. \A a \in admitted' : a.status \in InFlight \cup {"ended"}
      BY <1>0, <1>1 DEF AdmissionTypeOK, InFlight
  <2>2. usage' \subseteq counted'
      BY <1>0 DEF CommitAdmission, RecordUsage, AdmissionTypeOK
  <2> QED
      BY <1>0, <1>6, <2>1, <2>2 DEF CommitAdmission, AdmissionTypeOK
<1>8. RowsInv' /\ OneRunPerSeal'
  <2>1. RowsInv'
      BY <1>1, <1>3 DEF AdmissionInv, RowsInv, RowStatus, InFlight
  <2>2. OneRunPerSeal'
      BY <1>1, <1>2 DEF AdmissionInv, OneRunPerSeal, Runs
  <2> QED
      BY <2>1, <2>2
<1>9. AnsweredInv'
  <2>1. ASSUME NEW a \in Requested'
        PROVE  /\ a.by.key # NoKey => /\ Identity(a.by) \in DOMAIN operation'
                                      /\ operation'[Identity(a.by)] = [body |-> a.by.manifest, run |-> a.run]
               /\ a.by.key = NoKey => tx'[a.by] = "done"
               /\ a.charge \in counted'
    <3>1. CASE a = entry
        BY <1>0, <1>1, <1>6, <3>1 DEF CommitAdmission
    <3>2. CASE a \in Requested
      <4>1. a.by \in Requests /\ counted \subseteq counted'
          BY <3>2, RequestedRow DEF AdmissionInv, Requested, CommitAdmission
      <4> QED
          BY <1>0, <1>5, <3>2, <4>1 DEF AdmissionInv, AnsweredInv
    <3> QED
        BY <1>4, <3>1, <3>2
  <2>2. ASSUME NEW i \in DOMAIN operation'
        PROVE  \E a \in admitted' : a.run = operation'[i].run /\ a.by.manifest = operation'[i].body
    <3>1. CASE i \in DOMAIN operation
        BY <1>1, <1>5, <3>1 DEF AdmissionInv, AnsweredInv
    <3>2. CASE i = Identity(r) /\ r.key # NoKey
        BY <1>1, <1>6, <3>2
    <3> QED
        BY <1>6, <3>1, <3>2, KeyedIdentities
  <2>3. ASSUME NEW q \in Requests, tx'[q] = "replayed"
        PROVE  Identity(q) \in DOMAIN operation' /\ operation'[Identity(q)].body = q.manifest
      BY <1>0, <1>5, <2>3 DEF AdmissionInv, AnsweredInv
  <2> QED
      BY <2>1, <2>2, <2>3 DEF AnsweredInv
<1>10. IndexInv'
  <2>1. ~InTx(r)' /\ \A q \in Requests \ {r} : InTx(q)' <=> InTx(q)
      BY <1>0 DEF InTx
  <2>2. ASSUME NEW q \in Requests \ {r}, InTx(q), q.key # NoKey
        PROVE  Identity(q) \notin DOMAIN operation'
    <3>1. Identity(q) \notin DOMAIN operation
        BY <2>2 DEF AdmissionInv, IndexInv
    <3>2. CASE r.key = NoKey
        BY <1>6, <3>1, <3>2, KeyedIdentities
    <3>3. CASE r.key # NoKey
      <4>1. Identity(q) # Identity(r)
          BY <1>0, <2>2, <3>3 DEF AdmissionInv, IndexInv
      <4> QED
          BY <1>6, <3>1, <4>1
    <3> QED
        BY <3>2, <3>3
  <2> QED
      BY <2>1, <2>2 DEF AdmissionInv, IndexInv
<1>11. SealInv'
  <2>1. ASSUME NEW q \in Requests, tx'[q] \in PastSeal, q.manifest \in Canonical
        PROVE  q.manifest \notin Runs'
    <3>1. q # r /\ tx[q] \in PastSeal
        BY <1>0, <2>1 DEF PastSeal
    <3>2. q.manifest \notin Runs
        BY <2>1, <3>1 DEF AdmissionInv, SealInv
    <3>3. q.manifest # RunOf(r)
        BY <1>0, <2>1, <3>1, AdmissionAssumption DEF AdmissionInv, SealInv, RunOf
    <3> QED
        BY <1>1, <1>4, <3>2, <3>3
  <2>2. \A q \in Requests : tx'[q] \in PastSeal => tx[q] \in PastSeal
      BY <1>0
  <2> QED
      BY <2>1, <2>2 DEF AdmissionInv, SealInv
<1>12. BudgetInv'
  <2>1. IsFiniteSet(admitted') /\ IsFiniteSet(usage')
      BY <1>1, OneMore DEF AdmissionInv, BudgetInv, CommitAdmission, RecordUsage
  <2>2. \A q \in Requests : ~HoldsBudget(q)'
      BY <1>0 DEF AdmissionInv, BudgetInv, HoldsBudget
  <2> QED
      BY <2>1, <2>2 DEF BudgetInv, HoldsBudget
<1> QED
    BY <1>7, <1>8, <1>9, <1>10, <1>11, <1>12 DEF AdmissionInv

\* At the commit the workspace is within the entitlement that is then in force.
LEMMA CommitIsWithin ==
    ASSUME AdmissionInv, NEW r \in Requests, CommitAdmission(r), tx[r] = "charged"
    PROVE  /\ Cardinality(usage') <= entitlement'.limits.daily
           /\ Cardinality(Working') <= entitlement'.limits.concurrent
<1>1. /\ IsFiniteSet(Working) /\ IsFiniteSet(usage)
      /\ Cardinality(Working) + 1 <= entitlement.limits.concurrent
      /\ Cardinality(usage) + 1 <= entitlement.limits.daily
  <2>1. Working \subseteq admitted
      BY DEF Working, Requested
  <2> QED
      BY <2>1, FS_Subset DEF AdmissionInv, BudgetInv
<1>2. entitlement' = entitlement /\ entitlement.limits.daily \in Nat /\ entitlement.limits.concurrent \in Nat
    BY AdmissionAssumption DEF CommitAdmission, AdmissionInv, AdmissionTypeOK
<1>3. usage' = usage \cup {EventKey(r)} /\ Working' \subseteq Working \cup {RequestRow(r, "QUEUED")}
    BY DEF CommitAdmission, RecordUsage, Working, Requested, RequestRow
<1>4. /\ IsFiniteSet(usage') /\ Cardinality(usage') <= Cardinality(usage) + 1
      /\ Cardinality(usage) \in Nat /\ Cardinality(usage') \in Nat
    BY <1>1, <1>3, OneMore
<1>5. PICK x, W : x = RequestRow(r, "QUEUED") /\ W = Working \cup {x}
    OBVIOUS
<1>6. IsFiniteSet(W) /\ Cardinality(W) <= Cardinality(Working) + 1 /\ Cardinality(Working) \in Nat
      /\ Cardinality(W) \in Nat
    BY <1>1, <1>5, OneMore
<1>7. Cardinality(Working') <= Cardinality(W) /\ Cardinality(Working') \in Nat
    BY <1>3, <1>5, <1>6, FS_Subset, FS_CardinalityType
<1> QED
    BY <1>1, <1>2, <1>4, <1>6, <1>7

\* A run that moves keeps its identity, its charge and its request.
LEMMA RunMovesKeeps == AdmissionInv /\ RunMoves => AdmissionInv'
<1> SUFFICES ASSUME AdmissionInv, NEW a \in InProgress, NEW s \in {"LEASED", "ended"},
                    admitted' = (admitted \ {a}) \cup {[a EXCEPT !.status = s]},
                    UNCHANGED <<tx, operation, usage, counted, entitlement, current>>
             PROVE  AdmissionInv'
    BY DEF RunMoves
<1>0. AdmissionTypeOK /\ RowsInv /\ OneRunPerSeal /\ AnsweredInv /\ BudgetInv /\ a \in admitted
    BY DEF AdmissionInv, InProgress
<1>1. PICK b : b = [a EXCEPT !.status = s]
    OBVIOUS
<1>2. /\ b.run = a.run /\ b.by = a.by /\ b.charge = a.charge /\ b.status = s
      /\ (\E r \in Requests : b = RequestRow(r, s)) \/ (\E c \in CandidateRuns : b = CandidateRow(c, s))
  <2>1. CASE \E r \in Requests, t \in RowStatus : a = RequestRow(r, t)
      BY <1>1, <2>1 DEF RequestRow
  <2>2. CASE \E c \in CandidateRuns, t \in RowStatus : a = CandidateRow(c, t)
      BY <1>1, <2>2 DEF CandidateRow
  <2> QED
      BY <1>0, <2>1, <2>2 DEF RowsInv
<1>3. admitted' = (admitted \ {a}) \cup {b}
    BY <1>1
<1>4. Runs' = Runs
    BY <1>0, <1>2, <1>3 DEF Runs
<1>5. \A x \in Requested' : (x \in Requested /\ x # a) \/ (x = b /\ a \in Requested)
    BY <1>0, <1>2, <1>3 DEF Requested
<1>6. AdmissionTypeOK' /\ RowsInv'
  <2>1. s \in RowStatus
      BY DEF RowStatus, InFlight
  <2>2. RowsInv'
      BY <1>0, <1>2, <1>3, <2>1 DEF RowsInv
  <2>3. \A x \in admitted' : x.status \in InFlight \cup {"ended"}
      BY <1>0, <1>2, <1>3, <2>1 DEF AdmissionTypeOK, RowStatus
  <2> QED
      BY <1>0, <2>2, <2>3 DEF AdmissionTypeOK
<1>7. OneRunPerSeal'
    BY <1>0, <1>2, <1>3 DEF OneRunPerSeal
<1>8. AnsweredInv'
  <2>1. \A x \in Requested' :
          /\ x.by.key # NoKey => /\ Identity(x.by) \in DOMAIN operation
                                 /\ operation[Identity(x.by)] = [body |-> x.by.manifest, run |-> x.run]
          /\ x.by.key = NoKey => tx[x.by] = "done"
          /\ x.charge \in counted
    <3> SUFFICES ASSUME NEW x \in Requested'
                 PROVE  /\ x.by.key # NoKey => /\ Identity(x.by) \in DOMAIN operation
                                               /\ operation[Identity(x.by)] = [body |-> x.by.manifest, run |-> x.run]
                        /\ x.by.key = NoKey => tx[x.by] = "done"
                        /\ x.charge \in counted
        OBVIOUS
    <3>1. PICK y \in Requested : x.by = y.by /\ x.run = y.run /\ x.charge = y.charge
        BY <1>2, <1>5
    <3>2. /\ y.by.key # NoKey => /\ Identity(y.by) \in DOMAIN operation
                                 /\ operation[Identity(y.by)] = [body |-> y.by.manifest, run |-> y.run]
          /\ y.by.key = NoKey => tx[y.by] = "done"
          /\ y.charge \in counted
        BY <1>0 DEF AnsweredInv
    <3> QED
        BY <3>1, <3>2 DEF Identity
  <2>2. \A i \in DOMAIN operation :
          \E x \in admitted' : x.run = operation[i].run /\ x.by.manifest = operation[i].body
    <3> SUFFICES ASSUME NEW i \in DOMAIN operation
                 PROVE  \E x \in admitted' : x.run = operation[i].run /\ x.by.manifest = operation[i].body
        OBVIOUS
    <3>1. PICK x \in admitted : x.run = operation[i].run /\ x.by.manifest = operation[i].body
        BY <1>0 DEF AnsweredInv
    <3>2. CASE x = a
        BY <1>2, <1>3, <3>1, <3>2
    <3>3. CASE x # a
        BY <1>3, <3>1, <3>3
    <3> QED
        BY <3>2, <3>3
  <2> QED
      BY <1>0, <2>1, <2>2 DEF AnsweredInv
<1>9. IndexInv' /\ SealInv'
    BY <1>4 DEF AdmissionInv, IndexInv, SealInv, InTx
<1>10. BudgetInv'
  <2>1. IsFiniteSet(admitted') /\ IsFiniteSet(usage')
    <3>1. PICK R : R = admitted \ {a}
        OBVIOUS
    <3>2. IsFiniteSet(R)
        BY <1>0, <3>1, OneLess DEF BudgetInv
    <3>3. admitted' = R \cup {b}
        BY <1>3, <3>1
    <3> QED
        BY <1>0, <3>2, <3>3, OneMore DEF BudgetInv
  <2>2. IsFiniteSet(Working)
    <3>1. Working \subseteq admitted
        BY DEF Working, Requested
    <3> QED
        BY <1>0, <3>1, FS_Subset DEF BudgetInv
  <2>3. Cardinality(Working') <= Cardinality(Working) /\ Cardinality(Working') \in Nat
    <3>1. CASE a \notin Requested
      <4>1. Working' \subseteq Working
          BY <1>5, <3>1 DEF Working
      <4> QED
          BY <2>2, <4>1, FS_Subset, FS_CardinalityType
    <3>2. CASE a \in Requested
      <4>1. a \in Working
          BY <3>2 DEF Working, InProgress
      <4>2. PICK R, W : R = Working \ {a} /\ W = R \cup {b}
          OBVIOUS
      <4>3. Working' \subseteq W
          BY <1>5, <4>2 DEF Working
      <4>4. IsFiniteSet(R) /\ Cardinality(R) = Cardinality(Working) - 1 /\ Cardinality(Working) \in Nat
          BY <2>2, <4>1, <4>2, OneLess
      <4>5. IsFiniteSet(W) /\ Cardinality(W) <= Cardinality(R) + 1 /\ Cardinality(R) \in Nat /\ Cardinality(W) \in Nat
          BY <4>2, <4>4, OneMore
      <4>6. Cardinality(Working') <= Cardinality(W) /\ Cardinality(Working') \in Nat
          BY <4>3, <4>5, FS_Subset, FS_CardinalityType
      <4> QED
          BY <4>4, <4>5, <4>6
    <3> QED
        BY <3>1, <3>2
  <2>4. entitlement.limits.concurrent \in Nat /\ Cardinality(Working) \in Nat
      BY <1>0, <2>2, AdmissionAssumption, FS_CardinalityType DEF AdmissionTypeOK
  <2> QED
      BY <1>0, <2>1, <2>3, <2>4 DEF BudgetInv, HoldsBudget
<1> QED
    BY <1>6, <1>7, <1>8, <1>9, <1>10 DEF AdmissionInv

LEMMA SurroundingsKeep ==
    ASSUME AdmissionInv,
           \/ \E limits \in Limits : ConfigureEntitlement(limits)
           \/ WindowPasses \/ SealGoesStale \/ CreateCandidateRun \/ UNCHANGED admissionVars
    PROVE  AdmissionInv'
<1>0. AdmissionTypeOK /\ RowsInv /\ OneRunPerSeal /\ AnsweredInv /\ IndexInv /\ SealInv /\ BudgetInv
    BY DEF AdmissionInv
<1>1. ASSUME NEW limits \in Limits, ConfigureEntitlement(limits)
      PROVE  AdmissionInv'
  <2>1. AdmissionTypeOK'
      BY <1>0, <1>1, AdmissionAssumption DEF ConfigureEntitlement, AdmissionTypeOK
  <2>2. BudgetInv'
      BY <1>0, <1>1 DEF ConfigureEntitlement, BudgetInv, HoldsBudget
  <2> QED
      BY <1>0, <1>1, <2>1, <2>2 DEF ConfigureEntitlement, AdmissionInv, RowsInv, OneRunPerSeal, AnsweredInv,
         IndexInv, SealInv, Requested, Runs, InTx
<1>2. CASE WindowPasses
  <2>1. PICK u \in usage : usage' = usage \ {u} /\ UNCHANGED <<tx, operation, admitted, counted, entitlement, current>>
      BY <1>2 DEF WindowPasses
  <2>2. AdmissionTypeOK'
      BY <1>0, <2>1 DEF AdmissionTypeOK
  <2>3. IsFiniteSet(usage') /\ Cardinality(usage') <= Cardinality(usage)
        /\ Cardinality(usage) \in Nat /\ Cardinality(usage') \in Nat
    <3>1. PICK S, T : S = usage /\ T = S \ {u}
        OBVIOUS
    <3>2. IsFiniteSet(S)
        BY <1>0, <3>1 DEF BudgetInv
    <3>3. /\ IsFiniteSet(T) /\ Cardinality(T) \in Nat /\ Cardinality(S) \in Nat
          /\ Cardinality(T) + 1 = Cardinality(S)
        BY <3>1, <3>2, OneLess
    <3> QED
        BY <2>1, <3>1, <3>3
  <2>4. entitlement.limits.daily \in Nat
      BY <1>0, AdmissionAssumption DEF AdmissionTypeOK
  <2>5. BudgetInv'
    <3>1. Working' = Working
        BY <2>1 DEF Working, Requested
    <3>2. ASSUME NEW r \in Requests, tx'[r] = "charged"
          PROVE  /\ Cardinality(Working') + 1 <= entitlement'.limits.concurrent
                 /\ Cardinality(usage') + 1 <= entitlement'.limits.daily
      <4>1. /\ Cardinality(Working) + 1 <= entitlement.limits.concurrent
            /\ Cardinality(usage) + 1 <= entitlement.limits.daily
          BY <1>0, <2>1, <3>2 DEF BudgetInv
      <4> QED
          BY <2>1, <2>3, <2>4, <3>1, <4>1
    <3> QED
        BY <1>0, <2>1, <2>3, <3>2 DEF BudgetInv, HoldsBudget
  <2> QED
      BY <1>0, <2>1, <2>2, <2>5 DEF AdmissionInv, RowsInv, OneRunPerSeal, AnsweredInv,
         IndexInv, SealInv, Requested, Runs, InTx
<1>3. CASE SealGoesStale \/ UNCHANGED admissionVars
  <2>1. /\ current' \subseteq current
        /\ UNCHANGED <<tx, operation, admitted, usage, counted, entitlement>>
      BY <1>3 DEF SealGoesStale, admissionVars
  <2>2. AdmissionTypeOK'
      BY <1>0, <2>1 DEF AdmissionTypeOK
  <2>3. RowsInv' /\ OneRunPerSeal' /\ AnsweredInv' /\ IndexInv' /\ SealInv'
      BY <1>0, <2>1 DEF RowsInv, OneRunPerSeal, AnsweredInv, IndexInv, SealInv, Requested, Runs, InTx
  <2>4. Working' = Working
      BY <2>1 DEF Working, Requested
  <2>5. BudgetInv'
      BY <1>0, <2>1, <2>4 DEF BudgetInv, HoldsBudget
  <2> QED
      BY <2>2, <2>3, <2>5 DEF AdmissionInv
<1>4. CASE CreateCandidateRun
  <2>1. PICK c \in CandidateRuns \ Runs :
           /\ admitted' = admitted \cup {CandidateRow(c, "QUEUED")}
           /\ UNCHANGED <<tx, operation, usage, counted, entitlement, current>>
      BY <1>4 DEF CreateCandidateRun, CandidateRow
  <2>2. PICK entry : entry = CandidateRow(c, "QUEUED")
      OBVIOUS
  <2>3. entry.run = c /\ entry.status = "QUEUED"
      BY <2>2 DEF CandidateRow
  <2>4. Requested' = Requested /\ Working' = Working /\ Runs' = Runs \cup {c}
      BY <2>1, <2>2, <2>3 DEF Requested, Working, Runs
  <2>5. AdmissionTypeOK'
      BY <1>0, <2>1, <2>2, <2>3 DEF AdmissionTypeOK, InFlight
  <2>6. RowsInv' /\ OneRunPerSeal'
      BY <1>0, <2>1, <2>2, <2>3 DEF RowsInv, RowStatus, InFlight, OneRunPerSeal, Runs
  <2>7. AnsweredInv' /\ IndexInv'
      BY <1>0, <2>1, <2>4 DEF AnsweredInv, IndexInv, InTx
  <2>8. SealInv'
      BY <1>0, <2>1, <2>4, AdmissionAssumption DEF SealInv
  <2>9. BudgetInv'
      BY <1>0, <2>1, <2>4, FS_AddElement DEF BudgetInv, HoldsBudget
  <2> QED
      BY <2>5, <2>6, <2>7, <2>8, <2>9 DEF AdmissionInv
<1> QED
    BY <1>1, <1>2, <1>3, <1>4

LEMMA AdmissionKept == AdmissionInv /\ [AdmissionNext]_admissionVars => AdmissionInv'
<1> SUFFICES ASSUME AdmissionInv, [AdmissionNext]_admissionVars
             PROVE  AdmissionInv'
    OBVIOUS
<1>1. ASSUME NEW r \in Requests, Reserve(r)
      PROVE  AdmissionInv'
    BY <1>1, StageMoves DEF Reserve, Stages, PastSeal
<1>2. ASSUME NEW r \in Requests, ReplayAnswer(r)
      PROVE  AdmissionInv'
  <2>1. PICK to \in {"replayed", "refused"} :
           tx' = [tx EXCEPT ![r] = to] /\ (to = "replayed" => operation[Identity(r)].body = r.manifest)
      BY <1>2 DEF ReplayAnswer
  <2> QED
      BY <1>2, <2>1, StageMoves DEF ReplayAnswer, Stages, PastSeal
<1>3. ASSUME NEW r \in Requests, LockSeal(r)
      PROVE  AdmissionInv'
    BY <1>3, StageMoves DEF LockSeal, Stages, PastSeal, InTx
<1>4. ASSUME NEW r \in Requests, CheckQueue(r)
      PROVE  AdmissionInv'
    BY <1>4, StageMoves DEF CheckQueue, Stages, PastSeal, InTx
<1>5. ASSUME NEW r \in Requests, AdmitWithinBudget(r)
      PROVE  AdmissionInv'
  <2>1. PICK to \in {"charged", "free"} : tx' = [tx EXCEPT ![r] = to] /\ (to = "charged" => RoomFor)
      BY <1>5 DEF AdmitWithinBudget
  <2> QED
      BY <1>5, <2>1, StageMoves DEF AdmitWithinBudget, Stages, PastSeal, InTx
<1>6. ASSUME NEW r \in Requests, RollbackAdmission(r)
      PROVE  AdmissionInv'
    BY <1>6, StageMoves DEF RollbackAdmission, Stages, PastSeal, InTx
<1>7. ASSUME NEW r \in Requests, Resend(r)
      PROVE  AdmissionInv'
    BY <1>7, StageMoves DEF Resend, Stages, PastSeal
<1> QED
    BY <1>1, <1>2, <1>3, <1>4, <1>5, <1>6, <1>7, CommitKeeps, RunMovesKeeps, SurroundingsKeep
       DEF AdmissionNext

-----------------------------------------------------------------------------
(* The theorem about admission.                                            *)

\* However requests are resent, raced and interrupted (run_idempotently, admit_within_budget), each
\* key of a principal and each seal has one run, a replay names it, no principal's run rides on
\* its own earlier charge, and no charged admission exceeds the entitlement then in force.
THEOREM ExactAdmission == AdmissionSpec => AdmissionIsExact
<1>1. AdmissionInv =>
        AdmissionTypeOK /\ OneRunPerKey /\ OneRunPerSeal /\ EveryRunIsCharged /\ ReplayNamesItsRun
  <2> SUFFICES ASSUME AdmissionInv
               PROVE  OneRunPerKey /\ EveryRunIsCharged /\ ReplayNamesItsRun
      BY DEF AdmissionInv
  <2>0. RowsInv /\ OneRunPerSeal /\ AnsweredInv
      BY DEF AdmissionInv
  <2>1. OneRunPerKey
    <3> SUFFICES ASSUME NEW a \in Requested, NEW b \in Requested, a.by.key # NoKey, Identity(a.by) = Identity(b.by)
                 PROVE  a.run = b.run
        BY DEF OneRunPerKey
    <3>1. b.by.key # NoKey
        BY DEF Identity
    <3>2. /\ operation[Identity(a.by)] = [body |-> a.by.manifest, run |-> a.run]
          /\ operation[Identity(a.by)] = [body |-> b.by.manifest, run |-> b.run]
        BY <2>0, <3>1 DEF AnsweredInv
    <3> QED
        BY <3>2
  <2>2. EveryRunIsCharged
    <3>1. \A a \in Requested : a.charge \in counted
        BY <2>0 DEF AnsweredInv
    <3>2. ASSUME NEW a \in Requested, NEW b \in Requested, a.charge = b.charge, a.by.principal = b.by.principal
          PROVE  a = b
      <4>1. /\ a.by \in Requests /\ b.by \in Requests /\ EventKey(a.by) = EventKey(b.by)
            /\ a.run = RunOf(a.by) /\ b.run = RunOf(b.by) /\ a \in admitted /\ b \in admitted
          BY <2>0, <3>2, RequestedRow DEF Requested
      <4>2. CASE a.by.key = NoKey
        <5>1. a.by.id = b.by.id
            BY <4>1, <4>2 DEF EventKey
        <5>2. a.by = b.by
            BY <4>1, <5>1, AdmissionAssumption
        <5> QED
            BY <2>0, <4>1, <5>2 DEF OneRunPerSeal
      <4>3. CASE a.by.key # NoKey
        <5>1. Identity(a.by) = Identity(b.by)
            BY <3>2, <4>1, <4>3 DEF EventKey, Identity
        <5> QED
            BY <2>0, <2>1, <4>1, <4>3, <5>1 DEF OneRunPerKey, OneRunPerSeal
      <4> QED
          BY <4>2, <4>3
    <3> QED
        BY <3>1, <3>2 DEF EveryRunIsCharged
  <2>3. ReplayNamesItsRun
      BY <2>0 DEF AnsweredInv, ReplayNamesItsRun
  <2> QED
      BY <2>1, <2>2, <2>3
<1>2. AdmissionInv /\ [AdmissionNext]_admissionVars =>
        [\A r \in Requests : tx[r] = "charged" /\ tx'[r] = "done" =>
           /\ Cardinality(usage') <= entitlement'.limits.daily
           /\ Cardinality({a \in Requested' : a.status \in InFlight})
                <= entitlement'.limits.concurrent]_admissionVars
  <2> SUFFICES ASSUME AdmissionInv, [AdmissionNext]_admissionVars, NEW r \in Requests,
                      tx[r] = "charged", tx'[r] = "done"
               PROVE  /\ Cardinality(usage') <= entitlement'.limits.daily
                      /\ Cardinality({a \in Requested' : a.status \in InFlight})
                           <= entitlement'.limits.concurrent
      OBVIOUS
  <2>1. CommitAdmission(r)
    <3>1. \A q \in Requests : tx' = [tx EXCEPT ![q] = tx'[q]] => q = r
        BY DEF AdmissionInv, AdmissionTypeOK
    <3> QED
        BY ZenonT(60), <3>1 DEF AdmissionInv, AdmissionTypeOK, AdmissionNext, admissionVars, Reserve, ReplayAnswer, LockSeal,
           CheckQueue, AdmitWithinBudget, CommitAdmission, RollbackAdmission, Resend,
           ConfigureEntitlement, RunMoves, WindowPasses, SealGoesStale, CreateCandidateRun
  <2> QED
      BY <2>1, CommitIsWithin DEF Working
<1>3. AdmissionSpec => []AdmissionInv
    BY InitiallyExact, AdmissionKept, PTL DEF AdmissionSpec
<1>4. AdmissionSpec =>
        [][\A r \in Requests : tx[r] = "charged" /\ tx'[r] = "done" =>
             /\ Cardinality(usage') <= entitlement'.limits.daily
             /\ Cardinality({a \in Requested' : a.status \in InFlight})
                  <= entitlement'.limits.concurrent]_admissionVars
    BY <1>2, <1>3, PTL DEF AdmissionSpec
<1>5. AdmissionSpec =>
        [](AdmissionTypeOK /\ OneRunPerKey /\ OneRunPerSeal /\ EveryRunIsCharged /\ ReplayNamesItsRun)
    BY <1>1, <1>3, PTL
<1> QED
    BY <1>4, <1>5 DEF AdmissionIsExact, AdmittedWithinEntitlement

-----------------------------------------------------------------------------
(* The outbox.  The argument follows one message.  A call past its send has *)
(* put it in the queue (SentIsQueued), so a published row is queued or      *)
(* handled (PublishedKept); only a consumer past its handler deletes, and   *)
(* what it deletes was handled (HandledFirst).  Whatever is under way is    *)
(* about a committed transition (UnderWay, RowsCommitted).                  *)

\* What was sent and confirmed is in the queue, or has been handled since.
SentIsQueued ==
    \A p \in Publisher :
        pub[p].at = "SENT" => copies[pub[p].msg] > 0 \/ pub[p].msg \in handled

\* So is what the outbox calls published.
PublishedKept ==
    \A m \in Message : row[m].state = "PUBLISHED" => copies[m] > 0 \/ m \in handled

\* A consumer deletes only what it handled.
HandledFirst == \A c \in Consumer : con[c].at = "HANDLED" => con[c].msg \in handled

\* Rows become visible with their transition.
RowsCommitted ==
    \A m \in Message : m \in committed <=> row[m].state \in {"PENDING", "PUBLISHED"}

\* Calls and consumers work on committed messages.
UnderWay ==
    /\ \A p \in Publisher : pub[p].at \in {"CLAIMED", "SENT"} => pub[p].msg \in committed
    /\ \A c \in Consumer : con[c].at # "IDLE" => con[c].msg \in committed

OutboxInv ==
    /\ OutboxTypeOK
    /\ SentIsQueued /\ PublishedKept /\ HandledFirst
    /\ RowsCommitted /\ UnderWay
    /\ AnnouncedIsCommitted /\ AcknowledgedOnce

-----------------------------------------------------------------------------
\* Nothing is staged, claimed, queued or handled at the start.
LEMMA InitOutboxInv == OutboxInit => OutboxInv
<1> SUFFICES ASSUME OutboxInit PROVE OutboxInv
  OBVIOUS
<1>1. OutboxTypeOK
  BY OutboxAssumption DEF OutboxInit, OutboxTypeOK, OutboxRow, Call, Work, Unclaimed, NoMessage
<1>2. SentIsQueued /\ PublishedKept /\ HandledFirst
  BY DEF OutboxInit, SentIsQueued, PublishedKept, HandledFirst
<1>3. RowsCommitted /\ UnderWay
  BY DEF OutboxInit, RowsCommitted, UnderWay
<1>4. AnnouncedIsCommitted
  BY DEF OutboxInit, AnnouncedIsCommitted
<1>5. AcknowledgedOnce
  BY DEF OutboxInit, AcknowledgedOnce
<1> QED
  BY <1>1, <1>2, <1>3, <1>4, <1>5 DEF OutboxInv

\* The parts of the type invariant, one by one.
LEMMA OutboxTypes ==
    ASSUME OutboxInv
    PROVE  /\ committed \subseteq Message /\ handled \subseteq Message
           /\ row \in [Message -> OutboxRow] /\ pub \in [Publisher -> Call]
           /\ reported \in [Publisher -> SUBSET Message]
           /\ copies \in [Message -> 0..MaxCopies] /\ con \in [Consumer -> Work]
           /\ \A p \in Publisher : pub[p].at \in {"CLAIMED", "SENT"} <=> pub[p].msg # NoMessage
           /\ \A c \in Consumer : con[c].at # "IDLE" => con[c].msg \in Message
  BY DEF OutboxInv, OutboxTypeOK, UnderWay

\* What a transition's transaction does to its row.
LEMMA RowStateStep ==
    ASSUME OutboxInv, NEW m \in Message,
           NEW s \in {"NONE", "STAGED", "PENDING"},
           row' = [row EXCEPT ![m].state = s],
           row[m].state \in {"NONE", "STAGED"},
           committed' = IF s = "PENDING" THEN committed \cup {m} ELSE committed,
           UNCHANGED <<pub, reported, copies, con, handled>>
    PROVE  OutboxInv'
<1>1. row \in [Message -> OutboxRow] /\ committed \subseteq Message
  BY OutboxTypes
<1>2. /\ row' \in [Message -> OutboxRow]
      /\ row'[m].state = s
      /\ \A n \in Message : n # m => row'[n] = row[n]
  BY <1>1 DEF OutboxRow
<1>3. committed \subseteq committed' /\ committed' \subseteq Message
      /\ \A n \in Message : n # m => (n \in committed' <=> n \in committed)
  BY <1>1
<1>4. m \notin committed
  BY DEF OutboxInv, RowsCommitted
<1>5. OutboxTypeOK'
  BY <1>2, <1>3 DEF OutboxInv, OutboxTypeOK
<1>6. SentIsQueued' /\ HandledFirst'
  BY DEF OutboxInv, SentIsQueued, HandledFirst
<1>7. PublishedKept'
  BY <1>2 DEF OutboxInv, PublishedKept
<1>8. RowsCommitted'
  <2>1. \A n \in Message : n # m => (n \in committed' <=> row'[n].state \in {"PENDING", "PUBLISHED"})
    BY <1>2, <1>3 DEF OutboxInv, RowsCommitted
  <2>2. m \in committed' <=> row'[m].state \in {"PENDING", "PUBLISHED"}
    BY <1>2, <1>4
  <2> QED
    BY <2>1, <2>2 DEF RowsCommitted
<1>9. UnderWay' /\ AnnouncedIsCommitted'
  BY <1>3 DEF OutboxInv, UnderWay, AnnouncedIsCommitted
<1>10. AcknowledgedOnce'
  <2>1. \A n \in Message : row'[n].state = "PUBLISHED" <=> row[n].state = "PUBLISHED"
    BY <1>2
  <2> QED
    BY <2>1 DEF OutboxInv, AcknowledgedOnce
<1> QED
  BY <1>5, <1>6, <1>7, <1>8, <1>9, <1>10 DEF OutboxInv

\* A claim names its call in the row and the row in the call.
LEMMA ClaimStep ==
    ASSUME OutboxInv, NEW p \in Publisher, NEW m \in Message, Claim(p, m)
    PROVE  OutboxInv'
<1>1. /\ row \in [Message -> OutboxRow] /\ pub \in [Publisher -> Call]
      /\ \A q \in Publisher : pub[q].at \in {"CLAIMED", "SENT"} <=> pub[q].msg # NoMessage
  BY OutboxTypes
<1>2. /\ row[m].state = "PENDING"
      /\ row' = [row EXCEPT ![m].owner = p, ![m].live = TRUE]
      /\ pub' = [pub EXCEPT ![p] = [at |-> "CLAIMED", msg |-> m, tried |-> pub[p].tried \cup {m}]]
      /\ UNCHANGED <<committed, reported, copies, con, handled>>
  BY DEF Claim
<1>3. row' \in [Message -> OutboxRow] /\ \A n \in Message : row'[n].state = row[n].state
  BY <1>1, <1>2 DEF OutboxRow
<1>4. /\ pub' \in [Publisher -> Call] /\ pub'[p].at = "CLAIMED" /\ pub'[p].msg = m
      /\ \A q \in Publisher : q # p => pub'[q] = pub[q]
  BY <1>1, <1>2 DEF Call
<1>5. OutboxTypeOK'
  <2>1. \A q \in Publisher : pub'[q].at \in {"CLAIMED", "SENT"} <=> pub'[q].msg # NoMessage
    BY <1>1, <1>4, OutboxAssumption DEF NoMessage
  <2> QED
    BY <1>2, <1>3, <1>4, <2>1 DEF OutboxInv, OutboxTypeOK
<1>6. SentIsQueued' /\ HandledFirst'
  BY <1>2, <1>4 DEF OutboxInv, SentIsQueued, HandledFirst
<1>7. PublishedKept' /\ RowsCommitted'
  BY <1>2, <1>3 DEF OutboxInv, PublishedKept, RowsCommitted
<1>8. m \in committed
  BY <1>2 DEF OutboxInv, RowsCommitted
<1>9. UnderWay' /\ AnnouncedIsCommitted'
  BY <1>2, <1>4, <1>8 DEF OutboxInv, UnderWay, AnnouncedIsCommitted
<1>10. AcknowledgedOnce'
  BY <1>2, <1>3 DEF OutboxInv, AcknowledgedOnce
<1> QED
  BY <1>5, <1>6, <1>7, <1>9, <1>10 DEF OutboxInv

\* An expired claim changes nothing but its life.
LEMMA ExpireStep ==
    ASSUME OutboxInv, NEW m \in Message, Expire(m)
    PROVE  OutboxInv'
<1>1. row \in [Message -> OutboxRow]
  BY OutboxTypes
<1>2. row' = [row EXCEPT ![m].live = FALSE]
      /\ UNCHANGED <<committed, pub, reported, copies, con, handled>>
  BY DEF Expire
<1>3. row' \in [Message -> OutboxRow] /\ \A n \in Message : row'[n].state = row[n].state
  BY <1>1, <1>2 DEF OutboxRow
<1>4. OutboxTypeOK'
  BY <1>2, <1>3 DEF OutboxInv, OutboxTypeOK
<1>5. SentIsQueued' /\ HandledFirst' /\ PublishedKept' /\ RowsCommitted'
  BY <1>2, <1>3 DEF OutboxInv, SentIsQueued, HandledFirst, PublishedKept, RowsCommitted
<1>6. UnderWay' /\ AnnouncedIsCommitted' /\ AcknowledgedOnce'
  BY <1>2, <1>3 DEF OutboxInv, UnderWay, AnnouncedIsCommitted, AcknowledgedOnce
<1> QED
  BY <1>4, <1>5, <1>6 DEF OutboxInv

\* A call that turns away from its message, or ends, disturbs nothing.
LEMMA LeaveMessage ==
    ASSUME OutboxInv, NEW p \in Publisher,
           pub' \in [Publisher -> Call],
           pub'[p].at \in {"IDLE", "OVER"}, pub'[p].msg = NoMessage,
           \A q \in Publisher : q # p => pub'[q] = pub[q]
    PROVE  /\ \A q \in Publisher : pub'[q].at \in {"CLAIMED", "SENT"} <=> pub'[q].msg # NoMessage
           /\ \A q \in Publisher : pub'[q].at = "SENT" => q # p /\ pub[q].at = "SENT"
           /\ \A q \in Publisher :
                 pub'[q].at \in {"CLAIMED", "SENT"} => q # p /\ pub[q].at \in {"CLAIMED", "SENT"}
<1>1. \A q \in Publisher : pub[q].at \in {"CLAIMED", "SENT"} <=> pub[q].msg # NoMessage
  BY OutboxTypes
<1> QED
  BY <1>1

\* A send puts the message in the queue before the call counts it as sent.
LEMMA SendStep ==
    ASSUME OutboxInv, NEW p \in Publisher, NEW answer \in {"ACCEPTED", "REPLY_LOST", "REFUSED"},
           Send(p, answer)
    PROVE  OutboxInv'
<1> DEFINE m == pub[p].msg
<1>1. /\ pub \in [Publisher -> Call] /\ copies \in [Message -> 0..MaxCopies]
      /\ \A q \in Publisher : pub[q].at \in {"CLAIMED", "SENT"} <=> pub[q].msg # NoMessage
  BY OutboxTypes
<1>2. /\ pub[p].at = "CLAIMED" /\ (answer # "REFUSED" => copies[m] < MaxCopies)
      /\ copies' = [copies EXCEPT ![m] = IF answer = "REFUSED" THEN copies[m] ELSE copies[m] + 1]
      /\ pub' = AfterSend(p, answer)
      /\ UNCHANGED <<committed, row, reported, con, handled>>
  BY DEF Send
<1>3. m \in committed /\ m \in Message
  BY <1>2, OutboxTypes DEF OutboxInv, UnderWay
<1>4. pub' \in [Publisher -> Call]
      /\ \A q \in Publisher : q # p => pub'[q] = pub[q]
  BY <1>1, <1>2 DEF AfterSend, DoneWith, Call
<1>5. \/ answer = "ACCEPTED" /\ pub'[p].at = "SENT" /\ pub'[p].msg = m
      \/ pub'[p].at = "IDLE" /\ pub'[p].msg = NoMessage
  BY <1>1, <1>2 DEF AfterSend, DoneWith, Call
<1> HIDE DEF m
<1>6. /\ copies' \in [Message -> 0..MaxCopies]
      /\ \A n \in Message : n # m => copies'[n] = copies[n]
      /\ \A n \in Message : copies[n] > 0 => copies'[n] > 0
      /\ answer = "ACCEPTED" => copies'[m] > 0
  <2>1. copies[m] \in 0..MaxCopies
    BY <1>1, <1>3
  <2>2. CASE answer = "REFUSED"
    BY <1>1, <1>2, <1>3, <2>2
  <2>3. CASE answer # "REFUSED"
    <3>1. copies' = [copies EXCEPT ![m] = copies[m] + 1] /\ copies[m] + 1 \in 0..MaxCopies
          /\ copies[m] + 1 > 0
      BY <1>2, <2>1, <2>3, OutboxAssumption
    <3> QED
      BY <1>1, <1>3, <3>1
  <2> QED
    BY <2>2, <2>3
<1>7. \A q \in Publisher : pub'[q].at \in {"CLAIMED", "SENT"} <=> pub'[q].msg # NoMessage
  BY <1>1, <1>2, <1>4, <1>5 DEF m
<1>8. OutboxTypeOK'
  BY <1>2, <1>4, <1>6, <1>7 DEF OutboxInv, OutboxTypeOK
<1>9. SentIsQueued'
  <2>1. \A q \in Publisher : q # p /\ pub[q].at = "SENT" => pub[q].msg \in Message
    BY OutboxTypes DEF OutboxInv, UnderWay
  <2>2. ASSUME NEW q \in Publisher, pub'[q].at = "SENT"
        PROVE  copies'[pub'[q].msg] > 0 \/ pub'[q].msg \in handled'
    <3>1. CASE q = p
      BY <1>5, <1>6, <2>2, <3>1
    <3>2. CASE q # p
      BY <1>2, <1>4, <1>6, <2>1, <2>2, <3>2 DEF OutboxInv, SentIsQueued
    <3> QED
      BY <3>1, <3>2
  <2> QED
    BY <2>2 DEF SentIsQueued
<1>10. PublishedKept' /\ HandledFirst' /\ RowsCommitted'
  BY <1>2, <1>6 DEF OutboxInv, PublishedKept, HandledFirst, RowsCommitted
<1>11. UnderWay'
  BY <1>2, <1>3, <1>4, <1>5 DEF OutboxInv, UnderWay
<1>12. AnnouncedIsCommitted'
  BY <1>2, <1>3, <1>6 DEF OutboxInv, AnnouncedIsCommitted
<1>13. AcknowledgedOnce'
  BY <1>2 DEF OutboxInv, AcknowledgedOnce
<1> QED
  BY <1>8, <1>9, <1>10, <1>11, <1>12, <1>13 DEF OutboxInv

\* An acknowledgement by the claim in force publishes what was sent; any other
\* changes nothing.
LEMMA AcknowledgeStep ==
    ASSUME OutboxInv, NEW p \in Publisher, Acknowledge(p)
    PROVE  OutboxInv'
<1> DEFINE m == pub[p].msg
<1>1. /\ pub \in [Publisher -> Call] /\ row \in [Message -> OutboxRow]
      /\ reported \in [Publisher -> SUBSET Message]
  BY OutboxTypes
<1>2. /\ pub[p].at = "SENT" /\ pub' = DoneWith(p)
      /\ UNCHANGED <<committed, copies, con, handled>>
  BY DEF Acknowledge
<1>3. m \in committed /\ m \in Message /\ (copies[m] > 0 \/ m \in handled)
  BY <1>2, OutboxTypes DEF OutboxInv, UnderWay, SentIsQueued
<1>4. /\ pub' \in [Publisher -> Call] /\ pub'[p].at = "IDLE" /\ pub'[p].msg = NoMessage
      /\ \A q \in Publisher : q # p => pub'[q] = pub[q]
  BY <1>1, <1>2 DEF DoneWith, Call
<1>5. /\ \A q \in Publisher : pub'[q].at \in {"CLAIMED", "SENT"} <=> pub'[q].msg # NoMessage
      /\ \A q \in Publisher : pub'[q].at = "SENT" => q # p /\ pub[q].at = "SENT"
      /\ \A q \in Publisher :
            pub'[q].at \in {"CLAIMED", "SENT"} => q # p /\ pub[q].at \in {"CLAIMED", "SENT"}
  BY <1>4, LeaveMessage
<1>6. \/ UNCHANGED <<row, reported>>
      \/ /\ row[m].state = "PENDING"
         /\ row' = [row EXCEPT ![m].state = "PUBLISHED", ![m].live = FALSE]
         /\ reported' = [reported EXCEPT ![p] = reported[p] \cup {m}]
  BY DEF Acknowledge, MayAcknowledge
<1> HIDE DEF m
<1>7. SentIsQueued' /\ HandledFirst' /\ UnderWay' /\ AnnouncedIsCommitted'
  BY <1>2, <1>4, <1>5 DEF OutboxInv, SentIsQueued, HandledFirst, UnderWay, AnnouncedIsCommitted
<1>8. CASE UNCHANGED <<row, reported>>
  <2>1. OutboxTypeOK'
    BY <1>2, <1>4, <1>5, <1>8 DEF OutboxInv, OutboxTypeOK
  <2>2. PublishedKept' /\ RowsCommitted'
    BY <1>2, <1>8 DEF OutboxInv, PublishedKept, RowsCommitted
  <2>3. AcknowledgedOnce'
    BY <1>8 DEF OutboxInv, AcknowledgedOnce
  <2> QED
    BY <1>7, <2>1, <2>2, <2>3 DEF OutboxInv
<1>9. CASE /\ row[m].state = "PENDING"
           /\ row' = [row EXCEPT ![m].state = "PUBLISHED", ![m].live = FALSE]
           /\ reported' = [reported EXCEPT ![p] = reported[p] \cup {m}]
  <2>1. row' \in [Message -> OutboxRow] /\ row'[m].state = "PUBLISHED"
        /\ \A n \in Message : n # m => row'[n] = row[n]
    BY <1>1, <1>3, <1>9 DEF OutboxRow
  <2>2. reported' \in [Publisher -> SUBSET Message] /\ reported'[p] = reported[p] \cup {m}
        /\ \A q \in Publisher : q # p => reported'[q] = reported[q]
    BY <1>1, <1>3, <1>9
  <2>3. OutboxTypeOK'
    BY <1>2, <1>4, <1>5, <2>1, <2>2 DEF OutboxInv, OutboxTypeOK
  <2>4. PublishedKept'
    BY <1>2, <1>3, <2>1 DEF OutboxInv, PublishedKept
  <2>5. RowsCommitted'
    BY <1>2, <1>3, <2>1 DEF OutboxInv, RowsCommitted
  <2>6. \A q \in Publisher : m \notin reported[q]
    BY <1>3, <1>9 DEF OutboxInv, AcknowledgedOnce
  <2>7. AcknowledgedOnce'
    <3>1. ASSUME NEW n \in Message, n # m
          PROVE  {q \in Publisher : n \in reported'[q]} = {q \in Publisher : n \in reported[q]}
      BY <2>2, <3>1
    <3>2. {q \in Publisher : m \in reported'[q]} = {p}
      BY <2>2, <2>6
    <3>3. ASSUME NEW n \in Message
          PROVE  LET reporters == {q \in Publisher : n \in reported'[q]}
                 IN  /\ \A q, r \in reporters : q = r
                     /\ reporters # {} <=> row'[n].state = "PUBLISHED"
      <4>1. CASE n = m
        BY <2>1, <3>2, <4>1
      <4>2. CASE n # m
        <5>1. row'[n] = row[n]
          BY <2>1, <4>2
        <5> QED
          BY <3>1, <4>2, <5>1 DEF OutboxInv, AcknowledgedOnce
      <4> QED
        BY <4>1, <4>2
    <3> QED
      BY <3>3 DEF AcknowledgedOnce
  <2> QED
    BY <1>7, <2>3, <2>4, <2>5, <2>7 DEF OutboxInv
<1> QED
  BY <1>6, <1>8, <1>9

\* A call may end anywhere.
LEMMA EndPublisherStep ==
    ASSUME OutboxInv, NEW p \in Publisher, EndPublisher(p)
    PROVE  OutboxInv'
<1>1. pub \in [Publisher -> Call]
  BY OutboxTypes
<1>2. /\ pub' = [pub EXCEPT ![p] = [at |-> "OVER", msg |-> NoMessage, tried |-> {}]]
      /\ UNCHANGED <<committed, row, reported, copies, con, handled>>
  BY DEF EndPublisher
<1>3. /\ pub' \in [Publisher -> Call] /\ pub'[p].at = "OVER" /\ pub'[p].msg = NoMessage
      /\ \A q \in Publisher : q # p => pub'[q] = pub[q]
  BY <1>1, <1>2 DEF Call
<1>4. /\ \A q \in Publisher : pub'[q].at \in {"CLAIMED", "SENT"} <=> pub'[q].msg # NoMessage
      /\ \A q \in Publisher : pub'[q].at = "SENT" => q # p /\ pub[q].at = "SENT"
      /\ \A q \in Publisher :
            pub'[q].at \in {"CLAIMED", "SENT"} => q # p /\ pub[q].at \in {"CLAIMED", "SENT"}
  BY <1>3, LeaveMessage
<1>5. OutboxTypeOK'
  BY <1>2, <1>3, <1>4 DEF OutboxInv, OutboxTypeOK
<1>6. SentIsQueued' /\ HandledFirst' /\ UnderWay'
  BY <1>2, <1>3, <1>4 DEF OutboxInv, SentIsQueued, HandledFirst, UnderWay
<1>7. PublishedKept' /\ RowsCommitted' /\ AnnouncedIsCommitted' /\ AcknowledgedOnce'
  BY <1>2 DEF OutboxInv, PublishedKept, RowsCommitted, AnnouncedIsCommitted, AcknowledgedOnce
<1> QED
  BY <1>5, <1>6, <1>7 DEF OutboxInv

\* A consumer's step keeps the invariant when what it works on is committed,
\* what it calls handled is, and the queue loses only handled messages.
LEMMA ConsumerStep ==
    ASSUME OutboxInv, UNCHANGED <<committed, row, pub, reported>>,
           con' \in [Consumer -> Work], copies' \in [Message -> 0..MaxCopies],
           handled \subseteq handled', handled' \subseteq committed,
           \A m \in Message : (copies[m] > 0 => copies'[m] > 0 \/ m \in handled')
                              /\ (copies'[m] > 0 => copies[m] > 0),
           \A c \in Consumer : /\ con'[c].at # "IDLE" => con'[c].msg \in committed
                               /\ con'[c].at = "HANDLED" => con'[c].msg \in handled'
    PROVE  OutboxInv'
<1>1. committed \subseteq Message
  BY OutboxTypes
<1>2. OutboxTypeOK'
  BY <1>1 DEF OutboxInv, OutboxTypeOK
<1>3. SentIsQueued'
  <2>1. \A p \in Publisher : pub[p].at = "SENT" => pub[p].msg \in Message
    BY <1>1 DEF OutboxInv, UnderWay
  <2> QED
    BY <2>1 DEF OutboxInv, SentIsQueued
<1>4. PublishedKept' /\ HandledFirst' /\ RowsCommitted'
  BY DEF OutboxInv, PublishedKept, HandledFirst, RowsCommitted
<1>5. UnderWay' /\ AnnouncedIsCommitted'
  BY DEF OutboxInv, UnderWay, AnnouncedIsCommitted
<1>6. AcknowledgedOnce'
  BY DEF OutboxInv, AcknowledgedOnce
<1> QED
  BY <1>2, <1>3, <1>4, <1>5, <1>6 DEF OutboxInv

\* A delivery is of a committed message.
LEMMA ReceiveStep ==
    ASSUME OutboxInv, NEW c \in Consumer, NEW m \in Message, Receive(c, m)
    PROVE  OutboxInv'
<1>1. con \in [Consumer -> Work] /\ copies \in [Message -> 0..MaxCopies]
      /\ handled \subseteq committed
  BY OutboxTypes DEF OutboxInv, AnnouncedIsCommitted
<1>2. m \in committed
  BY DEF OutboxInv, AnnouncedIsCommitted, Receive
<1>3. con' = [con EXCEPT ![c] = [at |-> "HANDLING", msg |-> m]]
      /\ UNCHANGED <<committed, row, pub, reported, copies, handled>>
  BY DEF Receive
<1>4. con' \in [Consumer -> Work]
  BY <1>1, <1>3 DEF Work
<1>5. \A d \in Consumer : /\ con'[d].at # "IDLE" => con'[d].msg \in committed
                          /\ con'[d].at = "HANDLED" => con'[d].msg \in handled
  BY <1>1, <1>2, <1>3 DEF OutboxInv, UnderWay, HandledFirst
<1> QED
  BY <1>1, <1>3, <1>4, <1>5, ConsumerStep

\* A failed handler leaves the delivery where it is.
LEMMA HandlerFailsStep ==
    ASSUME OutboxInv, NEW c \in Consumer, HandlerFails(c)
    PROVE  OutboxInv'
<1>1. con \in [Consumer -> Work] /\ copies \in [Message -> 0..MaxCopies]
      /\ handled \subseteq committed
  BY OutboxTypes DEF OutboxInv, AnnouncedIsCommitted
<1>2. con' = [con EXCEPT ![c] = [at |-> "IDLE", msg |-> NoMessage]]
      /\ UNCHANGED <<committed, row, pub, reported, copies, handled>>
  BY DEF HandlerFails, AfterFailure, NextDelivery
<1>3. con' \in [Consumer -> Work]
  BY <1>1, <1>2 DEF Work
<1>4. \A d \in Consumer : /\ con'[d].at # "IDLE" => con'[d].msg \in committed
                          /\ con'[d].at = "HANDLED" => con'[d].msg \in handled
  BY <1>1, <1>2 DEF OutboxInv, UnderWay, HandledFirst
<1> QED
  BY <1>1, <1>2, <1>3, <1>4, ConsumerStep

\* A handler's commit makes the message handled.
LEMMA HandlerCommitsStep ==
    ASSUME OutboxInv, NEW c \in Consumer, HandlerCommits(c)
    PROVE  OutboxInv'
<1>1. con \in [Consumer -> Work] /\ copies \in [Message -> 0..MaxCopies]
      /\ handled \subseteq committed
  BY OutboxTypes DEF OutboxInv, AnnouncedIsCommitted
<1>2. /\ con[c].at = "HANDLING"
      /\ handled' = handled \cup {con[c].msg}
      /\ con' = [con EXCEPT ![c].at = "HANDLED"]
      /\ UNCHANGED <<committed, row, pub, reported, copies>>
  BY DEF HandlerCommits
<1>3. con[c].msg \in committed
  BY <1>2 DEF OutboxInv, UnderWay
<1>4. con' \in [Consumer -> Work]
      /\ con'[c].msg = con[c].msg /\ \A d \in Consumer : d # c => con'[d] = con[d]
  BY <1>1, <1>2 DEF Work
<1>5. \A d \in Consumer : /\ con'[d].at # "IDLE" => con'[d].msg \in committed
                          /\ con'[d].at = "HANDLED" => con'[d].msg \in handled'
  BY <1>2, <1>3, <1>4 DEF OutboxInv, UnderWay, HandledFirst
<1> QED
  BY <1>1, <1>2, <1>3, <1>4, <1>5, ConsumerStep

\* Only a handled delivery is deleted.
LEMMA DeleteStep ==
    ASSUME OutboxInv, NEW c \in Consumer, NEW done \in BOOLEAN, Delete(c, done)
    PROVE  OutboxInv'
<1> DEFINE m == con[c].msg
<1>1. con \in [Consumer -> Work] /\ copies \in [Message -> 0..MaxCopies]
      /\ handled \subseteq committed /\ committed \subseteq Message
  BY OutboxTypes DEF OutboxInv, AnnouncedIsCommitted
<1>2. /\ con[c].at = "HANDLED"
      /\ copies' = [copies EXCEPT ![m] = IF done /\ copies[m] > 0 THEN copies[m] - 1 ELSE copies[m]]
      /\ con' = [con EXCEPT ![c] = [at |-> "IDLE", msg |-> NoMessage]]
      /\ UNCHANGED <<committed, row, pub, reported, handled>>
  BY DEF Delete, NextDelivery
<1>3. m \in handled /\ m \in Message
  BY <1>1, <1>2 DEF OutboxInv, HandledFirst
<1> HIDE DEF m
<1>4. copies' \in [Message -> 0..MaxCopies]
      /\ (\A n \in Message : n # m => copies'[n] = copies[n])
      /\ (copies'[m] > 0 => copies[m] > 0)
  <2>1. copies[m] \in 0..MaxCopies
    BY <1>1, <1>3
  <2>2. CASE done /\ copies[m] > 0
    <3>1. copies[m] - 1 \in 0..MaxCopies
      BY <2>1, <2>2, OutboxAssumption
    <3>2. (IF done /\ copies[m] > 0 THEN copies[m] - 1 ELSE copies[m]) = copies[m] - 1
      BY <2>2
    <3>3. copies' = [copies EXCEPT ![m] = copies[m] - 1]
      BY <1>2, <3>2, Zenon
    <3> QED
      BY <1>1, <1>3, <2>2, <3>1, <3>3
  <2>3. CASE ~(done /\ copies[m] > 0)
    BY <1>1, <1>2, <1>3, <2>3
  <2> QED
    BY <2>2, <2>3
<1>5. con' \in [Consumer -> Work]
  BY <1>1, <1>2 DEF Work
<1>6. \A d \in Consumer : /\ con'[d].at # "IDLE" => con'[d].msg \in committed
                          /\ con'[d].at = "HANDLED" => con'[d].msg \in handled
  BY <1>1, <1>2 DEF OutboxInv, UnderWay, HandledFirst
<1>7. \A n \in Message : (copies[n] > 0 => copies'[n] > 0 \/ n \in handled)
                         /\ (copies'[n] > 0 => copies[n] > 0)
  BY <1>3, <1>4
<1> QED
  BY <1>1, <1>2, <1>4, <1>5, <1>6, <1>7, ConsumerStep

-----------------------------------------------------------------------------
\* Every step keeps the invariant.
LEMMA StepOutboxInv ==
    ASSUME OutboxInv, [OutboxNext]_outboxVars
    PROVE  OutboxInv'
<1>1. CASE UNCHANGED outboxVars
  <2>1. OutboxTypeOK'
    BY <1>1 DEF OutboxInv, OutboxTypeOK, outboxVars
  <2>2. SentIsQueued' /\ PublishedKept' /\ HandledFirst' /\ RowsCommitted' /\ UnderWay'
    BY <1>1 DEF OutboxInv, SentIsQueued, PublishedKept, HandledFirst, RowsCommitted, UnderWay, outboxVars
  <2>3. AnnouncedIsCommitted' /\ AcknowledgedOnce'
    BY <1>1 DEF OutboxInv, AnnouncedIsCommitted, AcknowledgedOnce, outboxVars
  <2> QED
    BY <2>1, <2>2, <2>3 DEF OutboxInv
<1>2. ASSUME NEW m \in Message, Stage(m) PROVE OutboxInv'
  BY <1>2, RowStateStep DEF Stage, Enqueued
<1>3. ASSUME NEW m \in Message, Commit(m) PROVE OutboxInv'
  BY <1>3, RowStateStep DEF Commit
<1>4. ASSUME NEW m \in Message, Rollback(m) PROVE OutboxInv'
  BY <1>4, RowStateStep DEF Rollback
<1>5. ASSUME NEW m \in Message, Expire(m) PROVE OutboxInv'
  BY <1>5, ExpireStep
<1>6. ASSUME NEW p \in Publisher, NEW m \in Message, Claim(p, m) PROVE OutboxInv'
  BY <1>6, ClaimStep
<1>7. ASSUME NEW p \in Publisher, NEW o \in {"ACCEPTED", "REPLY_LOST", "REFUSED"}, Send(p, o)
      PROVE  OutboxInv'
  BY <1>7, SendStep
<1>8. ASSUME NEW p \in Publisher, Acknowledge(p) PROVE OutboxInv'
  BY <1>8, AcknowledgeStep
<1>9. ASSUME NEW p \in Publisher, EndPublisher(p) PROVE OutboxInv'
  BY <1>9, EndPublisherStep
<1>10. ASSUME NEW c \in Consumer, NEW m \in Message, Receive(c, m) PROVE OutboxInv'
  BY <1>10, ReceiveStep
<1>11. ASSUME NEW c \in Consumer, HandlerFails(c) PROVE OutboxInv'
  BY <1>11, HandlerFailsStep
<1>12. ASSUME NEW c \in Consumer, HandlerCommits(c) PROVE OutboxInv'
  BY <1>12, HandlerCommitsStep
<1>13. ASSUME NEW c \in Consumer, NEW done \in BOOLEAN, Delete(c, done) PROVE OutboxInv'
  BY <1>13, DeleteStep
<1> QED
  BY <1>1, <1>2, <1>3, <1>4, <1>5, <1>6, <1>7, <1>8, <1>9, <1>10, <1>11, <1>12, <1>13 DEF OutboxNext

\* The inductive invariant of delivery holds in every reachable state.
THEOREM DeliveryInvariance == OutboxSpec => []OutboxInv
<1>1. OutboxInit => OutboxInv
  BY InitOutboxInv
<1>2. OutboxInv /\ [OutboxNext]_outboxVars => OutboxInv'
  BY StepOutboxInv
<1> QED
  BY <1>1, <1>2, PTL DEF OutboxSpec

\* Every row, call and delivery has its type.
THEOREM DeliveryTypes == OutboxSpec => []OutboxTypeOK
<1>1. OutboxInv => OutboxTypeOK
  BY DEF OutboxInv
<1> QED
  BY <1>1, DeliveryInvariance, PTL

\* A committed transition is pending, queued or handled, whoever dies and
\* whatever is lost on the way.
THEOREM NothingLost == OutboxSpec => []NoneLost
<1>1. OutboxInv => NoneLost
  BY OutboxTypes DEF OutboxInv, NoneLost, RowsCommitted, PublishedKept
<1> QED
  BY <1>1, DeliveryInvariance, PTL

\* Nothing that rolled back is ever announced.
THEOREM OnlyCommittedAnnounced == OutboxSpec => []AnnouncedIsCommitted
<1>1. OutboxInv => AnnouncedIsCommitted
  BY DEF OutboxInv
<1> QED
  BY <1>1, DeliveryInvariance, PTL

\* One call at most counts a message as published, even when clocks disagree
\* and claims are taken over early.
THEOREM OneAcknowledgement == OutboxSpec => []AcknowledgedOnce
<1>1. OutboxInv => AcknowledgedOnce
  BY DEF OutboxInv
<1> QED
  BY <1>1, DeliveryInvariance, PTL

=============================================================================
