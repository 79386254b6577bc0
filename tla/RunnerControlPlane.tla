-------------------------- MODULE RunnerControlPlane --------------------------
(***************************************************************************)
(* The control plane that puts one run at a time on one physical desktop:  *)
(* runner rows, desktop leases, dispatch tickets and supervisor sessions,  *)
(* the action journal, and the run rows they move (RunReducers).           *)
(*                                                                         *)
(* Every action is one PostgreSQL transaction.  The transactions lock the  *)
(* runner, the run and the lease they decide about, so each is one atomic  *)
(* step; revoke_runner reads without a lock and then writes, so it is two. *)
(*                                                                         *)
(* A run is admitted to a desktop at most once (admit_to_desktop accepts   *)
(* only QUEUED), so its lease, attempt, ticket and session are unique and  *)
(* are all indexed by the run.  Wall clocks are abstracted to the moment   *)
(* they matter: a lease becomes due, a ticket lapses, authority ends.      *)
(***************************************************************************)
EXTENDS RunReducers, Sequences, FiniteSets

CONSTANTS
    Run,            \* runs of one workspace
    Runner,         \* runner rows that may ever be enrolled
    Desk,           \* Desk[w]: the physical session (session_key) of row w
    Times,          \* clock readings written into run rows
    MaxEpoch,       \* bound on leases per runner row
    MaxActions,     \* bound on actions per attempt (actionBudget)
    LibraryCalls,   \* whether operations only tests call are taken too
    Retirable       \* rows that revoke_runner may be called for

ASSUME ControlAssumption ==
    /\ Times \subseteq Nat \ {0}
    /\ MaxEpoch \in Nat /\ MaxActions \in Nat
    /\ LibraryCalls \in BOOLEAN /\ Retirable \subseteq Runner

VARIABLES
    runs,       \* run rows
    runner,     \* runner rows
    preflight,  \* latest runner_preflight row: epoch, and the run it clears
    lease,      \* the desktop_lease of each run
    ticket,     \* the supervisor_dispatch_ticket of each run
    authority,  \* approval, seal, session lifetime and budgets still current
    sending,    \* the controller awaits the transport's acknowledgement
    actions,    \* runner_action rows of each attempt, by sequence
    reader,     \* actions the reader stream holds an observation of
    observer,   \* afterActionSequence of the observer's closed final sample
    hand,       \* the physical supervisor: what the desktop may still do
    revoking    \* revoke_runner calls between their SELECT and their UPDATE

vars == <<runs, runner, preflight, lease, ticket, authority, sending, actions,
          reader, observer, hand, revoking>>

NoRun    == "NO_RUN"
NoRunner == "NO_RUNNER"

RunnerStatus == {"ABSENT", "OFFLINE", "PREFLIGHT_REQUIRED", "READY", "BUSY", "QUARANTINED"}
RunnerRow    == [status : RunnerStatus, epoch : Nat, revoked : BOOLEAN]
\* RELEASED: released without stop proof.  STOPPED: released by an
\* acknowledged stop at the lease's own epoch.
LeaseRow     == [runner : Runner \cup {NoRunner}, epoch : Nat,
                 state : {"NONE", "OPEN", "RELEASED", "STOPPED"},
                 due : BOOLEAN, cancel : BOOLEAN]
PreflightRow == [epoch : Nat, run : Run \cup {NoRun}]
TicketState  == {"NONE", "ISSUED", "LAPSED", "ACCEPTED", "REVOKED"}
Action       == [stop : BOOLEAN,
                 state : {"INTENT", "DISPATCHED", "SUCCEEDED", "FAILED", "AMBIGUOUS"}]
\* ACTING: a delivered command may reach the operating system at any moment.
\* SETTLED: the reader adapter answered and the answer is not reported yet.
Hand         == {"IDLE", "ACTING", "SETTLED"}

Init ==
    /\ runs = [r \in Run |-> NewRun]
    /\ runner = [w \in Runner |-> [status |-> "ABSENT", epoch |-> 0, revoked |-> FALSE]]
    /\ preflight = [w \in Runner |-> [epoch |-> 0, run |-> NoRun]]
    /\ lease = [r \in Run |-> [runner |-> NoRunner, epoch |-> 0, state |-> "NONE",
                               due |-> FALSE, cancel |-> FALSE]]
    /\ ticket = [r \in Run |-> "NONE"]
    /\ authority = [r \in Run |-> TRUE]
    /\ sending = [r \in Run |-> FALSE]
    /\ actions = [r \in Run |-> <<>>]
    /\ reader = [r \in Run |-> {}]
    /\ observer = [r \in Run |-> 0]
    /\ hand = [r \in Run |-> "IDLE"]
    /\ revoking = {}

-----------------------------------------------------------------------------
(* What the transactions read.                                             *)

InService(w) == runner[w].status # "ABSENT" /\ ~runner[w].revoked
SameDesk(w, v) == Desk[w] = Desk[v]

\* Runs holding an unreleased lease on w's physical session, through any row.
OpenOnDesk(w) == {r \in Run : lease[r].state = "OPEN" /\ SameDesk(lease[r].runner, w)}
\* Unreleased leases of this very row.
OpenOnRow(w) == {r \in Run : lease[r].state = "OPEN" /\ lease[r].runner = w}

\* Mutant: revocation is checked at admission only.
RevokedIgnored(r, status) ==
    LET l == lease[r]
    IN  /\ l.state = "OPEN" /\ ~l.due
        /\ runs[r].status = status
        /\ runner[l.runner].status # "QUARANTINED"

\* _assert_dispatch_ready: desktop, lease, run and latest preflight, all current.
DispatchReady(r, status) ==
    LET l == lease[r]
        w == l.runner
    IN  /\ l.state = "OPEN" /\ ~l.cancel /\ ~l.due
        /\ ~runner[w].revoked /\ runner[w].status # "QUARANTINED"
        /\ runner[w].epoch = l.epoch
        /\ runs[r].status = status /\ runs[r].epoch = l.epoch
        /\ ~CancellationRequested(runs[r]) /\ ~runs[r].quarantined
        /\ preflight[w].run = r /\ preflight[w].epoch >= l.epoch - 1

\* _live: what every supervisor session request revalidates under the locks.
Live(r) == ticket[r] = "ACCEPTED" /\ authority[r] /\ DispatchReady(r, "RUNNING")

Count(r) == Len(actions[r])
LastAction(r) == actions[r][Count(r)]
AwaitsResult(a) == a.state \in {"INTENT", "DISPATCHED"}
Unresolved(r) == \E i \in 1..Count(r) : AwaitsResult(actions[r][i])
\* _action: only the newest entry can still be without a result.
LastIs(r, states) == Count(r) > 0 /\ LastAction(r).state \in states
LastBecomes(r, state) == [actions EXCEPT ![r][Count(r)].state = state]

RowBecomes(w, status) == [runner EXCEPT ![w].status = status]
Quarantine(w) == RowBecomes(w, "QUARANTINED")
\* Nothing reads the deadline or the cancellation mark of a closed lease: they
\* are dropped with it.
Closed(l, state) == [l EXCEPT !.state = state, !.due = FALSE, !.cancel = FALSE]
\* COALESCE(released_at, ...): an earlier release keeps its reason.
Released(r) ==
    [lease EXCEPT ![r] = IF lease[r].state = "OPEN" THEN Closed(@, "RELEASED") ELSE @]

-----------------------------------------------------------------------------
(* Runner rows: enrollment, preflight, reset, retirement.                  *)

Enroll(w) ==
    /\ runner[w].status = "ABSENT"
    /\ ~\E v \in Runner : SameDesk(v, w) /\ InService(v)
    /\ runner' = RowBecomes(w, "PREFLIGHT_REQUIRED")
    /\ UNCHANGED <<runs, preflight, lease, ticket, authority, sending, actions,
                   reader, observer, hand, revoking>>

\* A complete successful preflight for run r's manifest, recorded at the
\* epoch in force; READY is reachable from PREFLIGHT_REQUIRED only.
PreflightSucceeds(w, r) ==
    /\ InService(w)
    /\ runner[w].status = "PREFLIGHT_REQUIRED"
    /\ preflight' = [preflight EXCEPT ![w] = [epoch |-> runner[w].epoch, run |-> r]]
    /\ runner' = RowBecomes(w, "READY")
    /\ UNCHANGED <<runs, lease, ticket, authority, sending, actions, reader,
                   observer, hand, revoking>>

\* An incomplete, failed or drifted preflight quarantines from every status.
PreflightFails(w) ==
    /\ InService(w)
    /\ preflight' = [preflight EXCEPT ![w] = [epoch |-> runner[w].epoch, run |-> NoRun]]
    /\ runner' = Quarantine(w)
    /\ UNCHANGED <<runs, lease, ticket, authority, sending, actions, reader,
                   observer, hand, revoking>>

\* Mutant: takes a reset's word before the old supervisor is proved gone.
UnprovedReset(w, proved) == RowBecomes(w, "PREFLIGHT_REQUIRED")

AfterReset(w, proved) ==
    IF proved THEN RowBecomes(w, "PREFLIGHT_REQUIRED") ELSE Quarantine(w)

\* reset_runner: supersedes any open lease; a proved reset has restarted the
\* supervisor and the reader of the physical session, an unproved one leaves the
\* desktop quarantined.
Reset(w, proved) ==
    /\ InService(w)
    /\ lease' = [r \in Run |-> IF r \in OpenOnRow(w)
                               THEN Closed(lease[r], "RELEASED") ELSE lease[r]]
    /\ runner' = AfterReset(w, proved)
    /\ hand' = [r \in Run |-> IF proved /\ lease[r].state # "NONE"
                                       /\ SameDesk(lease[r].runner, w)
                              THEN "IDLE" ELSE hand[r]]
    /\ UNCHANGED <<runs, preflight, ticket, authority, sending, actions, reader,
                   observer, revoking>>

\* revoke_runner, first statement: an unlocked read of the row's open leases.
RevokeCheck(w) ==
    /\ LibraryCalls /\ w \in Retirable \ revoking
    /\ InService(w)
    /\ OpenOnRow(w) = {}
    /\ revoking' = revoking \cup {w}
    /\ UNCHANGED <<runs, runner, preflight, lease, ticket, authority, sending,
                   actions, reader, observer, hand>>

\* revoke_runner, second statement: the update, on whatever has happened since.
RevokeCommit(w) ==
    /\ w \in revoking
    /\ ~runner[w].revoked
    /\ runner' = [runner EXCEPT ![w] = [@ EXCEPT !.revoked = TRUE, !.status = "OFFLINE"]]
    /\ revoking' = revoking \ {w}
    /\ UNCHANGED <<runs, preflight, lease, ticket, authority, sending, actions,
                   reader, observer, hand>>

-----------------------------------------------------------------------------
(* Leases.                                                                 *)

\* Mutant: hands out the row's current epoch again.
ReusedEpoch(w) == IF runner[w].epoch = 0 THEN 1 ELSE runner[w].epoch

\* Mutant: the index is kept per runner row instead of per physical session.
RowIndexed(w) == InService(w) /\ OpenOnRow(w) = {} /\ runner[w].status = "READY"

NextEpoch(w) == runner[w].epoch + 1
\* The refusals of admit_lease, the partial unique index among them.
Leasable(w) ==
    /\ InService(w)
    /\ OpenOnDesk(w) = {}
    /\ runner[w].status = "READY"

AdmitLease(w, r) ==
    LET epoch == NextEpoch(w)
    IN  /\ Leasable(w)
        /\ epoch <= MaxEpoch
        /\ MayAdmitToDesktop(runs[r], epoch)
        /\ lease' = [lease EXCEPT ![r] = [runner |-> w, epoch |-> epoch, state |-> "OPEN",
                                          due |-> FALSE, cancel |-> FALSE]]
        /\ runner' = [runner EXCEPT ![w] = [@ EXCEPT !.epoch = epoch, !.status = "BUSY"]]
        /\ runs' = [runs EXCEPT ![r] = AdmittedToDesktop(@, epoch)]
        /\ UNCHANGED <<preflight, ticket, authority, sending, actions, reader,
                       observer, hand, revoking>>

\* The clock passes deadline_at.
LeaseDue(r) ==
    /\ lease[r].state = "OPEN" /\ ~lease[r].due
    /\ lease' = [lease EXCEPT ![r].due = TRUE]
    /\ UNCHANGED <<runs, runner, preflight, ticket, authority, sending, actions,
                   reader, observer, hand, revoking>>

\* A heartbeat moves the deadline of any unreleased lease, a passed one too.
Heartbeat(r) ==
    /\ LibraryCalls
    /\ lease[r].state = "OPEN" /\ lease[r].due
    /\ lease' = [lease EXCEPT ![r].due = FALSE]
    /\ UNCHANGED <<runs, runner, preflight, ticket, authority, sending, actions,
                   reader, observer, hand, revoking>>

\* request_cancellation on the lease: the run row is not touched.
LeaseCancel(r) ==
    /\ LibraryCalls
    /\ lease[r].state = "OPEN" /\ ~lease[r].cancel
    /\ lease' = [lease EXCEPT ![r].cancel = TRUE]
    /\ UNCHANGED <<runs, runner, preflight, ticket, authority, sending, actions,
                   reader, observer, hand, revoking>>

\* acknowledge_stop on the lease.  A quarantined runner keeps its reason, and
\* the CHECK quarantine_has_a_reason then aborts the transaction.
LeaseStopAcknowledged(r) ==
    LET w == lease[r].runner
    IN  /\ LibraryCalls
        /\ lease[r].state = "OPEN" /\ lease[r].cancel
        /\ ~Unresolved(r)
        /\ runner[w].status # "QUARANTINED"
        /\ lease' = [lease EXCEPT ![r] = Closed(@, "STOPPED")]
        /\ runner' = RowBecomes(w, "PREFLIGHT_REQUIRED")
        /\ UNCHANGED <<runs, preflight, ticket, authority, sending, actions, reader,
                       observer, hand, revoking>>

\* fence_expired_leases: every due lease at once, each desktop quarantined.
FenceExpired ==
    LET due == {r \in Run : lease[r].state = "OPEN" /\ lease[r].due}
    IN  /\ LibraryCalls /\ due # {}
        /\ lease' = [r \in Run |-> IF r \in due THEN Closed(lease[r], "RELEASED")
                                   ELSE lease[r]]
        /\ runner' = [w \in Runner |-> IF \E r \in due : lease[r].runner = w
                                       THEN [runner[w] EXCEPT !.status = "QUARANTINED"]
                                       ELSE runner[w]]
        /\ UNCHANGED <<runs, preflight, ticket, authority, sending, actions, reader,
                       observer, hand, revoking>>

-----------------------------------------------------------------------------
(* Dispatch: the controller's commitment and its recovery.                 *)

\* Approval revoked or expired, seal or session lifetime over, budget spent: at
\* any moment, recorded while a leased or running run still depends on it.
AuthorityEnds(r) ==
    /\ authority[r] /\ runs[r].status \in {"LEASED", "RUNNING"}
    /\ authority' = [authority EXCEPT ![r] = FALSE]
    /\ UNCHANGED <<runs, runner, preflight, lease, ticket, sending, actions,
                   reader, observer, hand, revoking>>

\* ManualRunController.dispatch up to its commit: RUNNING and the ticket together.
Dispatch(r) ==
    /\ DispatchReady(r, "LEASED") /\ authority[r]
    /\ MayProgress(runs[r])
    /\ runs' = [runs EXCEPT ![r] = Progressed(@)]
    /\ ticket' = [ticket EXCEPT ![r] = "ISSUED"]
    /\ sending' = [sending EXCEPT ![r] = TRUE]
    /\ UNCHANGED <<runner, preflight, lease, authority, actions, reader, observer,
                   hand, revoking>>

HandoffAcknowledged(r) ==
    /\ sending[r]
    /\ sending' = [sending EXCEPT ![r] = FALSE]
    /\ UNCHANGED <<runs, runner, preflight, lease, ticket, authority, actions,
                   reader, observer, hand, revoking>>

\* Mutant: recovery that does not compare epochs.
AnyHandoff(r) == lease[r].state # "NONE"

\* The identity check of interrupt_manual_handoff.
CurrentHandoff(r) ==
    /\ lease[r].state # "NONE"
    /\ runner[lease[r].runner].epoch = lease[r].epoch
    /\ runs[r].epoch = lease[r].epoch

\* The writes of interrupt_manual_handoff: one transaction fences everything.
InterruptHandoff(r) ==
    /\ ticket' = [ticket EXCEPT ![r] = "REVOKED"]
    /\ lease' = Released(r)
    /\ runner' = Quarantine(lease[r].runner)
    /\ runs' = [runs EXCEPT ![r] = Interrupted(@)]

\* Timeout, transport error or cancellation of the caller after the commit: the
\* handoff is interrupted, or refused when it is no longer this run's to fence.
HandoffUnknown(r) ==
    /\ sending[r]
    /\ sending' = [sending EXCEPT ![r] = FALSE]
    /\ IF CurrentHandoff(r) /\ runs[r].status = "RUNNING"
       THEN InterruptHandoff(r)
       ELSE UNCHANGED <<ticket, lease, runner, runs>>
    /\ UNCHANGED <<preflight, authority, actions, reader, observer, hand, revoking>>

\* The clock passes the ticket's expires_at before anyone accepted it.
TicketLapses(r) ==
    /\ ticket[r] = "ISSUED"
    /\ ticket' = [ticket EXCEPT ![r] = "LAPSED"]
    /\ UNCHANGED <<runs, runner, preflight, lease, authority, sending, actions,
                   reader, observer, hand, revoking>>

\* Mutant: a worker that recovers only a lapsed ticket.
OnlyLapsed(r) ==
    /\ CurrentHandoff(r)
    /\ runs[r].status = "RUNNING"
    /\ ticket[r] = "LAPSED"

\* _CANDIDATES of the handoff worker, re-read under the locks.
Abandoned(r) ==
    /\ ticket[r] # "NONE"
    /\ CurrentHandoff(r)
    /\ runs[r].status = "RUNNING"
    /\ lease[r].state # "STOPPED"
    /\ \/ ticket[r] \in {"REVOKED", "LAPSED"}
       \/ lease[r].state = "RELEASED"
       \/ lease[r].due

Recover(r) ==
    /\ Abandoned(r)
    /\ InterruptHandoff(r)
    /\ UNCHANGED <<preflight, authority, sending, actions, reader, observer, hand,
                   revoking>>

-----------------------------------------------------------------------------
(* The supervisor session.                                                 *)

\* open_session: consumes the ticket and starts the session and its evidence
\* streams in one transaction.
OpenSession(r) ==
    /\ ticket[r] = "ISSUED" /\ authority[r]
    /\ DispatchReady(r, "RUNNING")
    /\ ticket' = [ticket EXCEPT ![r] = "ACCEPTED"]
    /\ UNCHANGED <<runs, runner, preflight, lease, authority, sending, actions,
                   reader, observer, hand, revoking>>

\* Mutant: the budget is compared after the action it should refuse.
BudgetOffByOne(r) == Count(r) <= MaxActions /\ ~Unresolved(r)

\* The journal admits one unresolved action at a time, none after an ambiguous
\* one, none after STOP and none over the approved budget.
MayIntend(r) ==
    /\ Count(r) < MaxActions
    /\ ~\E i \in 1..Count(r) :
          \/ AwaitsResult(actions[r][i])
          \/ actions[r][i].state = "AMBIGUOUS"
          \/ actions[r][i].stop

\* retain_action_intent
Intent(r, stop) ==
    /\ Live(r)
    /\ MayIntend(r)
    /\ actions' = [actions EXCEPT ![r] = Append(@, [stop |-> stop, state |-> "INTENT"])]
    /\ UNCHANGED <<runs, runner, preflight, lease, ticket, authority, sending,
                   reader, observer, hand, revoking>>

\* commit_action_dispatch.  The command is delivered at most once; when its
\* response is lost the supervisor never learns of it and fences itself.
CommitDispatch(r, delivered) ==
    /\ Live(r)
    /\ LastIs(r, {"INTENT"})
    /\ actions' = LastBecomes(r, "DISPATCHED")
    /\ hand' = [hand EXCEPT ![r] = IF delivered THEN "ACTING" ELSE @]
    /\ UNCHANGED <<runs, runner, preflight, lease, ticket, authority, sending,
                   reader, observer, revoking>>

\* The reader adapter answers; nothing on the server is consulted.
Settle(r) ==
    /\ hand[r] = "ACTING"
    /\ hand' = [hand EXCEPT ![r] = "SETTLED"]
    /\ UNCHANGED <<runs, runner, preflight, lease, ticket, authority, sending,
                   actions, reader, observer, revoking>>

\* retain_reader_observation for the dispatched action.
Observe(r) ==
    /\ Live(r)
    /\ LastIs(r, {"DISPATCHED"})
    /\ Count(r) \notin reader[r]
    /\ reader' = [reader EXCEPT ![r] = @ \cup {Count(r)}]
    /\ UNCHANGED <<runs, runner, preflight, lease, ticket, authority, sending,
                   actions, observer, hand, revoking>>

\* record_action_completion with a known result.
CompleteAction(r, state) ==
    /\ Live(r)
    /\ LastIs(r, {"DISPATCHED"}) /\ hand[r] = "SETTLED"
    /\ actions' = LastBecomes(r, state)
    /\ hand' = [hand EXCEPT ![r] = "IDLE"]
    /\ UNCHANGED <<runs, runner, preflight, lease, ticket, authority, sending,
                   reader, observer, revoking>>

\* record_action_completion with AMBIGUOUS: the action, the lease, the desktop
\* and the run in one transaction.
ReportAmbiguous(r) ==
    /\ Live(r)
    /\ LastIs(r, {"INTENT", "DISPATCHED"})
    /\ actions' = LastBecomes(r, "AMBIGUOUS")
    /\ InterruptHandoff(r)
    /\ UNCHANGED <<preflight, authority, sending, reader, observer, hand, revoking>>

\* completion_observer.measure_once with final_sample: admitted at a settled
\* boundary that is a successful STOP, and the stream closes with it.
FinalSample(r) ==
    /\ Live(r)
    /\ LastIs(r, {"SUCCEEDED"}) /\ LastAction(r).stop
    /\ observer[r] = 0
    /\ observer' = [observer EXCEPT ![r] = Count(r)]
    /\ UNCHANGED <<runs, runner, preflight, lease, ticket, authority, sending,
                   actions, reader, hand, revoking>>

\* Mutant: trusts the supervisor's STOP without the evidence tails.
CompleteTail(r) == LastIs(r, {"SUCCEEDED"}) /\ LastAction(r).stop

\* What finish_session requires of the journal, the reader and the observer.
EvidenceTail(r) ==
    /\ LastIs(r, {"SUCCEEDED"}) /\ LastAction(r).stop
    /\ \A i \in 1..Count(r) : actions[r][i].state \in {"SUCCEEDED", "FAILED"}
    /\ reader[r] = {i \in 1..Count(r) : ~actions[r][i].stop}
    /\ observer[r] = Count(r)

Finish(r, t) ==
    LET w == lease[r].runner
        stopped == StopAcknowledged(runs[r], t, lease[r].epoch)
    IN  /\ Live(r)
        /\ ~runs[r].unresolved
        /\ EvidenceTail(r)
        /\ MayAcknowledgeStop(runs[r], lease[r].epoch) /\ MayProgress(stopped)
        /\ lease' = [lease EXCEPT ![r] = Closed(@, "STOPPED")]
        /\ runner' = RowBecomes(w, "PREFLIGHT_REQUIRED")
        /\ runs' = [runs EXCEPT ![r] = Progressed(stopped)]
        /\ ticket' = [ticket EXCEPT ![r] = "REVOKED"]
        /\ UNCHANGED <<preflight, authority, sending, actions, reader, observer,
                       hand, revoking>>

-----------------------------------------------------------------------------
(* Endings.                                                                *)

\* Mutant: a repeated request rewrites the first one.
CancelAgain(r, t) ==
    /\ MayRequestCancellation(runs[r]) /\ runs[r].cancelAt # t
    /\ runs' = [runs EXCEPT ![r] = [@ EXCEPT !.cancelAt = t, !.revision = @ + 1]]
    /\ UNCHANGED <<runner, preflight, lease, ticket, authority, sending, actions,
                   reader, observer, hand, revoking>>

\* POST /runs/{id}/cancel: the run row only; the lease is not told.
RequestCancel(r, t) ==
    /\ MayRequestCancellation(runs[r]) /\ ~CancellationRequested(runs[r])
    /\ runs' = [runs EXCEPT ![r] = CancellationRequestedAt(@, t)]
    /\ UNCHANGED <<runner, preflight, lease, ticket, authority, sending, actions,
                   reader, observer, hand, revoking>>

\* The run row learns of the stop its lease acknowledged: apply_transition with
\* acknowledge_stop, as test_runner_terminalization does it; once per run.
AcknowledgeRunStop(r, t) ==
    /\ LibraryCalls
    /\ lease[r].state = "STOPPED" /\ runs[r].stopAt = NoTime
    /\ MayAcknowledgeStop(runs[r], lease[r].epoch)
    /\ runs' = [runs EXCEPT ![r] = StopAcknowledged(@, t, lease[r].epoch)]
    /\ UNCHANGED <<runner, preflight, lease, ticket, authority, sending, actions,
                   reader, observer, hand, revoking>>

\* The proof terminalize_cancellation asks of the lease table.
StopProved(r) ==
    \/ lease[r].state = "NONE"
    \/ lease[r].state = "STOPPED" /\ ~Unresolved(r)

TerminalizeCancellation(r) ==
    /\ LibraryCalls
    /\ CancellationRequested(runs[r])
    /\ StopProved(r)
    /\ MayCancel(runs[r])
    /\ runs' = [runs EXCEPT ![r] = Cancelled(@)]
    /\ UNCHANGED <<runner, preflight, lease, ticket, authority, sending, actions,
                   reader, observer, hand, revoking>>

\* terminalize_ambiguous_attempt: an unresolved action of any age.
TerminalizeAmbiguous(r) ==
    /\ LibraryCalls
    /\ LastIs(r, {"INTENT", "DISPATCHED"})
    /\ MayInterrupt(runs[r])
    /\ actions' = LastBecomes(r, "AMBIGUOUS")
    /\ lease' = Released(r)
    /\ runner' = Quarantine(lease[r].runner)
    /\ runs' = [runs EXCEPT ![r] = Interrupted(@)]
    /\ UNCHANGED <<preflight, ticket, authority, sending, reader, observer, hand,
                   revoking>>

\* finalize_execution: any evaluated outcome the verifier may decide.
Finalize(r, outcome) ==
    /\ MayComplete(runs[r], outcome)
    /\ runs' = [runs EXCEPT ![r] = Completed(@, outcome)]
    /\ UNCHANGED <<runner, preflight, lease, ticket, authority, sending, actions,
                   reader, observer, hand, revoking>>

-----------------------------------------------------------------------------
Next ==
    \/ \E w \in Runner :
          \/ Enroll(w) \/ PreflightFails(w) \/ RevokeCheck(w) \/ RevokeCommit(w)
          \/ \E proved \in BOOLEAN : Reset(w, proved)
          \/ \E r \in Run : PreflightSucceeds(w, r) \/ AdmitLease(w, r)
    \/ FenceExpired
    \/ \E r \in Run :
          \/ LeaseDue(r) \/ Heartbeat(r) \/ LeaseCancel(r) \/ LeaseStopAcknowledged(r)
          \/ AuthorityEnds(r) \/ Dispatch(r) \/ HandoffAcknowledged(r)
          \/ HandoffUnknown(r) \/ TicketLapses(r) \/ Recover(r)
          \/ OpenSession(r) \/ Settle(r) \/ Observe(r) \/ ReportAmbiguous(r)
          \/ FinalSample(r) \/ TerminalizeCancellation(r) \/ TerminalizeAmbiguous(r)
          \/ \E b \in BOOLEAN : Intent(r, b) \/ CommitDispatch(r, b)
          \/ \E state \in {"SUCCEEDED", "FAILED"} : CompleteAction(r, state)
          \/ \E t \in Times : RequestCancel(r, t) \/ AcknowledgeRunStop(r, t) \/ Finish(r, t)
          \/ \E o \in Evaluated : Finalize(r, o)

Spec == Init /\ [][Next]_vars

\* The handoff worker scans every workspace again after a bounded sleep and
\* re-reads what it deferred, and clocks advance: recovery and deadlines happen.
\* Nothing is assumed of operators, supervisors or the controller.
Fairness ==
    \A r \in Run : WF_vars(Recover(r)) /\ WF_vars(LeaseDue(r)) /\ WF_vars(TicketLapses(r))

FairSpec == Spec /\ Fairness

-----------------------------------------------------------------------------
(* Properties                                                              *)

\* Every table holds rows of its type.
TypeOK ==
    /\ runs \in [Run -> RunState]
    /\ runner \in [Runner -> RunnerRow]
    /\ preflight \in [Runner -> PreflightRow]
    /\ lease \in [Run -> LeaseRow]
    /\ ticket \in [Run -> TicketState]
    /\ authority \in [Run -> BOOLEAN]
    /\ sending \in [Run -> BOOLEAN]
    /\ actions \in [Run -> Seq(Action)] /\ \A r \in Run : Len(actions[r]) <= MaxActions
    /\ reader \in [Run -> SUBSET (1..MaxActions)]
    /\ observer \in [Run -> 0..MaxActions]
    /\ hand \in [Run -> Hand]
    /\ revoking \subseteq Runner

\* INV-10 with its reason for existing: while a delivered command may still
\* reach the operating system, no other run holds a lease on that physical
\* desktop, whatever timeouts, interruptions and resets happened in between.
DesktopExclusive ==
    \A r, q \in Run :
        (r # q /\ lease[q].state = "OPEN" /\ lease[r].state # "NONE") =>
            (SameDesk(lease[r].runner, lease[q].runner) =>
                lease[r].state # "OPEN" /\ hand[r] # "ACTING")

\* INV-10 across registrations: two runs never hold open leases on one physical
\* desktop, even when its row is retired under a lease and enrolled afresh.
OneLeasePerDesk ==
    \A r, q \in Run :
        (r # q /\ lease[r].state = "OPEN" /\ lease[q].state = "OPEN") =>
            ~SameDesk(lease[r].runner, lease[q].runner)

\* The three copies of the epoch agree while they matter: an open lease is the
\* newest of its row, the run was told the same number, the row is BUSY, or
\* QUARANTINED with the lease still to be closed, or retired under the lease, and
\* no two leases of a row were ever issued one epoch.
LeaseAgreement ==
    \A r \in Run :
        /\ lease[r].state # "NONE" =>
              runs[r].epoch = lease[r].epoch /\ lease[r].epoch <= runner[lease[r].runner].epoch
        /\ lease[r].state = "OPEN" =>
              /\ runner[lease[r].runner].epoch = lease[r].epoch
              /\ \/ runner[lease[r].runner].revoked
                 \/ runner[lease[r].runner].status \in {"BUSY", "QUARANTINED"}
        /\ \A q \in Run \ {r} :
              (lease[r].state # "NONE" /\ lease[q].runner = lease[r].runner) =>
                  lease[q].epoch # lease[r].epoch

\* Quarantine outlives the run: as long as a command may still land, its desktop
\* is either held by that run's own open lease or quarantined.
ActingIsFenced ==
    \A r \in Run :
        hand[r] = "ACTING" =>
            \/ lease[r].state = "OPEN"
            \/ runner[lease[r].runner].status = "QUARANTINED"

\* The same with retirement in play, which gives up a quarantine and nothing else:
\* two runs never hold open leases on one physical desktop, through whichever rows,
\* and while a command may still land, its run holds the desktop, or its row is
\* quarantined with nothing leased there, or that row was retired.
DesktopIsFenced ==
    /\ OneLeasePerDesk
    /\ \A r \in Run :
          LET w == lease[r].runner
          IN  hand[r] = "ACTING" =>
                \/ lease[r].state = "OPEN"
                \/ runner[w].revoked
                \/ runner[w].status = "QUARANTINED" /\ OpenOnDesk(w) = {}

\* FINALIZING, and so every verdict, is earned: the stop was acknowledged at the
\* lease's own epoch, the journal ends in a successful STOP with nothing unknown,
\* the reader covers every other action, the observer closed after the last one,
\* and the desktop is not acting.  CANCELLED of a leased run needs the stop too.
StopProof ==
    \A r \in Run :
        /\ runs[r].status \in {"FINALIZING", "COMPLETED"} =>
              /\ lease[r].state = "STOPPED" /\ runs[r].stopEpoch = lease[r].epoch
              /\ \A i \in 1..Count(r) :
                    /\ actions[r][i].state \in {"SUCCEEDED", "FAILED"}
                    /\ actions[r][i].stop <=> i = Count(r)
                    /\ i \in reader[r] <=> i < Count(r)
              /\ Count(r) > 0 /\ observer[r] = Count(r)
              /\ hand[r] # "ACTING"
        /\ runs[r].status = "CANCELLED" =>
              /\ lease[r].state \in {"NONE", "STOPPED"}
              /\ ~Unresolved(r) /\ hand[r] # "ACTING"

\* INV-09 and INV-13: an action that was not committed before its lease closed,
\* its desktop was quarantined or retired or its run was cancelled is never after;
\* nothing is journaled then either, and a journal entry never goes back.
NoLateOrRepeatedAction ==
    [][\A r \in DOMAIN runs :
          LET before == actions[r]
              after  == actions'[r]
          IN  /\ Len(after) >= Len(before)
              /\ \A i \in 1..Len(before) :
                    /\ before[i].state \notin {"INTENT", "DISPATCHED"} => after[i] = before[i]
                    /\ before[i].state = "DISPATCHED" => after[i].state # "INTENT"
              /\ (\/ lease[r].state # "OPEN" \/ CancellationRequested(runs[r])
                  \/ runner[lease[r].runner].revoked
                  \/ runner[lease[r].runner].status = "QUARANTINED") =>
                    /\ Len(after) = Len(before)
                    /\ \A i \in 1..Len(before) :
                          after[i].state = "DISPATCHED" => before[i].state = "DISPATCHED"]_vars

\* A late timeout or recovery of one attempt never fences the session that
\* replaced it: interrupting a run leaves every other run's open lease, and the
\* desktop it is on, as they were.
InterruptionIsLocal ==
    [][\A r, q \in Run :
          (r # q /\ runs'[r].status = "INTERRUPTED" /\ runs[r].status # "INTERRUPTED"
                 /\ lease[q].state = "OPEN") =>
              lease'[q] = lease[q] /\ runner'[lease[q].runner] = runner[lease[q].runner]]_vars

Life(r) == INSTANCE RunLifecycle WITH run <- runs[r], MaxRevision <- 8

\* Every transaction moves every run row by one admitted reducer or not at all:
\* the control plane implements RunLifecycle for each run.
LifecycleRefined ==
    /\ \A r \in DOMAIN runs : Life(r)!LifecycleInit
    /\ [][\A r \in DOMAIN runs : runs'[r] # runs[r] => Life(r)!LifecycleNext]_vars

\* A committed handoff whose lease or ticket was lost is settled, unless a newer
\* lease on the same row took the epoch away from recovery first.
LostHandoffSettles ==
    \A r \in Run :
        (runs[r].status = "RUNNING" /\ ticket[r] # "NONE"
            /\ (lease[r].state = "RELEASED" \/ ticket[r] = "REVOKED"))
        ~> (runs[r].status # "RUNNING" \/ runner[lease[r].runner].epoch # lease[r].epoch)

\* A RUNNING run that was asked to cancel does not stay RUNNING: its session is
\* fenced at once, its lease runs out and recovery interrupts it, unless a reset
\* handed the desktop to a newer lease first.
CancelledRunEnds ==
    \A r \in Run :
        (runs[r].status = "RUNNING" /\ CancellationRequested(runs[r]))
        ~> (runs[r].status # "RUNNING" \/ runner[lease[r].runner].epoch # lease[r].epoch)

\* handoff_worker.py, first paragraph: every committed handoff whose desktop
\* lease was lost becomes INTERRUPTED.
LostHandoffInterrupted ==
    \A r \in Run :
        (runs[r].status = "RUNNING" /\ ticket[r] # "NONE" /\ lease[r].state = "RELEASED")
        ~> runs[r].status = "INTERRUPTED"

\* revoke_runner: "Refused while a lease is active", so no registration is both
\* revoked and leased.
RevokedHasNoLease ==
    \A r \in Run : lease[r].state = "OPEN" => ~runner[lease[r].runner].revoked

\* reset_runner: a trusted reset is the only way out of quarantine, so a desktop
\* whose last session was fenced while a command may still land is not leased.
QuarantineOutlivesRow ==
    \A r \in Run :
        (hand[r] = "ACTING" /\ lease[r].state = "RELEASED") => OpenOnDesk(lease[r].runner) = {}

=============================================================================
