# AccessForge: TLA+ models, model checking and proofs

AccessForge runs recorded accessibility journeys with a real screen reader on a
real desktop, turns what happened into evidence and a verdict, and proposes,
builds and verifies repairs. Its promises are about things that are hard to test:
one run at a time on one physical screen, no keystroke after authority ended, no
verdict over an action whose fate is unknown, evidence that cannot be forked, one
model call per consent, one POST per form action, a deletion that really deletes,
a restored backup that does not bring withdrawn authority back. This directory
models the code behind those promises, checks the models with TLC and proves most
of their safety with TLAPS.

Source paths are relative to `src/`; `persistence/`, `orchestrator/`, `domain/`,
`api/`, `build-worker/` and `desktop-runner/` abbreviate the packages and
applications of those names. `PROJECT.json` maps every definition to the lines it
models and lists the components, the runs, the mutants that show each property can
fail, the findings, the hazards and the theorems.

## 1. The system

All authoritative state is in PostgreSQL, bytes are in an object store, and no
transaction spans both. Services (API, orchestrator, build worker, recovery and
purge workers, publishers, operator processes) and an authenticated desktop runner
change the database through the functions of `persistence/`. Processes share
nothing else, and any of them may die between two transactions.

```
 people:  accounts, membership -> projects, seals, approvals, consents, grants
                                          |
            admission (key, seal, budget, rate) -> run row (reducers) -> outbox -> queue
                                          |
   baseline build/session     leases, tickets, sessions, journal     candidate build/session
   (build worker)             (controller, recovery worker)          (build worker)
                                          |
             navigator (model) -> bridge -> runner -> adapter -> physical desktop
                                          |
             evidence sequencer -> retained artifacts -> finalizer -> findings, reviews
                                          |
             diagnosis, repair (model) -> patch -> GitHub check      deletion, backup, restore
```

| Component | State | Operations | What is hard | What makes it correct |
|---|---|---|---|---|
| Run reducers (`domain/reducers.py`) | one row: status, outcome, revision, epoch, marks | progress, admit, resolve, request, acknowledge, cancel, interrupt, complete | any order, clock readings not ordered by commit | terminal rows are final; CANCELLED means stopped; an unknown action excludes a verdict |
| Runners, leases, journal (`persistence/runners.py`) | runner rows, preflights, leases, actions | enroll, preflight, reset, revoke, admit, heartbeat, stop, expire, interrupt | deadlines, late answers, one desktop under two rows | one lease per screen; no new lease while an old command may land |
| Tickets, sessions, controller, recovery (`supervisor_*.py`, `manual_dispatch.py`, `handoff_worker.py`) | ticket, session, stream, handoff | issue, open, intent, commit, observe, complete, finish, recover | lost replies, stale authority, death after commit | no action after a fence; finishing needs the whole tail; a lost handoff ends |
| Evidence sequencer (`sequencer.py`) | chain, records, streams, lock | admit, replay, refuse, close | several instances, resubmission, gaps | one contiguous chain that commits to its prefix; completeness is final |
| Outbox and transport (`outbox.py`, `queue_delivery.py`, `transport.py`) | rows with claims, the queue | enqueue, claim, send, acknowledge, consume | lost replies, expired claims, two clocks | nothing committed is lost, nothing uncommitted announced |
| Admission, idempotency, budgets (`routes/runs.py`, `idempotency.py`, `budgets.py`) | operations, entitlement, usage | reserve, replay, lock the seal, charge, commit | resends, racing totals, read committed | one run per key and per seal, each charged once, within the entitlement |
| Write limits (`rate_limits.py`) | two token buckets | refill and charge, refuse, prune | moments older than the row they meet | nothing is given beyond the rate but what late moments give twice; the advised wait suffices |
| Access (`auth/`, `memberships.py`, `invitations.py`) | accounts, bindings, sessions, members, offers | sign in, bind, invite, accept, change, revoke | decisions after the check, mutual removal | sessions follow identity; an owner remains; the removed stay out |
| Seals and consents (`projects.py`, `execution_approvals.py`, `reader_startup_consents.py`) | inputs, seals, approvals, consents | seal, approve, revoke, recheck, start | revocation between recheck and act, a startup beside the first intent | nothing is done under revoked or stale authority; one dispatch, one session, one reader per consent and before any action |
| Candidate build (`patches.py`, `candidate_builds.py`, `build-worker/`) | patch, attempt, container, archive | approve, claim, dispatch, capture, retain, conclude, retire | crashed workers, lapsed claims, late uploads | what is called built is retained; outcomes are frozen; no resurrection |
| Candidate session (`candidate_regressions.py` and siblings) | attempt, processes, endpoint, reader, form | plan, create, bind, POST once, close, sweep, finish | lost answers around containers and the POST | a verdict leaves nothing behind; at most one POST |
| Baseline run (`baseline_*.py`) | build, archive, regression, endpoint, reader | as above, on the run itself | a desktop leased beside an unsettled build | the desktop meets a settled baseline |
| Native execution (`navigator/`, `desktop-runner/`) | turns, action rows, local journal, desktop claim | reserve, call, submit, journal, enter, settle, stop | an input that lands after its timeout, restarts | every input is journaled and attributed; a released desktop is quiet |
| Diagnosis and repair (`diagnosis/`, `repair/`, `*_requests.py`) | requests, invocations, results | create, revoke, reserve, call, recheck, settle | consent withdrawn during the call | one call per consent, counted, never bypassed |
| Findings (`reviews.py`) | finding, reviews, transitions | create, review, move | decisions on a stale page | resolved means a written review accepted a repair; moves are decided on what was seen |
| GitHub (`github_*.py`) | bindings, previews, slot, receipt | connect, preview, approve, publish, deny | withdrawal between recheck and call | one check per run, never after withdrawal |
| Grants and schedules (`grants.py`, `schedules.py`) | grant, schedule, occurrences | create, revoke, revalidate, pause, fire | duplicate timers, restored grants, revisions that a restore repeats | fires once, as approved or confirmed |
| Retention and deletion (`execution_artifacts.py`, `deletion.py`) | rows, objects, purge queue | plan, write, promote, delete, purge | no transaction over both stores | a deletion empties the store and stays |
| Backup and restore (`restore.py`, `scripts/`) | databases, buckets, archives | dump, seal, restore, reconcile | the old world runs on | the restored world starts fenced |

## 2. Modules

One module per component; `PROJECT.json` names the lines of each definition.

| Module | Role |
|---|---|
| `RunReducers`, `RunLifecycle` | each reducer as a guard and a result; any order of them on one row, the abstract specification of a run |
| `RunnerControlPlane` | the concurrent core; implements `RunLifecycle` for every run |
| `EvidenceLog`, `EvidenceSequencer` | the append-only log readers rely on; the instances, lock and tables that implement it |
| `OutboxDelivery`, `WriteLimiter`, `RunAdmission`, `FindingReview` | transactional foundations |
| `RowLocks` | the rows the transactions around a desktop run lock, in their order, and who waits for whom |
| `CandidateBuild`, `CandidateSession`, `GithubPublication` | a repair on its way |
| `BaselineRun`, `NativeExecution`, `ModelDelivery` | execution around the desktop |
| `WorkspaceAccess`, `ExecutionSeal` | who may act, and under what |
| `GrantSchedules`, `RestoreReconcile`, `EvidenceRetention` | authority and data that outlive a request |
| `RunReducersProofs`, `RunnerControlPlaneProofs` | the lemmas on reducers, and the theorems about the control plane |
| `FoundationsProofs` | theorems about the run lifecycle, reviews, limiter, admission, outbox |
| `CandidateProofs`, `ExecutionProofs` | theorems about a repair on its way (build, session, publication); about the original, native executions and row locks |
| `EvidenceProofs`, `AuthorityProofs`, `StandingAuthorityProofs` | theorems about the sequencer and retention; access, seals and deliveries; schedules and restores |
| `MC*` | instances for TLC, and the specifications that put components into one run |

How a step is chosen. Where the code locks the row it decides about before it reads
it, and holds the lock to the end, a transaction is one action. Where it does not,
each statement that takes a lock is a step of its own (`RunAdmission`), or the check
and the act are two steps with everything else in between (`ExecutionSeal`,
`WorkspaceAccess`, `ModelDelivery`, `RevokeCheck`/`RevokeCommit`). A call that leaves
the process (object store, container daemon, model, GitHub, socket) is a step of its
own, may take effect while its answer is lost, and the caller may die before or
after it. Clocks appear as the moment they matter: a lease lapses, a consent or a
permit expires.

**Control plane.** `admit_to_desktop` accepts only a QUEUED run, so a run has at most
one lease, ticket, session and journal, and these are functions of the run. `hand` is
the physical supervisor: ACTING from the moment a commit is answered until its adapter
settles; nothing obliges it to settle. `authority` stands for what `assert_authorized`
and `_live` read again on every request; `ExecutionSeal` models it in full.
`LibraryCalls` admits the operations that exist in the library and in tests but that
no service calls (heartbeats, lease cancellation, the expiry sweep, ambiguous
termination); `Retirable` is the set of rows `revoke_runner` may be called for.

**Row locks.** The other modules take a transaction that locks what it decides about as one
step, and leave open whether it gets its locks. `RowLocks` models that: a transaction is
the sequence of rows it locks (`Scripts`, one tuple per transaction, read off its
statements and those of the functions it calls), locks one row at a time, and may end
after any of them, as a refusal does. Rows that only holders of their run lock and that
nobody goes on from, rows of candidate sessions, readers of finished runs, the locks of
foreign keys and the several rows that one statement locks in one table are left out.

**Sequencer.** Reading the tail and writing are separate steps, so a missing or
short-lived lock would show. Hashes stand for what they commit to: `prev` is the
sequence of all earlier payloads. `answers` remembers every position ever returned.

**Outbox.** `Claim`, `Send` and `Acknowledge` are separate steps of `publish_once`, which
may end between any two. With `Skewed` a claimant's clock may run ahead and take a live
claim. The queue is external: it delivers at least once, in any order; its
deduplication and dead-letter policies are left out.

**Admission and limits.** A rollback may follow any statement. Usage leaves the daily
window one event at a time. A token is `Unit` parts of which `Rate` return per tick, so
that waits need not divide; a request reads its moment and charges up to `Late` ticks
later, so that charges overtake one another. `regained` counts by how much a late one moved
`refilled_at` back.

**Builds and sessions.** A worker's position, its attempt's row and its container are
three facts, and only the row survives the worker. Claims are never replaced: a lapsed
attempt becomes UNKNOWN, which no step turns into a result. `BaselineRun` follows one
process and one form action; `CandidateSession` keeps the launch roles and several
reader actions apart.

**Native execution.** Two navigators may be started for one attempt, the host may be
restarted, and its journal on disk survives. Only STOP is told apart from the other
actions.

**Access and seals.** A request's authorization and its decision are steps of one READ
COMMITTED transaction; the rows it holds between them are modelled (`BoundRequest`,
`SealLocked`, `ConsentLocked`). `ExecutionSeal` checks the approver's role the way
`execution_approvals._actor` does, revoked or not (section 4). It keeps the kinds of acts
apart and their order is the code's: builds and the one dispatch while the run waits
(`required_status`, `read_binding`), the one session that the ticket opens, and only in that
live session startups, model calls and action intents. A consent may be given, and a reader
started, as long as no `runner_action` row exists (`reader_startup_consents.py:73`), whatever
else was done. `Start` is the transaction of `bind_and_check`, which holds the seal like
every other recheck.

**Retention and restore.** A put that timed out may land later. In `RestoreReconcile`
databases are numbered in the order of restores, the old ones keep their drivers, and
a behaviour follows one kind of authority, the desktop, a message or an object, because
no statement of reconciliation relates one to another. `GrantSchedules` has its own
restore, since what a restored grant may do depends on its revision. What people read stays
in their hands over a restore (`HeldOver`), and three facts that no row holds say for the
properties what it was: `current`, read since the last restore; `paused`, the schedule was
shown paused; and `seen`, the highest revisions the rows had before the restore. The model's
guards compare revisions only, as the code does.

### Composition

`RunnerControlPlane` composes the registry, leases, tickets, sessions, controller and
recovery, which share rows. The other components meet through rows that one of them
only reads; the reader then takes every value the writer could have produced, at any
time: the run's end, the approval, the role, the grant and the age of an archive all
change freely under the component that reads them. The `MC` modules that hold several
components (`followed`) or several instances (`scenario`) therefore choose one in the
initial state and leave the others alone: their interleavings could add no behaviour
to either.

## 3. Runs

| Run | Instance | Distinct states | Asks |
|---|---|---|---|
| `foundations` | lifecycle: 3 clock readings, 2 epochs, 8 transitions; sequencer: 2 instances, 2 producers, 2 ids, 2 payloads, sequences up to 2; outbox: 2 messages, 2 calls of batch size 2, 2 consumers, 2 copies, skewed clocks; limiter: 2 principals, 6 ticks, charges up to 1 tick late; admission: 4 requests, two of them by different people under the same key, 2 entitlements; review: 2 people, 2 slips, 2 patches, 3 moves | 1.5 M | the transactional foundations, with deadlock checked |
| `control_plane_app` | 2 runs, 1 desktop, 2 epochs, 1 action | 1.4 M | what the services call: exclusivity and locality, which the library operations would break |
| `library_calls` | one run with 2 actions and 2 clock readings; two runs and 2 epochs; two runs, two rows of one desktop | 1.4 M | fencing, agreement, stop proof and refinement with the operations no service calls |
| `eventually` | 2 runs, 2 epochs; 2 artifacts, 1 deletion, 1 fault; fairness | 0.2 M | lost handoffs and cancelled runs end; deletions are carried out |
| `candidate` | 1 launch role and the final one, 2 reader actions; 2 previews, 2 publishers; schedules: 2 administrators, 2 schedulers of which one locks, 2 due times, 3 revisions, 1 restore | 2.8 M | candidate sessions and their publication, and what fires under a standing grant |
| `execution` | build: 2 workers, 2 callers, 2 surface revisions; baseline: 1 run, 3 workers; native: 2 navigators, 2 actions, 2 calls, 2 host starts; locks: 2 transactions of 26 kinds, a baseline's run and an ordinary one leased one desktop, a second desktop; restore: 2 restores, 2 backups, 2 kinds of authority | 2.0 M | where outside programs act, the locks of the transactions, and restored backups |
| `access` | 2 accounts, 1 GitHub subject, 1 offer, 2 sessions; 2 members, 2 environments, 1 seal, 2 workers, 2 readers; 2 repairs, 1 diagnosis, 2 operators, allowance 2 | 2.2 M | membership, sealed authority, consented model calls |
| `stranded_handoff`, `revoke_race`, `quarantine_escape`, `late_charge`, `stale_confirmation` | as small as the trace allows | | section 4 |

What each property of a passing run says (each is a conjunction of the named parts,
which the modules state and comment one by one):

- `foundations`. `RowIsAdmissible`, `CancelledMeansStopped`, `AmbiguityAndVerdict`, `ForwardOnly`,
  `CancellationFences` (runs); `ChainAttests`, `ProducersContiguous`, `AnswersHold`,
  `LockNotStranded`, `CompleteIsFinal`, `ImplementsLog` (evidence); `NoneLost`,
  `AnnouncedIsCommitted`, `AcknowledgedOnce` (outbox); `AdmissionIsExact`: one run per key,
  one per seal, every run charged, two runs of one person never under the same charge, a
  replay names its own run, a charged admission is within the entitlement;
  `LimiterHolds`: no more writes than burst plus rate and the time that late charges gave a
  second time, which is never more than they were late, and the advised wait suffices;
  `ReviewIsInformed`: a finding is moved on what the mover saw, and resolved only on an
  accepting review.
- `control_plane_app`. `DesktopExclusive`, `InterruptionIsLocal`. `library_calls`, with every
  operation: `LeaseAgreement`, `StopProof`, `NoLateOrRepeatedAction`; `DesktopIsFenced` is what is left of
  exclusion when a desktop may be retired under its lease: it is leased once, and a command
  that may still land keeps its lease, or a quarantine with nothing leased, or its row was
  retired; `LifecycleRefined` is the refinement of `RunLifecycle`.
- `eventually`. `LostHandoffSettles`, `CancelledRunEnds`; `PromisesAreKept`: every deletion
  empties the queue and the store; `RetentionIsHonest`: deleted evidence does not come
  back and a verdict rests on retained evidence.
- `candidate`. `SessionIsTrustworthy`: passed or failed leaves nothing
  behind, containers were planned, one POST at most, a known result is complete, no
  effect after the receipt. `PublicationIsSafe`: one check per run, never for a withdrawn
  preview, every possible publication accounted for, acknowledged denials hold.
  `SchedulesAreAuthorized`: one run per occurrence, no bursts, fires only as approved, under a
  restored grant only once a person confirmed it; the one who confirms has read it since the
  restore, and the one who undoes a pause has seen it, except where the restored row repeats a
  revision it had before (section 4).
- `execution`. `BuildIsTrustworthy`: one execution, no rejected patch runs, what is built is
  retained, conclusions match the patch, failures are confirmed, outcomes are frozen,
  retired objects stay retired. `BaselineIsTrustworthy`: the desktop meets a settled baseline, a verdict
  leaves nothing behind, the form is sent once. `NativeInputIsAccounted`: one model call per
  boundary, every input attributed to a committed action, a released desktop settled, a
  fenced one silent. `OthersNeverDeadlock`: transactions wait for each other in a circle only
  when one of the four that lock the other way round (`Inverted`) is among them.
  `RestoreIsSafe`: the restored world is fenced, the marker of an earlier reconciliation never
  blocks a later one, retirement is final.
- `access`. `AccessIsGoverned`: sessions follow identity, an owner survives every decision,
  the removed stay out, decisions are of live owners. `SealGoverns`: revocation is final,
  one dispatch and one session per run, one reader per consent and none once there is an
  intent, acts rest on sealed inputs. `DeliveryIsConsented`: one call per
  consent, none forgotten, within the allowance, uncertainty never bypassed, results only
  under standing consent.

Why the bounds are enough. Exclusivity, locality and every race here is a conflict of
two parties, and a stale party needs an epoch, revision, surface or environment before
and one after: two of each. One action and a STOP are the smallest complete journal.
Three clock readings give a stop before, at and after the request. Two ids with two
payloads give equal content under different ids and different content under one id;
sequence 2 is the first that can leave a gap. Three requests give a resend with
another body and a rival for the same seal, a fourth another person with the same key. Two host starts and two navigators give a
restart and a rival. Two restores give a restore of what was restored; of a grant one is
enough, for its revision repeats when the row moved after the backup. One tick of lateness
lets one charge overtake another, and three parts of a token per tick of four make a wait
that is not whole. Schedules are followed twice in `candidate`, since all at once is too much:
as time passes, with both schedulers and one person at a time (`OneAtATime`), and while
nothing lapses, with two people deciding at once around one occurrence of the scheduler that
locks (`Unhurried`); the theorem is for all of it together. One act of a kind (`MaxActs`) is
enough in `access`: a dispatch and a session are one by the code, and what a second build,
call or intent may follow is what the first may. `MaxSurfaceRevision = 0` in `access`: the repair surface
itself moves in `execution` (`MaxSurface`). Two transactions are a pair that waits for
each other; longer circles are left to the theorem about `RowLocks`, which is for any number.

Deadlock checking is off where a component ends by design: an attempt, a request or a
deletion reaches its end and stays. In `foundations` it is on: `Quiet` lets finished
components rest, and the sequencer, which must always be able to go on, has no such
step.

Symmetry is used in safety runs only, for sets that the specification and the
properties do not distinguish; `execution` uses none.

Fairness. `eventually` and `stranded_handoff` assume weak fairness of `Recover` (the worker
loops over all workspaces with a bounded sleep and re-reads what it deferred), of
`LeaseDue` and `TicketLapses` (clocks advance), of the purge worker's start and of each
purger's next step (a loop with a bounded sleep; a dead purger's transaction is rolled
back by the database). Strong fairness of releasing bytes says that a store that is
asked again and again does not refuse for ever. Nothing is assumed of operators,
supervisors, controllers, callers or the network, and `Heartbeat`, which could postpone a
deadline for ever, is called by no service and left out of these runs.

## 4. Where the code and its documentation disagree

Shown by a run that violates what the documentation says:

- `stranded_handoff` (`LostHandoffInterrupted`). The recovery query compares the runner's current epoch. If an
  operator resets the desktop and a new run is leased before the worker's next pass, the
  old run stays RUNNING for ever; the worker's docstring promises INTERRUPTED.
  `LostHandoffSettles` states what does hold.
- `revoke_race` (`RevokedHasNoLease`). `revoke_runner` reads open leases without a lock. A lease admitted before
  its update leaves a revoked row under a live lease. Later requests of that session are
  refused (`NoLateOrRepeatedAction`) and the screen is still leased once.
- `quarantine_escape` (`QuarantineOutlivesRow`). Revoking and enrolling again leaves quarantine without the trusted
  reset that is documented as the only way out.
- `late_charge` (`RateHolds`). `rate_limits.consume` moves `refilled_at` back when a charge arrives with an
  older moment than the last, and the next one is credited the interval again. Moments
  are read before the row is waited for, so no clock has to step. `LimiterHolds` says what is
  left of the rate: each charge gives back at most the time it was late, and nothing if it
  was not.
- `stale_confirmation` (`ConfirmedAfterReading`). Reconciliation gives a live grant the revision after
  the backup's, "without that, an operator holding a read from *before* the restore could
  confirm the grant without re-reading it" (`restore.py:402`). But the number is new only to
  the backup: a grant backed up at revision 1, then revoked at 2 and read, is live again at 2,
  and the read of the revoked grant confirms it; a second restore of one backup repeats the
  number as well. `RestoredAuthorityIsConfirmed` says what holds: a person confirmed it, and has
  read it since the restore unless the row had that revision before. Reconciliation does not
  move a schedule's revision at all, so a pause in the restored row may be undone by whoever
  read the same number earlier; no comment says otherwise, and `PauseIsNotUndoneUnseen` is
  stated accordingly.

Met while modelling, and modelled as the code is:

- Two lock orders are not what comments say of them; together with two operations of the
  library they are `Inverted` in `RowLocks`, and TLC shows a deadlock when any of the four is
  taken out of it. For a run bound to a baseline session `admit_reader` (`baseline_session.py`) and
  `admit_lease` (`runners.py:600`) check the trial before they lock the desktop, so the admission
  locks the run first and the runner last. `manual_dispatch.py:88`, `handoff_worker.py:71` and
  `reader_startup_consents.py:58` lock the runner first and say that admission does: the operator's
  review of the reader's start and the admission of that reader can deadlock. And
  `execution_approvals.revoke` locks the seal and then the approval, while dispatch, which is to
  "serialize with exact approval revocation" (`manual_dispatch.py:93`), and every session request
  lock the approval and then the seal. PostgreSQL ends one of the two, which may be the revocation.
- The usage event of a run is keyed by the request's idempotency key (`routes/runs.py`,
  `budgets.py`), which is unique per principal only. The run of a second person who sends
  the same key finds the first one's event: it is admitted without a charge of its own and
  without the budget check, as the comment there wants for a resend (`"free"` in
  `RunAdmission`). `AdmissionIsExact` says what holds: every run has a charge, no two runs
  of one person share it, and those charged were within the entitlement.
- A re-enrolled desktop counts epochs from zero, although migration 0008 says that
  re-enrollment never resets them.
- `execution_approvals._actor` and the startup consents read the role of a membership
  whether or not it was revoked: the approval of a removed member stays usable
  (`HoldsRole`, against `Permits`).
- `admit_occurrence` trusts the grant object it is handed. A scheduler that loaded it earlier,
  without a lock, does not see a revocation in between; `FiresOnlyAsApproved` is therefore
  stated for the schedulers that lock the grant they load (`Locking`), and
  `RestoredAuthorityIsConfirmed` for all of them.
- The retained evidence of a run may be deleted between `_verify_retained` and
  `reserve_publication`; the preview is rechecked there, the bytes are not.
- A finding becomes REPRODUCED by a transition without a failing run, a superseded ACCEPT
  may still be cited, and the review route takes the current patch digest and its author
  from the request's body (`Independent`).
- Authority revoked after a snapshot is live in it. Reconciliation revokes or suspends the
  kinds in `Revokes` and `Suspends`, and leaves the others as they were.
- `terminalize_ambiguous_attempt`, which no service calls, does not compare epochs:
  `InterruptionIsLocal` is checked for the operations the services call.

## 5. Theorems

Every theorem holds for all values of the constants, under the assumptions named in the
modules: `TimesAssumption`, `BoundsAssumption`, `ControlAssumption`, `SequencerAssumption`,
`OutboxAssumption`, `ReviewAssumption`, `AdmissionAssumption`, `GithubAssumption`,
`SealAssumption`, `AccessAssumption`, `DeliveryAssumption`, `ScheduleAssumption`,
`RestoreAssumption`, `LocksAssumption`, `ClassAssumption`, `WorkerAssumption`, `FaultAssumption`,
`BuildAssumption` and `NativeAssumption` only say that bounds are naturals, that subsets are
subsets, that there is a navigator and that placeholders are not members of the sets they
extend. `LimiterAssumption` also says that idle buckets are kept until a refill would have
filled them, which is what `prune_idle_buckets` is documented to need and what the purge
worker passes, and that they are kept as long as a request may be late on top of it; it says
nothing about how late that is.

**Run lifecycle** (`FoundationsProofs`). `LifecycleInvariance` is the inductive invariant: the
four state properties of the run, strengthened by `QueuedIsUntouched` (a QUEUED row has no epoch, no execution and
nothing unresolved). Without it they are not inductive: cancelling a QUEUED run is
justified by what never happened to it. `RowsAdmissible`, `CancelProof` and `AmbiguityProof`
follow from it; `LifecycleForward` and `LifecycleFence` are the action
properties, proved from the same invariant. Each reducer has one lemma giving its result field by field.

**Evidence sequencer.** The properties need the lock discipline: only the lock's holder is
past its wait (`LockHeld`), so what it read is still the tail when it writes
(`PlaceCurrent`), and therefore rows stand at 1..n (`Numbered`), commit to their prefix
(`Linked`) and agree with the source records and the streams (`SourceAgrees`,
`StreamAgrees`). `SequencerInvariance` is their conjunction; `ChainIsAttested`,
`ProducerOrder`, `AnswersStayTrue`, `CompletenessIsFinal` and `LockReleased` state the checked
properties, and `SequencerImplementsLog` is the refinement: a `Store` maps to `Admit`, a
`CloseStream` to `End`, everything else to a stutter.

**Outbox** (`FoundationsProofs`). `NoneLost` is not inductive: deleting a copy needs to know that it was handled
(`HandledFirst`), and publishing a row that a copy was queued before (`SentIsQueued`,
`PublishedKept`). `RowsCommitted` and `UnderWay` tie everything in progress to a committed
transition. `DeliveryInvariance` gives `NothingLost`, `OnlyCommittedAnnounced` and
`OneAcknowledgement`.

**Control plane** (`RunnerControlPlaneProofs`, over the reducer lemmas of
`RunReducersProofs`). Four relations between tables carry the argument. `LeaseInv` says
that a queued run has no lease, an open lease is its row's newest, no row issues an epoch
twice and no desk is leased twice; the last is not inductive without the others, because
`admit_to_desktop` decides on rows and the property speaks of desks. It gives `LeasedOnce`,
with the library calls and retirement included. `JournalInv` says that only the newest
action may be unresolved, that a hand which is not idle belongs to it and that an
acknowledged stop leaves none; with `EarnedEnds` it gives `EndingsAreProved`, and the
comparison of a session before and after a step gives `NoLateAction`. `DeskInv` says that
a hand which may still act on a row that was not retired keeps its lease open, or that row
QUARANTINED at its epoch with nothing leased on its desk. It holds with every operation in
play, because the operations that raise an epoch or clear a quarantine go through the rows
in service (`FenceKept`, `FenceRaised`); it gives `DesktopsAreFenced`, and `LeaseInv` gives
`EpochsAgree`, both without a hypothesis. `DesktopExclusion` and `QuarantineOutlivesTheRun` say more
and assume `NoRetirement` (`~LibraryCalls \/ Retirable = {}`), the hypothesis that the run
`quarantine_escape` shows to be necessary: under it every row stays in service
(`ServiceInvariance`). `InterruptionStaysLocal` assumes `~LibraryCalls`, since
`terminalize_ambiguous_attempt` compares no epochs. `RevisionInv` bounds the revisions a
row can reach, so that `TypeCorrectness` needs no bound of its own. `LifecycleIsRefined`
and `ImplementsLifecycle` take every transaction, run by run, to one reducer of
`RunLifecycle` or a stutter; that module's theorems therefore hold of every run.

**Admission, limits and reviews** (`FoundationsProofs`). Admission: what an operation holds
of its row, its answer, the key index, the seal and the budget at each statement
(`RowsInv`, `AnsweredInv`, `IndexInv`, `SealInv`, `BudgetInv`) is an invariant because each
is changed only by the statement that holds the corresponding lock; `ExactAdmission`
follows. Limits: `Ledger` equates what a bucket gave out with what burst and elapsed time
credit it, the time that late charges moved its row back included, and `MayCharge` says how late
a charge on its way can be; `Advised` carries the waiting time that was promised.
`LimiterIsExact` holds for every `Late`. Reviews: what a page shows was true at the revision
it shows (`PageInv`), so a move that compares revisions was decided on the status it moves.

**Candidates** (`CandidateProofs`). `TrustworthyBuild`: the place of a worker says what its
attempt, container and archive have gone through (`WorkerInv`), and because opening a
verification is the only way out of APPROVED, there is one at most and it is concluded with
its patch (`PatchInv`). The API may open a verification too, so both statements are about
`Openers`. `TrustworthySession`: no container is there without its row and none is called
removed that is left (`BoxInv`), the gateway listens only while the callback runs
(`GateInv`), and a request on its way is that of a permission that was used and of an
action nobody has reported on (`EffectInv`), so no ending can overtake it (`EndInv`).

**The original** (`ExecutionProofs`). `TrustworthyBaseline`: a worker's place says how far its
attempt, container and socket have come (`BuildPlace`, `TrialPlace`). `DeskOrder` is what makes
the desktop's admission final: once a lease exists, the build is none or CAPTURED, and either
the desktop is the session's reader or the trial is none or PASSED, so nothing of the baseline
can start behind it. `FormPlace` ties a POST to its socket and its consumed permit.

**Native execution** (`ExecutionProofs`). `AccountedInput` joins five views of one action.
One navigator at most holds a turn, and it is the last (`TurnsInv`); the request a runner
works on is that turn's, so no other turn opens while it is worked on (`RequestInv`); the
runner's place says how far rows, journal and adapter have come (`ActionInv`), and what they
say of an action never contradicts, whichever host wrote it (`AgreementInv`); a run is
received once, and a finished one moves no more (`ReceptionInv`). Without `RequestInv` a
committed action is not bound to a proposal, and without `AgreementInv` a crash between the
journal and the server's answer would leave room for two results. `FencedEntersNothing` is
the action part: a fenced bridge's runner stops before the adapter.

**Row locks** (`ExecutionProofs`). `OthersAreDeadlockFree`, for any number of transactions, runs and
desktops. `HeldApart` is the inductive invariant: no row is held by two that conflict over
it, because a lock is only granted when nobody holds it so. Every script but the four inverted
ones takes runner, run, lease, seal, trial and endpoint upwards in this order, and the
other rows after the run they belong to (`ScriptsInOrder`). Hence nobody waits for a row under a
run: both would hold the run. And whoever is waited for and waits itself waits further up
(`WaitsUpwards`), so a circle would have no highest row.

**Publication** (`CandidateProofs`). `SlotInv`: whoever is past its reservation
holds the one slot, and GitHub has what the slot says. `WithdrawalInv`: a preview may be
unpublishable for good (`Dead`), and no publisher that was not past its reservation by then
gets past it. `PublicationSafety` follows from both.

**Authority** (`AuthorityProofs`). `SealedAuthority`: a seal's row has one holder
(`OneHolder`), so what the holder checked stands when it acts (`CheckStands`), except what
the clock and the unlocked writers change; the rows of a run say how far its attempt has
come (`AttemptInOrder`), which makes the dispatch and the session single and puts every
startup before the first intent; a started reader is the consent's (`StartedIsBound`). `ConsentedDelivery`: one operator at most is between the reservation
and the settlement of a request (`OneDelivery`), knows whether it called (`KnowsItsCall`),
and what it holds is inside the allowance (`HeldInAllowance`), which makes the number of
calls bounded for any number of operators. `GovernedAccess`: every session fits the binding
it was opened under (`SessionFits`), and a decision moves the members of one workspace by
the rule its decider was checked against (`MembersMove`), which leaves an owner.

**Standing authority** (`StandingAuthorityProofs`). `AuthorizedSchedules`: the row lock of the
schedule admits one transaction at a time (`OneChecked`) and keeps what it checked true
until it commits (`CheckedStands`); a locked grant is the grant that was loaded
(`LockedStands`); a grant that is live after a restore is marked for revalidation until a
person confirms it (`ConfirmedOrFenced`); what a person holds is of this history and not newer
than the row, or of before the restore and not newer than what the row then was
(`ReadingsFit`); and a backup is a state the database was in
(`BackupIsAState`). `SafeRestore`: a restore fills a database nobody serves from and ends
reconciled (`TargetApart`, `Servable`), a runner that may be leased is driven by its own
lease's supervisor or by none (`OneDriver`), and the audit rows in a database are of
backups sealed before its data was dumped (`MarkersPrecede`).

**Retention and deletion** (`EvidenceProofs`). `HonestRetention`: each key is promised by the one
deletion that marked its row (`PromisedOnce`), a row is locked while its object is written
(`RowsAgree`), and a batch is its purger's alone and holds only queued pairs
(`BatchesApart`), so a pair leaves the queue after its bytes have left the store; what the
finalizer read stands until it commits (`DecisionStands`), because a deletion waits for
the rows it locked.

Every invariant and every safety property a passing run checks is stated by a theorem.
Only model-checked: liveness, which is out of the proof system's reach.
No module uses a RECURSIVE operator, so any of them may be proved about.

## 6. Checking it

In this directory, `tlc -config X.cfg MCModule` for a run of `PROJECT.json`, and
`tlapm XProofs.tla` for a proof module. Definitions marked as mutants are plausible bugs
that each property is known to catch; the specifications do not use them. With two
workers a run takes up to three minutes.

## 7. Not modelled, and the plan

Left out: assembling and verifying evidence bundles byte by byte, journey evaluation
and assertion rules (sequential functions; every outcome they may give is considered
where one is consumed), operating-system isolation, the adapters' platform automation,
the web application and the generated clients, password and cookie handling, the contents
of prompts, journeys, fixtures and preflight checks, and the durable jobs of
`recovery.py`, which only tests call.

Next: journey evaluation as pure operators against a reference definition.
