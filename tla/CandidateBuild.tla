--------------------------- MODULE CandidateBuild ---------------------------
(***************************************************************************)
(* One repair patch from its proposal to its verified conclusion: the     *)
(* decisions of reviewers (patches.py, routes/patches.py), the build of    *)
(* the approved bytes by competing build workers (candidate_builds.py,     *)
(* coordinator.py, sandbox.py), the retention and retirement of the built  *)
(* archive in a create-only object store (artifacts.py) and the conclusion *)
(* of the verification.                                                    *)
(*                                                                         *)
(* A worker is a process that may crash between any two of its            *)
(* transactions, with its container left running.  A claim is never        *)
(* replaced: what is proved about an attempt that lapsed is only that      *)
(* nobody knows what it did.                                               *)
(***************************************************************************)
EXTENDS Naturals, FiniteSets

CONSTANTS Workers,      \* build coordinators, each preparing the patch once
          Callers,      \* API and library callers, each in at most one call
          MaxSurface    \* bound on reconfigurations of the repair surface

ASSUME BuildAssumption == MaxSurface \in Nat

VARIABLES
  patch,       \* patch_proposal row
  approval,    \* the PATCH_APPLY approval row minted by approve_patch
  surface,     \* project_repair_surface.revision
  verif,       \* patch_verification rows, indexed by who opened them
  call,        \* what an API caller read before the statement that writes
  attempt,     \* candidate_build_attempt rows, indexed by the claiming worker
  archive,     \* candidate_archive, its retirement and the stored object
  worker,      \* volatile state of the coordinator process
  container    \* the Docker container named after the attempt

buildVars == <<patch, approval, surface, verif, call, attempt, archive, worker, container>>

Openers == Workers \cup Callers

PatchStatus == {"PROPOSED", "APPROVED", "BUILDING", "VERIFYING", "VERIFIED",
                "REVIEW_ACCEPTED", "REJECTED", "STALE", "FAILED"}

ALLOWED_TRANSITIONS ==
  [s \in PatchStatus |->
     CASE s = "PROPOSED"  -> {"APPROVED", "REJECTED", "STALE"}
       [] s = "APPROVED"  -> {"BUILDING", "REJECTED", "STALE"}
       [] s = "BUILDING"  -> {"VERIFYING", "FAILED", "STALE"}
       [] s = "VERIFYING" -> {"VERIFIED", "FAILED", "STALE"}
       [] s = "VERIFIED"  -> {"REVIEW_ACCEPTED"}
       [] OTHER           -> {}]

AttemptState == {"none", "CLAIMED", "DISPATCHED", "BUILT", "FAILED", "UNKNOWN"}

NoVerification == [state |-> "none", conclusion |-> "none", revision |-> 0, bound |-> FALSE]

NoAttempt == [state |-> "none", leased |-> FALSE, approved |-> 0, building |-> 0,
              surface |-> 0, receipt |-> FALSE, published |-> FALSE]

BuildTypeOK ==
  /\ patch \in [status : PatchStatus, revision : Nat]
  /\ approval \in [state : {"none", "live", "ended"}, revision : Nat]
  /\ surface \in 0 .. MaxSurface
  /\ verif \in [Openers -> [state : {"none", "BUILDING", "CONCLUDED"},
                            conclusion : {"none", "VERIFIED", "NOT_ESTABLISHED", "INCONCLUSIVE"},
                            revision : Nat, bound : BOOLEAN]]
  /\ call \in [Callers -> [op : {"idle", "read", "opening", "concluding", "done"},
                           revision : Nat, on : Openers \cup {"none"}]]
  /\ attempt \in [Workers -> [state : AttemptState, leased : BOOLEAN, approved : Nat,
                              building : Nat, surface : Nat, receipt : BOOLEAN,
                              published : BOOLEAN]]
  /\ archive \in [Workers -> [state : {"none", "QUARANTINED", "RETAINED", "DELETED"},
                              retirement : {"none", "intended", "completed"},
                              object : {"absent", "bytes", "tombstone"},
                              fresh : BOOLEAN]]
  /\ worker \in [Workers -> [pc : {"idle", "prepared", "claimed", "dispatched", "created",
                                   "started", "captured", "intent", "uploaded", "built",
                                   "failing", "failingUnclean", "stopped"},
                             revision : Nat, surface : Nat]]
  /\ container \in [Workers -> {"none", "created", "running", "removed"}]

BuildInit ==
  /\ patch = [status |-> "PROPOSED", revision |-> 1]
  /\ approval = [state |-> "none", revision |-> 0]
  /\ surface = 0
  /\ verif = [o \in Openers |-> NoVerification]
  /\ call = [c \in Callers |-> [op |-> "idle", revision |-> 0, on |-> "none"]]
  /\ attempt = [w \in Workers |-> NoAttempt]
  /\ archive = [w \in Workers |-> [state |-> "none", retirement |-> "none",
                                   object |-> "absent", fresh |-> TRUE]]
  /\ worker = [w \in Workers |-> [pc |-> "idle", revision |-> 0, surface |-> 0]]
  /\ container = [w \in Workers |-> "none"]

-----------------------------------------------------------------------------
(* The row operations of the patch lifecycle.                              *)

\* transition_patch: the move is permitted, and the UPDATE finds the revision it names.
TransitionAllowed(to, expected) ==
  /\ to \in ALLOWED_TRANSITIONS[patch.status]
  /\ patch.revision = expected

Moved(to) == [status |-> to, revision |-> patch.revision + 1]

\* Approval.check: not revoked, not expired, and for this revision of the patch.
ApprovalAuthorizes(revision) == approval.state = "live" /\ approval.revision = revision

-----------------------------------------------------------------------------
(* Reviewers and library callers.                                          *)

\* GET /patches/{id}: the caller learns the revision it will put in If-Match.
ReadPatch(c) ==
  /\ call[c].op = "idle"
  /\ call' = [call EXCEPT ![c].op = "read", ![c].revision = patch.revision]
  /\ UNCHANGED <<patch, approval, surface, verif, attempt, archive, worker, container>>

\* The route: the If-Match revision is the one the patch has.
MayApprove(c) == call[c].op = "read" /\ patch.revision = call[c].revision

ApprovePatch(c) ==
  /\ MayApprove(c)
  /\ TransitionAllowed("APPROVED", call[c].revision)
  /\ patch' = Moved("APPROVED")
  /\ approval' = [state |-> "live", revision |-> patch.revision + 1]
  /\ call' = [call EXCEPT ![c].op = "done"]
  /\ UNCHANGED <<surface, verif, attempt, archive, worker, container>>

RejectPatch(c) ==
  /\ call[c].op = "read"
  /\ TransitionAllowed("REJECTED", call[c].revision)
  /\ patch' = Moved("REJECTED")
  /\ call' = [call EXCEPT ![c].op = "done"]
  /\ UNCHANGED <<approval, surface, verif, attempt, archive, worker, container>>

\* open_verification up to its INSERT: the patch and its approval as read, not locked.
OpenVerificationReads(c) ==
  /\ call[c].op = "idle"
  /\ patch.status = "APPROVED"
  /\ ApprovalAuthorizes(patch.revision)
  /\ call' = [call EXCEPT ![c].op = "opening"]
  /\ UNCHANGED <<patch, approval, surface, verif, attempt, archive, worker, container>>

\* The INSERT and transition_patch commit together, or both roll back.
OpenVerificationCommits(c) ==
  /\ call[c].op = "opening"
  /\ call' = [call EXCEPT ![c].op = "done"]
  /\ IF TransitionAllowed("BUILDING", patch.revision)
     THEN /\ patch' = Moved("BUILDING")
          /\ verif' = [verif EXCEPT ![c] = [NoVerification EXCEPT !.state = "BUILDING"]]
     ELSE UNCHANGED <<patch, verif>>
  /\ UNCHANGED <<approval, surface, attempt, archive, worker, container>>

\* revoke_approval, or the expiry the approval was minted with.
ApprovalEnds ==
  /\ approval.state = "live"
  /\ approval' = [approval EXCEPT !.state = "ended"]
  /\ UNCHANGED <<patch, surface, verif, call, attempt, archive, worker, container>>

ConfigureRepairSurface ==
  /\ surface < MaxSurface
  /\ surface' = surface + 1
  /\ UNCHANGED <<patch, approval, verif, call, attempt, archive, worker, container>>

-----------------------------------------------------------------------------
(* The build worker.                                                       *)

Stop(w) == worker' = [worker EXCEPT ![w].pc = "stopped"]

\* prepare_candidate: the approved patch, under its own live approval.
PreparedInputs == patch.status = "APPROVED" /\ ApprovalAuthorizes(patch.revision)

\* prepare_and_claim, first transaction: read the patch and rebuild its bytes in memory.
Prepare(w) ==
  /\ worker[w].pc = "idle" /\ PreparedInputs
  /\ worker' = [worker EXCEPT ![w] = [pc |-> "prepared", revision |-> patch.revision,
                                      surface |-> surface]]
  /\ UNCHANGED <<patch, approval, surface, verif, call, attempt, archive, container>>

\* The baseline, source and surface are those of the preparation.
SameSource(w) == worker[w].revision = patch.revision /\ worker[w].surface = surface

\* assert_dispatchable under the patch lock.
Claimable(w) ==
  /\ patch.status = "APPROVED"
  /\ ApprovalAuthorizes(patch.revision)
  /\ SameSource(w)

\* claim_build and capture_source commit together; nothing was executed yet.
ClaimBuild(w) ==
  /\ worker[w].pc = "prepared"
  /\ IF Claimable(w)
     THEN /\ patch' = Moved("BUILDING")
          /\ verif' = [verif EXCEPT ![w] = [NoVerification EXCEPT !.state = "BUILDING"]]
          /\ attempt' = [attempt EXCEPT ![w] =
                           [NoAttempt EXCEPT !.state = "CLAIMED", !.leased = TRUE,
                              !.approved = patch.revision, !.building = patch.revision + 1,
                              !.surface = surface]]
          /\ worker' = [worker EXCEPT ![w].pc = "claimed"]
     ELSE Stop(w) /\ UNCHANGED <<patch, verif, attempt>>
  /\ UNCHANGED <<approval, surface, call, archive, container>>

\* A mutant: the worker's token alone.
OwnedByToken(w, state) == attempt[w].state # "none"

\* _owned: a fence bumps the epoch as it leaves the state, so the state carries both.
Owned(w, state) == attempt[w].state = state /\ attempt[w].leased

\* The patch is still the one this attempt was claimed for.
PatchStillBuilding(w) ==
  patch.status = "BUILDING" /\ patch.revision = attempt[w].building

AuthorizeDispatch(w) ==
  /\ worker[w].pc = "claimed"
  /\ IF /\ Owned(w, "CLAIMED")
        /\ PatchStillBuilding(w)
        /\ surface = attempt[w].surface
        /\ ApprovalAuthorizes(attempt[w].approved)
     THEN /\ attempt' = [attempt EXCEPT ![w].state = "DISPATCHED"]
          /\ worker' = [worker EXCEPT ![w].pc = "dispatched"]
     ELSE Stop(w) /\ UNCHANGED attempt
  /\ UNCHANGED <<patch, approval, surface, verif, call, archive, container>>

\* docker create: a container, or an outcome nobody knows (the request may have landed).
CreateContainer(w) ==
  /\ worker[w].pc = "dispatched"
  /\ \/ /\ container' = [container EXCEPT ![w] = "created"]
        /\ worker' = [worker EXCEPT ![w].pc = "created"]
     \/ /\ container' \in {container, [container EXCEPT ![w] = "created"]}
        /\ worker' = [worker EXCEPT ![w].pc = "failingUnclean"]
  /\ UNCHANGED <<patch, approval, surface, verif, call, attempt, archive>>

\* record_creation commits the container identity, then docker start.
StartContainer(w) ==
  /\ worker[w].pc = "created"
  /\ IF Owned(w, "DISPATCHED")
     THEN /\ attempt' = [attempt EXCEPT ![w].receipt = TRUE]
          /\ container' = [container EXCEPT ![w] = "running"]
          /\ worker' = [worker EXCEPT ![w].pc = "started"]
     ELSE /\ \/ /\ container' = [container EXCEPT ![w] = "removed"]
                /\ worker' = [worker EXCEPT ![w].pc = "failing"]
             \/ /\ worker' = [worker EXCEPT ![w].pc = "failingUnclean"]
                /\ UNCHANGED container
          /\ UNCHANGED attempt
  /\ UNCHANGED <<patch, approval, surface, verif, call, archive>>

\* The build command ran: captured bytes or a failure, and the container removed, or
\* its removal unconfirmed, which overrides either.
BuildEnds(w) ==
  /\ worker[w].pc = "started"
  /\ \/ /\ container' = [container EXCEPT ![w] = "removed"]
        /\ worker' \in {[worker EXCEPT ![w].pc = p] : p \in {"captured", "failing"}}
     \/ /\ worker' = [worker EXCEPT ![w].pc = "failingUnclean"]
        /\ UNCHANGED container
  /\ UNCHANGED <<patch, approval, surface, verif, call, attempt, archive>>

\* fence_expired: every attempt of the workspace whose lease lapsed.
FencedAttempts(rows) ==
  [w \in Workers |-> IF rows[w].state \in {"CLAIMED", "DISPATCHED"} /\ ~rows[w].leased
                     THEN [rows[w] EXCEPT !.state = "UNKNOWN"] ELSE rows[w]]

\* Anything but CleanupUnconfirmed: the supervisor saw the container removed.
CleanupConfirmed(w) == worker[w].pc = "failing"

\* record_failure; refused when the attempt is no longer this worker's, and then swept.
RecordFailure(w) ==
  /\ worker[w].pc \in {"failing", "failingUnclean"}
  /\ LET clean == CleanupConfirmed(w) IN
     IF Owned(w, "DISPATCHED")
     THEN /\ attempt' = [attempt EXCEPT ![w].state = IF clean THEN "FAILED" ELSE "UNKNOWN"]
          /\ patch' = IF clean /\ PatchStillBuilding(w) THEN Moved("FAILED") ELSE patch
     ELSE attempt' = FencedAttempts(attempt) /\ UNCHANGED patch
  /\ Stop(w)
  /\ UNCHANGED <<approval, surface, verif, call, archive, container>>

\* retain_candidate, first transaction: the upload intent, before any byte is stored.
RetainArtifactIntent(w) ==
  /\ worker[w].pc = "captured"
  /\ IF Owned(w, "DISPATCHED") /\ attempt[w].receipt /\ archive[w].state = "none"
     THEN /\ archive' = [archive EXCEPT ![w].state = "QUARANTINED"]
          /\ worker' = [worker EXCEPT ![w].pc = "intent"]
     ELSE Stop(w) /\ UNCHANGED archive
  /\ UNCHANGED <<patch, approval, surface, verif, call, attempt, container>>

\* put_create_only: If-None-Match "*" refuses over bytes and over a tombstone.
CreateOnly(w) == archive[w].object = "absent"

\* retain_candidate, between its transactions: the put and the checked read-back.
Upload(w) ==
  /\ worker[w].pc = "intent"
  /\ IF CreateOnly(w)
     THEN /\ archive' = [archive EXCEPT ![w].object = "bytes"]
          /\ worker' = [worker EXCEPT ![w].pc = "uploaded"]
     ELSE Stop(w) /\ UNCHANGED archive
  /\ UNCHANGED <<patch, approval, surface, verif, call, attempt, container>>

\* The archive's promotion and finish_build, in one transaction.
Promotable(w) ==
  /\ Owned(w, "DISPATCHED")
  /\ archive[w].retirement = "none"
  /\ archive[w].fresh
  /\ archive[w].state = "QUARANTINED"
  /\ PatchStillBuilding(w)

Promote(w) ==
  /\ worker[w].pc = "uploaded"
  /\ IF Promotable(w)
     THEN /\ archive' = [archive EXCEPT ![w].state = "RETAINED"]
          /\ attempt' = [attempt EXCEPT ![w].state = "BUILT"]
          /\ worker' = [worker EXCEPT ![w].pc = "built"]
     ELSE Stop(w) /\ UNCHANGED <<archive, attempt>>
  /\ UNCHANGED <<patch, approval, surface, verif, call, container>>

\* candidate_regressions._authority: what every later use of the build rechecks.
BuildAuthority(w) ==
  /\ attempt[w].state = "BUILT"
  /\ PatchStillBuilding(w)
  /\ surface = attempt[w].surface
  /\ ApprovalAuthorizes(attempt[w].approved)
  /\ archive[w].state = "RETAINED"
  /\ archive[w].retirement = "none"
  /\ archive[w].fresh

\* publish_retained_materialization: idempotent metadata, callable again after a crash.
PublishMaterialization(w) ==
  /\ BuildAuthority(w)
  /\ archive[w].object = "bytes"
  /\ ~attempt[w].published
  /\ attempt' = [attempt EXCEPT ![w].published = TRUE]
  /\ UNCHANGED <<patch, approval, surface, verif, call, archive, worker, container>>

\* candidate_runs.prepare: the verification gets the one candidate run it may be judged by.
BindCandidateRun(w) ==
  /\ BuildAuthority(w)
  /\ verif[w].state = "BUILDING" /\ ~verif[w].bound
  /\ verif' = [verif EXCEPT ![w].bound = TRUE]
  /\ attempt' = [attempt EXCEPT ![w].published = TRUE]
  /\ UNCHANGED <<patch, approval, surface, call, archive, worker, container>>

\* The coordinator process dies; its container, if any, is left as it was.
Crash(w) ==
  /\ worker[w].pc \notin {"idle", "built", "stopped"}
  /\ Stop(w)
  /\ UNCHANGED <<patch, approval, surface, verif, call, attempt, archive, container>>

-----------------------------------------------------------------------------
(* Time, the sweep and the retention worker.                               *)

LeaseLapses(w) ==
  /\ attempt[w].state \in {"CLAIMED", "DISPATCHED"} /\ attempt[w].leased
  /\ attempt' = [attempt EXCEPT ![w].leased = FALSE]
  /\ UNCHANGED <<patch, approval, surface, verif, call, archive, worker, container>>

FenceExpired ==
  /\ FencedAttempts(attempt) # attempt
  /\ attempt' = FencedAttempts(attempt)
  /\ UNCHANGED <<patch, approval, surface, verif, call, archive, worker, container>>

RetentionElapses(w) ==
  /\ archive[w].state # "none" /\ archive[w].fresh
  /\ archive' = [archive EXCEPT ![w].fresh = FALSE]
  /\ UNCHANGED <<patch, approval, surface, verif, call, attempt, worker, container>>

\* retire_expired_candidate: the intent closes reads and promotion and fences the builder.
RetireIntent(w) ==
  /\ archive[w].state # "none" /\ ~archive[w].fresh /\ archive[w].retirement = "none"
  /\ archive' = [archive EXCEPT ![w].retirement = "intended"]
  /\ attempt' = [attempt EXCEPT ![w].state =
                   IF @ \in {"CLAIMED", "DISPATCHED"} THEN "UNKNOWN" ELSE @]
  /\ UNCHANGED <<patch, approval, surface, verif, call, worker, container>>

RetireObject(w) ==
  /\ archive[w].retirement = "intended" /\ archive[w].object # "tombstone"
  /\ archive' = [archive EXCEPT ![w].object = "tombstone"]
  /\ UNCHANGED <<patch, approval, surface, verif, call, attempt, worker, container>>

RetireCompletes(w) ==
  /\ archive[w].retirement = "intended" /\ archive[w].object = "tombstone"
  /\ archive' = [archive EXCEPT ![w].retirement = "completed", ![w].state = "DELETED"]
  /\ UNCHANGED <<patch, approval, surface, verif, call, attempt, worker, container>>

-----------------------------------------------------------------------------
(* The conclusion.                                                         *)

\* conclude_verification reads the record; the row is not locked by that read.
ConcludeReads(c, o) ==
  /\ call[c].op = "idle"
  /\ verif[o].state = "BUILDING"
  /\ call' = [call EXCEPT ![c] = [op |-> "concluding", revision |-> verif[o].revision, on |-> o]]
  /\ UNCHANGED <<patch, approval, surface, verif, attempt, archive, worker, container>>

\* What the evidence rows say: the candidate's outcome, whether the protected
\* regressions are attested for it, and whether every other gate and identity matches.
Evidence == [outcome : {"PASS", "FAIL", "other"}, attested : BOOLEAN, matched : BOOLEAN]

\* attest(): a run that candidate_runs.prepare bound to this verification, evaluated
\* against its baseline, with the functional receipt of its own regression.
Attestable(o, e) == e.attested => verif[o].bound

\* The gates, on the patch as it stands after the candidate was recorded.
Conclusion(hasCandidate, status, e) ==
  IF hasCandidate /\ e.outcome = "PASS" /\ e.attested /\ e.matched /\ status = "VERIFYING"
  THEN "VERIFIED"
  ELSE IF hasCandidate /\ e.outcome \in {"PASS", "FAIL"} /\ e.attested
       THEN "NOT_ESTABLISHED" ELSE "INCONCLUSIVE"

\* The statements after the read, in one transaction: record the candidate, derive the
\* evidence, write under the revision read, and move the patch.
ConcludeCommits(c) ==
  /\ call[c].op = "concluding"
  /\ call' = [call EXCEPT ![c].op = "done"]
  /\ LET o == call[c].on IN
     IF verif[o].state # "CONCLUDED" /\ verif[o].revision = call[c].revision
     THEN \E named \in BOOLEAN, e \in Evidence :
            /\ Attestable(o, e)
            /\ LET hasCandidate == verif[o].bound \/ named
                   recorded == IF hasCandidate /\ patch.status = "BUILDING"
                               THEN Moved("VERIFYING") ELSE patch
                   concluded == Conclusion(hasCandidate, recorded.status, e)
                   target == IF concluded = "VERIFIED" THEN "VERIFIED" ELSE "FAILED"
               IN /\ verif' = [verif EXCEPT ![o] =
                                 [state |-> "CONCLUDED", conclusion |-> concluded,
                                  revision |-> verif[o].revision + 1, bound |-> verif[o].bound]]
                  /\ patch' = IF target \in ALLOWED_TRANSITIONS[recorded.status]
                              THEN [status |-> target, revision |-> recorded.revision + 1]
                              ELSE recorded
     ELSE UNCHANGED <<verif, patch>>
  /\ UNCHANGED <<approval, surface, attempt, archive, worker, container>>

-----------------------------------------------------------------------------
WorkerStep(w) ==
  \/ Prepare(w) \/ ClaimBuild(w) \/ AuthorizeDispatch(w) \/ CreateContainer(w)
  \/ StartContainer(w) \/ BuildEnds(w) \/ RecordFailure(w) \/ RetainArtifactIntent(w)
  \/ Upload(w) \/ Promote(w) \/ PublishMaterialization(w) \/ BindCandidateRun(w) \/ Crash(w)

RetentionStep(w) ==
  \/ LeaseLapses(w) \/ RetentionElapses(w)
  \/ RetireIntent(w) \/ RetireObject(w) \/ RetireCompletes(w)

CallerStep(c) ==
  \/ ReadPatch(c) \/ ApprovePatch(c) \/ RejectPatch(c)
  \/ OpenVerificationReads(c) \/ OpenVerificationCommits(c)
  \/ \E o \in Openers : ConcludeReads(c, o)
  \/ ConcludeCommits(c)

BuildNext ==
  \/ \E w \in Workers : WorkerStep(w) \/ RetentionStep(w)
  \/ \E c \in Callers : CallerStep(c)
  \/ ApprovalEnds \/ ConfigureRepairSurface \/ FenceExpired

BuildSpec == BuildInit /\ [][BuildNext]_buildVars

-----------------------------------------------------------------------------
(* Properties.                                                             *)

\* The approved bytes are verified, built and executed at most once: whichever of the
\* racing workers and API callers opens the verification, no second one is ever opened
\* and no second container is created, also after crashes and lapsed leases.
SingleExecution ==
  /\ Cardinality({o \in Openers : verif[o].state # "none"}) <= 1
  /\ \A w \in Workers : container[w] # "none" => verif[w].state # "none"

\* A rejection is final for execution: no container and no verification exists for a
\* rejected patch, although approval, rejection and claim race.
RejectedNeverRuns ==
  patch.status = "REJECTED" =>
    /\ \A o \in Openers : verif[o].state = "none"
    /\ \A w \in Workers : container[w] = "none"

\* BUILT is a statement about durable bytes and a finished container: its receipt was
\* committed before the start, its container is gone, and the archive is readable until
\* its retirement begins.
BuiltIsRetained ==
  \A w \in Workers : attempt[w].state = "BUILT" =>
    /\ attempt[w].receipt /\ container[w] = "removed"
    /\ archive[w].state \in {"RETAINED", "DELETED"}
    /\ archive[w].retirement = "none" => archive[w].object = "bytes"

\* The conclusion and the patch agree, and VERIFIED is only ever said of a verification
\* whose own build finished and whose candidate run was bound by the controller.
ConclusionMatchesPatch ==
  \A o \in Openers : verif[o].state = "CONCLUDED" =>
    IF verif[o].conclusion = "VERIFIED"
    THEN /\ patch.status = "VERIFIED" /\ verif[o].bound
         /\ o \in Workers /\ attempt[o].state = "BUILT"
    ELSE patch.status = "FAILED"

\* A build whose container may still be running never fails its patch: without a
\* conclusion, FAILED means a supervisor confirmed the removal.
FailureIsConfirmed ==
  /\ \A w \in Workers : attempt[w].state = "FAILED" => container[w] = "removed"
  /\ patch.status = "FAILED" =>
       \/ \E o \in Openers : verif[o].state = "CONCLUDED"
       \/ \E w \in Workers : attempt[w].state = "FAILED"

\* A frozen conclusion is not rewritten by whichever caller finishes second, and a
\* fenced, failed or built attempt never changes again.
FrozenOutcomes ==
  [][/\ \A o \in Openers : verif[o].state = "CONCLUDED" => verif'[o] = verif[o]
     /\ \A w \in Workers : attempt[w].state \in {"UNKNOWN", "FAILED", "BUILT"}
                              => attempt'[w].state = attempt[w].state]_buildVars

\* A tombstone is permanent: a worker that was fenced while uploading cannot bring the
\* retired bytes back.
NoResurrection ==
  [][\A w \in Workers : archive[w].object = "tombstone" => archive'[w].object = "tombstone"]_buildVars

\* One approved patch, whatever races, crashes, lapses and retries surround it, is built and
\* executed once, says only what its containers and bytes bear out, and stays concluded.
BuildIsTrustworthy ==
  /\ [](BuildTypeOK /\ SingleExecution /\ RejectedNeverRuns /\ BuiltIsRetained)
  /\ [](ConclusionMatchesPatch /\ FailureIsConfirmed)
  /\ FrozenOutcomes /\ NoResurrection
=============================================================================
