---------------------------- MODULE BaselineRun ----------------------------
(***************************************************************************)
(* The original, unpatched application of an approved run: built once from *)
(* its sealed source, retained, started for the protected regressions and, *)
(* in session mode, served to the one screen-reader lease of that same     *)
(* run.  The run's row is locked by everything here, so each transaction   *)
(* is one step; the build worker's containers and sockets, the desktop and *)
(* the clocks move between them.                                           *)
(*                                                                         *)
(* The regression's processes and the POSTs of one form action are alike:  *)
(* one of each is followed.  CandidateSession keeps the roles apart.       *)
(***************************************************************************)
EXTENDS Naturals

VARIABLES
  consented,  \* the run's seal and approval authorize it
  queued,     \* the run: its status, and whether cancellation was requested
  build,      \* baseline_build_attempt and the build's container
  stock,      \* baseline_archive, its object, its retirement and its age
  trial,      \* baseline_regression_attempt, one of its processes and its container
  site,       \* baseline_endpoint, its socket and baseline_session_binding
  desk,       \* the run's desktop_lease, and whether it is the baseline_reader_lease
  form,       \* one reader action, its permit and the POSTs sent for it
  builder, tester, keeper  \* where the three workers are

baselineVars == <<consented, queued, build, stock, trial, site, desk, form,
                  builder, tester, keeper>>
buildSide == <<build, stock, builder, keeper>>
trialSide == <<trial, site, form, tester>>
runSide == <<consented, queued, desk>>

BaselineTypeOK ==
  /\ consented \in BOOLEAN
  /\ queued \in [status : {"QUEUED", "LEASED", "COMPLETED"}, cancelled : BOOLEAN]
  /\ build \in [state : {"none", "CLAIMED", "DISPATCHED", "CAPTURED", "FAILED", "UNKNOWN"},
                leased : BOOLEAN, container : {"none", "created", "recorded", "gone"}]
  /\ stock \in [state : {"none", "QUARANTINED", "RETAINED", "DELETED"},
                object : {"none", "stored", "tombstone"},
                retire : {"none", "requested", "completed"}, aged : BOOLEAN]
  /\ trial \in [state : {"none", "CLAIMED", "DISPATCHED", "PASSED", "FAILED", "UNKNOWN"},
                leased : BOOLEAN, served : BOOLEAN, row : {"none", "PLANNED", "CREATED", "REMOVED"},
                container : {"none", "up", "gone"}]
  /\ site \in [state : {"none", "PLANNED", "BOUND", "CLOSED", "UNKNOWN"}, live : BOOLEAN,
               receipt : BOOLEAN, socket : BOOLEAN, session : BOOLEAN]
  /\ desk \in [lease : {"none", "held", "stopped", "fenced"}, reader : BOOLEAN]
  /\ form \in [action : {"none", "dispatched", "known", "ambiguous"},
               permit : {"none", "open", "consumed", "responded"}, live : BOOLEAN,
               http : {"idle", "begun", "checked", "sent"}, posts : 0 .. 2]
  /\ builder \in {"idle", "prepared", "claimed", "dispatched", "creating", "running", "built",
                  "failing", "unclean", "captured", "uploading", "uploaded", "over"}
  /\ tester \in {"idle", "read", "claimed", "launching", "creating", "created", "planned", "serving",
                 "closing", "broken", "checking", "sweeping", "tainted", "passing", "failing", "unclean", "over"}
  /\ keeper \in {"idle", "retiring", "retired"}

BaselineInit ==
  /\ consented = TRUE
  /\ queued = [status |-> "QUEUED", cancelled |-> FALSE]
  /\ build = [state |-> "none", leased |-> FALSE, container |-> "none"]
  /\ stock = [state |-> "none", object |-> "none", retire |-> "none", aged |-> FALSE]
  /\ trial = [state |-> "none", leased |-> FALSE, served |-> FALSE, row |-> "none",
              container |-> "none"]
  /\ site = [state |-> "none", live |-> FALSE, receipt |-> FALSE, socket |-> FALSE,
             session |-> FALSE]
  /\ desk = [lease |-> "none", reader |-> FALSE]
  /\ form = [action |-> "none", permit |-> "none", live |-> FALSE, http |-> "idle", posts |-> 0]
  /\ builder = "idle" /\ tester = "idle" /\ keeper = "idle"

\* read_binding: an approved queued run no desktop was ever leased for.
Approved == consented /\ ~queued.cancelled
Unleased == Approved /\ queued.status = "QUEUED" /\ desk.lease = "none"

\* The same, or the run whose only lease is this runtime's reader.
BoundReader == desk.reader /\ trial.state = "DISPATCHED" /\ trial.served
StillBound == Unleased \/ (Approved /\ queued.status # "QUEUED" /\ BoundReader)

-----------------------------------------------------------------------------
(* execute_baseline_build.                                                 *)

Building(from) == builder = from /\ UNCHANGED <<runSide, trialSide, keeper>>

\* prepare_baseline_source: the authority is checked before and after the slow read.
PrepareSource ==
  /\ Building("idle") /\ Unleased /\ builder' = "prepared"
  /\ UNCHANGED <<build, stock>>

\* claim: one attempt per run, ever.
ClaimBaseline ==
  /\ Building("prepared")
  /\ IF Unleased /\ build.state = "none"
     THEN build' = [build EXCEPT !.state = "CLAIMED", !.leased = TRUE] /\ builder' = "claimed"
     ELSE builder' = "over" /\ UNCHANGED build
  /\ UNCHANGED stock

BuildOwned(state) == build.state = state /\ build.leased

\* dispatch; a refusal here leaves the claim to fence_expired.
DispatchBaseline ==
  /\ Building("claimed")
  /\ IF BuildOwned("CLAIMED") /\ Unleased
     THEN build' = [build EXCEPT !.state = "DISPATCHED"] /\ builder' = "dispatched"
     ELSE builder' = "over" /\ UNCHANGED build
  /\ UNCHANGED stock

\* The sandbox creates the container; created records it before it may start.
CreateBaseline ==
  /\ Building("dispatched")
  /\ build' = [build EXCEPT !.container = "created"] /\ builder' = "creating"
  /\ UNCHANGED stock
RecordBaseline ==
  /\ Building("creating")
  /\ IF BuildOwned("DISPATCHED") /\ Unleased
     THEN build' = [build EXCEPT !.container = "recorded"] /\ builder' = "running"
     ELSE /\ builder' \in {"failing", "unclean"}
          /\ build' = IF builder' = "failing" THEN [build EXCEPT !.container = "gone"] ELSE build
  /\ UNCHANGED stock

\* The command ends, is cancelled or times out, and the sandbox removes the container or cannot.
BaselineEnds ==
  /\ Building("running")
  /\ \/ builder' \in {"built", "failing"} /\ build' = [build EXCEPT !.container = "gone"]
     \/ builder' = "unclean" /\ UNCHANGED build
  /\ UNCHANGED stock

\* captured: exactly the approved artifact, from the recorded container, cleaned up.
CaptureBaseline ==
  /\ Building("built")
  /\ IF BuildOwned("DISPATCHED") /\ Unleased
     THEN build' = [build EXCEPT !.state = "CAPTURED"] /\ builder' = "captured"
     ELSE builder' = "failing" /\ UNCHANGED build
  /\ UNCHANGED stock

FencedBuild == IF build.state \in {"CLAIMED", "DISPATCHED"} /\ ~build.leased
               THEN [build EXCEPT !.state = "UNKNOWN"] ELSE build

\* fail, or fence_expired when the claim is no longer the worker's.
FailBaseline ==
  /\ builder \in {"failing", "unclean"} /\ Building(builder)
  /\ build' = IF BuildOwned("DISPATCHED")
              THEN [build EXCEPT !.state = IF builder = "failing" THEN "FAILED" ELSE "UNKNOWN"]
              ELSE FencedBuild
  /\ builder' = "over"
  /\ UNCHANGED stock

BuildLeaseLapses ==
  /\ build.leased /\ build' = [build EXCEPT !.leased = FALSE]
  /\ UNCHANGED <<runSide, trialSide, stock, builder, keeper>>
FenceBuild ==
  /\ FencedBuild # build /\ build' = FencedBuild
  /\ UNCHANGED <<runSide, trialSide, stock, builder, keeper>>

\* The worker's process dies; its container stays.
CrashBuilder ==
  /\ builder \notin {"idle", "over"} /\ builder' = "over"
  /\ UNCHANGED <<runSide, trialSide, build, stock, keeper>>

-----------------------------------------------------------------------------
(* retain_baseline and retire_expired_baseline.                            *)

Available == stock.retire = "none" /\ ~stock.aged

RetainBaseline ==
  /\ Building("captured")
  /\ IF Unleased /\ stock.state = "none"
     THEN stock' = [stock EXCEPT !.state = "QUARANTINED"] /\ builder' = "uploading"
     ELSE builder' = "over" /\ UNCHANGED stock
  /\ UNCHANGED build
UploadBaseline ==
  /\ Building("uploading")
  /\ IF stock.object = "none"
     THEN stock' = [stock EXCEPT !.object = "stored"] /\ builder' = "uploaded"
     ELSE builder' = "over" /\ UNCHANGED stock
  /\ UNCHANGED build
PromoteBaseline ==
  /\ Building("uploaded")
  /\ stock' = IF Unleased /\ Available /\ stock.state = "QUARANTINED" /\ stock.object = "stored"
              THEN [stock EXCEPT !.state = "RETAINED"] ELSE stock
  /\ builder' = "over"
  /\ UNCHANGED build

Keeping(from, to) == keeper = from /\ keeper' = to /\ UNCHANGED <<runSide, trialSide, build, builder>>

Ages == ~stock.aged /\ stock.state # "none" /\ stock' = [stock EXCEPT !.aged = TRUE]
        /\ UNCHANGED <<runSide, trialSide, build, builder, keeper>>
RequestRetirement ==
  /\ Keeping("idle", "retiring")
  /\ stock.state # "none" /\ stock.retire # "completed" /\ (stock.retire = "none" => stock.aged)
  /\ stock' = [stock EXCEPT !.retire = "requested"]
RetireBaselineObject ==
  /\ Keeping("retiring", "retired")
  /\ stock' = [stock EXCEPT !.object = "tombstone"]
CompleteRetirement ==
  /\ Keeping("retired", "idle")
  /\ stock' = [stock EXCEPT !.state = "DELETED", !.retire = "completed"]
CrashKeeper ==
  /\ keeper # "idle" /\ Keeping(keeper, "idle")
  /\ UNCHANGED stock

-----------------------------------------------------------------------------
(* execute_baseline_regressions.                                           *)

Testing(from) == tester = from /\ UNCHANGED <<runSide, buildSide>>

\* _authority, and _owned with it.
TrialAuthority == build.state = "CAPTURED" /\ StillBound /\ stock.state = "RETAINED" /\ Available
TrialOwned(state) == trial.state = state /\ trial.leased
TrialActive == TrialOwned("DISPATCHED") /\ TrialAuthority
SiteLive == TrialActive /\ site.state = "BOUND" /\ site.live

\* read_retained_baseline: verified bytes, no authority.
Readable == build.state = "CAPTURED" /\ stock.state = "RETAINED" /\ Available
            /\ stock.object = "stored"
ReadBaseline ==
  /\ Testing("idle") /\ Readable /\ tester' = "read"
  /\ UNCHANGED <<trial, site, form>>

\* claim, once per build, and dispatch.
ClaimTrial(served) ==
  /\ Testing("read")
  /\ IF TrialAuthority /\ trial.state = "none"
     THEN trial' = [trial EXCEPT !.state = "CLAIMED", !.leased = TRUE, !.served = served]
          /\ tester' = "claimed"
     ELSE tester' = "over" /\ UNCHANGED trial
  /\ UNCHANGED <<site, form>>
DispatchTrial ==
  /\ Testing("claimed")
  /\ IF TrialOwned("CLAIMED") /\ TrialAuthority
     THEN trial' = [trial EXCEPT !.state = "DISPATCHED"] /\ tester' = "launching"
     ELSE tester' = "over" /\ UNCHANGED trial
  /\ UNCHANGED <<site, form>>

\* planned, docker create, created, assert_active.
PlanTrialProcess ==
  /\ Testing("launching")
  /\ IF TrialActive
     THEN trial' = [trial EXCEPT !.row = "PLANNED"] /\ tester' = "creating"
     ELSE tester' = "sweeping" /\ UNCHANGED trial
  /\ UNCHANGED <<site, form>>
CreateTrialProcess ==
  /\ Testing("creating")
  /\ \/ trial' = [trial EXCEPT !.container = "up", !.row = "CREATED"]
        /\ tester' = IF ~TrialActive THEN "sweeping"
                     ELSE IF trial.served THEN "created" ELSE "checking"
     \/ \* created or lost: the daemon's answer or the receipt is missing
        /\ trial' \in {trial, [trial EXCEPT !.container = "up"]} /\ tester' = "sweeping"
  /\ UNCHANGED <<site, form>>

\* endpoints.plan, the socket, endpoints.bound.
PlanSite ==
  /\ Testing("created")
  /\ IF TrialActive
     THEN site' = [site EXCEPT !.state = "PLANNED", !.live = TRUE] /\ tester' = "planned"
     ELSE tester' = "sweeping" /\ UNCHANGED site
  /\ UNCHANGED <<trial, form>>
BindSite ==
  /\ Testing("planned")
  /\ IF TrialActive /\ site.state = "PLANNED" /\ site.live
     THEN site' = [site EXCEPT !.state = "BOUND", !.receipt = TRUE, !.socket = TRUE]
          /\ tester' = "serving"
     ELSE tester' = "closing" /\ UNCHANGED site
  /\ UNCHANGED <<trial, form>>

\* baseline_runs.prepare: the original run, still unleased, becomes this endpoint's session.
PrepareSession ==
  /\ Testing("serving") /\ SiteLive /\ Unleased /\ ~site.session
  /\ site' = [site EXCEPT !.session = TRUE]
  /\ UNCHANGED <<trial, form, tester>>

-----------------------------------------------------------------------------
(* The desktop, and the run.                                               *)

\* Mutant: only an attempt that is still running holds the desktop back.
BuildInactive == build.state \notin {"CLAIMED", "DISPATCHED"}

\* block_unsettled_baseline_build.
BuildSettled == build.state \in {"none", "CAPTURED"}

\* block_unsettled_baseline_regression: the one reader of a live session, or nothing of
\* the baseline is unsettled.
TrialSettled == IF site.session
                THEN ~desk.reader /\ trial.state = "DISPATCHED" /\ site.state = "BOUND"
                ELSE trial.state \in {"none", "PASSED"}

\* admit_lease, by the session's callback or by anyone who may lease the run; the trigger
\* bind_baseline_reader_lease makes it the session's reader.
AdmitDesktop ==
  /\ queued.status = "QUEUED" /\ ~queued.cancelled /\ desk.lease = "none"
  /\ site.session => SiteLive
  /\ BuildSettled /\ TrialSettled
  /\ desk' = [lease |-> "held", reader |-> site.session]
  /\ queued' = [queued EXCEPT !.status = "LEASED"]
  /\ UNCHANGED <<consented, buildSide, trialSide>>

\* The reader stops and is acknowledged at its epoch, or the lease is fenced without proof.
ReaderStops ==
  /\ desk.lease = "held" /\ desk' = [desk EXCEPT !.lease = "stopped"]
  /\ UNCHANGED <<consented, queued, buildSide, trialSide>>
DeskFenced ==
  /\ desk.lease = "held" /\ desk' = [desk EXCEPT !.lease = "fenced"]
  /\ UNCHANGED <<consented, queued, buildSide, trialSide>>
RunCompletes ==
  /\ queued.status = "LEASED" /\ desk.lease # "held"
  /\ queued' = [queued EXCEPT !.status = "COMPLETED"]
  /\ UNCHANGED <<consented, desk, buildSide, trialSide>>
RunCancelled ==
  /\ queued.status # "COMPLETED" /\ ~queued.cancelled
  /\ queued' = [queued EXCEPT !.cancelled = TRUE]
  /\ UNCHANGED <<consented, desk, buildSide, trialSide>>
ConsentEnds ==
  /\ consented /\ consented' = FALSE
  /\ UNCHANGED <<queued, desk, buildSide, trialSide>>

-----------------------------------------------------------------------------
(* One form action of the reader.                                          *)

\* baseline_runs.assert_lease: the live session's own live lease.
ReaderLive == SiteLive /\ site.session /\ desk = [lease |-> "held", reader |-> TRUE]
Acting == UNCHANGED <<runSide, buildSide, trial, site, tester>>

\* The supervisor dispatches an activation, and asks for its permit after a preflight with a
\* fresh artifact observation of this lease.
DispatchForm ==
  /\ ReaderLive /\ form.action = "none"
  /\ form' = [form EXCEPT !.action = "dispatched"]
  /\ Acting
Measured == ReaderLive
PermitForm ==
  /\ Measured /\ form.action = "dispatched" /\ form.permit = "none"
  /\ form' = [form EXCEPT !.permit = "open", !.live = TRUE]
  /\ Acting

Unconsumed == form.permit = "open"

\* baseline_effect_delivery._live, begin, check, the POST, retain_response.
DeliveryLive == ReaderLive /\ form.action = "dispatched" /\ form.live
BeginForm ==
  /\ form.http = "idle" /\ site.socket /\ DeliveryLive /\ Unconsumed
  /\ form' = [form EXCEPT !.permit = "consumed", !.http = "begun"]
  /\ Acting
CheckForm ==
  /\ form.http = "begun"
  /\ form' = [form EXCEPT !.http = IF DeliveryLive /\ form.permit = "consumed" THEN "checked"
                                   ELSE "idle"]
  /\ Acting
SendForm ==
  /\ form.http = "checked" /\ form.posts < 2
  /\ form' = [form EXCEPT !.posts = @ + 1, !.http = "sent"]
  /\ Acting
AnswerForm ==
  /\ form.http = "sent"
  /\ form' \in {[form EXCEPT !.http = "idle"],
                [form EXCEPT !.http = "idle", !.permit = IF DeliveryLive THEN "responded" ELSE @]}
  /\ Acting

\* assert_action_result: a known result hides no unresolved POST.
FormUnresolved == form.permit = "consumed" \/ (form.permit = "open" /\ form.live)
ReportForm(result) ==
  /\ form.action = "dispatched" /\ desk.lease = "held"
  /\ result = "known" => ReaderLive /\ ~FormUnresolved
  /\ form' = [form EXCEPT !.action = result]
  /\ Acting
PermitLapses ==
  /\ form.live /\ form' = [form EXCEPT !.live = FALSE]
  /\ Acting

-----------------------------------------------------------------------------
(* The end of the regression.                                              *)

\* reader_cleanup_confirmed: expiry or release alone is insufficient.
ReaderReleased == desk.reader => desk.lease = "stopped"

\* The callback returns, raises or times out; without the reader's stop the attempt can
\* only end as uncertain.
SessionEnds ==
  /\ Testing("serving")
  /\ tester' = IF ReaderReleased THEN "closing" ELSE "broken"
  /\ UNCHANGED <<trial, site, form>>

\* The gateway closes and joins its handler, or cannot; endpoints.closed.
CloseSite ==
  /\ tester \in {"closing", "broken"} /\ Testing(tester)
  /\ \E clean \in BOOLEAN :
       /\ clean => form.http = "idle"
       /\ site' = [site EXCEPT !.socket = ~clean /\ @,
                     !.state = IF clean /\ trial.state = "DISPATCHED" /\ @ # "UNKNOWN"
                               THEN "CLOSED" ELSE "UNKNOWN"]
       /\ tester' = IF ~clean \/ tester = "broken" THEN "tainted"
                    ELSE IF site.receipt /\ TrialActive THEN "checking" ELSE "sweeping"
  /\ UNCHANGED <<trial, form>>

ChecksEnd ==
  /\ Testing("checking")
  /\ tester' \in {"passing", "sweeping"}
  /\ UNCHANGED <<trial, site, form>>

\* removed: only what a receipt says was created can be recorded as removed.
Sweep ==
  /\ tester \in {"passing", "sweeping", "tainted"} /\ Testing(tester)
  /\ \/ /\ trial.row = "CREATED"
        /\ trial' = [trial EXCEPT !.container = "gone", !.row = "REMOVED"]
        /\ UNCHANGED tester
     \/ /\ trial.row = "PLANNED"
        /\ trial' \in {trial, [trial EXCEPT !.container = IF @ = "up" THEN "gone" ELSE @]}
        /\ tester' = "unclean"
     \/ /\ trial.row \in {"PLANNED", "CREATED"} /\ UNCHANGED trial /\ tester' = "unclean"
     \/ /\ tester # "passing" /\ trial.row \in {"none", "REMOVED"} /\ UNCHANGED trial
        /\ tester' = IF tester = "tainted" THEN "unclean" ELSE "failing"
  /\ UNCHANGED <<site, form>>

\* finish, with the endpoint's lifecycle trigger.
FinishTrial ==
  /\ Testing("passing") /\ trial.row = "REMOVED"
  /\ IF /\ Readable /\ TrialActive /\ ReaderReleased
        /\ trial.served => site.state = "CLOSED" /\ site.receipt
        /\ site.state \in {"none", "CLOSED"}
     THEN trial' = [trial EXCEPT !.state = "PASSED"] /\ tester' = "over"
     ELSE tester' = "failing" /\ UNCHANGED trial
  /\ UNCHANGED <<site, form>>

\* The state UNKNOWN reaches the endpoint too.
SiteFenced(t) == IF t.state = "UNKNOWN" /\ site.state \in {"PLANNED", "BOUND"}
                 THEN [site EXCEPT !.state = "UNKNOWN"] ELSE site
FencedTrial == IF trial.state \in {"CLAIMED", "DISPATCHED"} /\ ~trial.leased
               THEN [trial EXCEPT !.state = "UNKNOWN"] ELSE trial

NothingLeft == trial.row \in {"none", "REMOVED"} /\ site.state \in {"none", "CLOSED"}
               /\ ReaderReleased

FailTrial ==
  /\ tester \in {"failing", "unclean"} /\ Testing(tester)
  /\ trial' = IF TrialOwned("DISPATCHED")
              THEN [trial EXCEPT !.state = IF tester = "failing" /\ NothingLeft THEN "FAILED"
                                           ELSE "UNKNOWN"]
              ELSE FencedTrial
  /\ site' = SiteFenced(trial')
  /\ tester' = "over"
  /\ UNCHANGED form

TrialLeaseLapses ==
  /\ trial.leased /\ trial' = [trial EXCEPT !.leased = FALSE]
  /\ UNCHANGED <<runSide, buildSide, site, form, tester>>
FenceTrial ==
  /\ FencedTrial # trial /\ trial' = FencedTrial /\ site' = SiteFenced(trial')
  /\ UNCHANGED <<runSide, buildSide, form, tester>>
SiteExpires ==
  /\ site.live /\ site' = [site EXCEPT !.live = FALSE]
  /\ UNCHANGED <<runSide, buildSide, trial, form, tester>>
\* The coordinator dies: its socket and its handler with it, its containers stay.
CrashTester ==
  /\ tester \notin {"idle", "over"} /\ tester' = "over"
  /\ site' = [site EXCEPT !.socket = FALSE] /\ form' = [form EXCEPT !.http = "idle"]
  /\ UNCHANGED <<runSide, buildSide, trial>>

-----------------------------------------------------------------------------
BuildStep ==
  \/ PrepareSource \/ ClaimBaseline \/ DispatchBaseline \/ CreateBaseline \/ RecordBaseline
  \/ BaselineEnds \/ CaptureBaseline \/ FailBaseline \/ BuildLeaseLapses \/ FenceBuild
  \/ RetainBaseline \/ UploadBaseline \/ PromoteBaseline \/ CrashBuilder
KeepStep == Ages \/ RequestRetirement \/ RetireBaselineObject \/ CompleteRetirement \/ CrashKeeper
TrialStep ==
  \/ ReadBaseline \/ (\E b \in BOOLEAN : ClaimTrial(b)) \/ DispatchTrial \/ PlanTrialProcess
  \/ CreateTrialProcess \/ PlanSite \/ BindSite \/ PrepareSession \/ SessionEnds \/ CloseSite
  \/ ChecksEnd \/ Sweep \/ FinishTrial \/ FailTrial \/ TrialLeaseLapses \/ FenceTrial
  \/ SiteExpires \/ CrashTester
DeskStep == AdmitDesktop \/ ReaderStops \/ DeskFenced \/ RunCompletes \/ RunCancelled \/ ConsentEnds
FormStep ==
  \/ DispatchForm \/ PermitForm \/ BeginForm \/ CheckForm \/ SendForm \/ AnswerForm
  \/ PermitLapses \/ \E r \in {"known", "ambiguous"} : ReportForm(r)

BaselineNext == BuildStep \/ KeepStep \/ TrialStep \/ DeskStep \/ FormStep

BaselineSpec == BaselineInit /\ [][BaselineNext]_baselineVars

-----------------------------------------------------------------------------
(* Properties.                                                             *)

\* The desktop meets a settled baseline: once the run has a desktop lease no build container
\* is left, and a runtime or a socket that is up is the one its reader is bound to, whatever
\* crashed, expired or lost its answer before ("no implicit retry").
DesktopMeetsSettledBaseline ==
  desk.lease # "none" =>
    /\ build.container \notin {"created", "recorded"}
    /\ trial.container = "up" \/ site.socket => desk.reader

\* A verdict leaves nothing behind: a passed or cleanly failed regression has no container,
\* no socket, no POST in flight and no reader without an acknowledged stop.
VerdictLeavesNothing ==
  /\ trial.state \in {"PASSED", "FAILED"} =>
       trial.container # "up" /\ ~site.socket /\ (desk.reader => desk.lease = "stopped") /\ form.http = "idle"
  /\ build.state \in {"CAPTURED", "FAILED"} => build.container \notin {"created", "recorded"}

\* One form action sends at most one POST, and a known result hides no POST whose answer
\* was not retained.
FormIsOnce ==
  /\ form.posts <= 1
  /\ form.action = "known" => form.http = "idle" /\ (form.posts = 1 => form.permit = "responded")

\* A baseline, its build, its trial and its reader: each meets the one before settled, ends
\* with nothing left behind, and submits its form once.
BaselineIsTrustworthy ==
  BaselineTypeOK /\ DesktopMeetsSettledBaseline /\ VerdictLeavesNothing /\ FormIsOnce
=============================================================================
