-------------------------- MODULE CandidateSession --------------------------
(***************************************************************************)
(* One regression attempt of a finished candidate build: the coordinator   *)
(* (regression_coordinator.py, reference_regressions.py) that creates the  *)
(* runtime containers, seeds the fixture, opens the loopback gateway       *)
(* (candidate_gateway.py) for the screen reader's run, closes it, runs the *)
(* protected checks and removes everything; the rows it commits before     *)
(* each effect (candidate_regressions, candidate_endpoints,                *)
(* candidate_fixture_setups, candidate_runs); and the one-shot permission  *)
(* under which a reader action may POST the form once                      *)
(* (candidate_effects, candidate_effect_delivery).                         *)
(*                                                                         *)
(* Everything that can end while the coordinator works ends by itself:     *)
(* the worker's lease, the endpoint's lifetime, the build's authority, the *)
(* run, a permission.                                                      *)
(***************************************************************************)
EXTENDS Naturals, FiniteSets

CONSTANTS LaunchRoles,    \* containers created before the endpoint (database, driver, candidate)
          FinalRole,      \* the restarted candidate of the protected checks
          ReaderActions   \* form actions of the bound run

ASSUME RolesDistinct == FinalRole \notin LaunchRoles

VARIABLES
  authority,   \* _authority(build): patch, approval, archive and retention
  reg,         \* candidate_regression_attempt row
  proc,        \* candidate_regression_process rows
  box,         \* the containers themselves
  unsure,      \* roles whose docker create never answered (the coordinator's memory)
  swept,       \* roles the coordinator's cleanup has tried
  unclean,     \* CleanupUnconfirmed was raised
  fixture,     \* candidate_fixture_reservation row
  endpoint,    \* candidate_endpoint row
  gateway,     \* the loopback HTTP server
  run,         \* candidate_run_binding and the bound run
  reader,      \* candidate_reader_lease and its desktop_lease
  act,         \* runner_action rows of the form actions
  permit,      \* candidate_action_effect_permit and candidate_effect_delivery
  transport,   \* the single request the gateway is serving
  posts,       \* POSTs that reached the candidate
  pc           \* the coordinator

sessionVars == <<authority, reg, proc, box, unsure, swept, unclean, fixture, endpoint, gateway, run, reader,
                 act, permit, transport, posts, pc>>

regVars == <<authority, reg>>
boxVars == <<proc, box, unsure, swept, unclean>>
siteVars == <<fixture, endpoint, gateway, run, reader>>
effectVars == <<act, permit, transport, posts>>

ROLES == LaunchRoles \cup {FinalRole}

NoPermit == [state |-> "none", live |-> FALSE, response |-> FALSE]
Idle == [phase |-> "idle", on |-> "none"]

SessionTypeOK ==
  /\ authority \in BOOLEAN
  /\ reg \in [state : {"none", "CLAIMED", "DISPATCHED", "PASSED", "FAILED", "UNKNOWN"},
              leased : BOOLEAN, session : BOOLEAN]
  /\ proc \in [ROLES -> {"none", "PLANNED", "CREATED", "REMOVED"}]
  /\ box \in [ROLES -> {"none", "present", "removed"}]
  /\ unsure \subseteq ROLES /\ swept \subseteq ROLES /\ unclean \in BOOLEAN
  /\ fixture \in {"none", "reserved", "confirmed"}
  /\ endpoint \in [state : {"none", "PLANNED", "BOUND", "CLOSED", "UNKNOWN"},
                   live : BOOLEAN, clean : BOOLEAN]
  /\ gateway \in {"none", "open", "closed"}
  /\ run \in [bound : BOOLEAN, live : BOOLEAN, preview : BOOLEAN]
  /\ reader \in {"none", "held", "released", "releasedLate"}
  /\ act \in [ReaderActions -> {"none", "dispatched", "known", "ambiguous"}]
  /\ permit \in [ReaderActions -> [state : {"none", "open", "consumed"},
                                   live : BOOLEAN, response : BOOLEAN]]
  /\ transport \in [phase : {"idle", "begun", "checked", "sent"},
                    on : ReaderActions \cup {"none"}]
  /\ posts \in [ReaderActions -> Nat]
  /\ pc \in {"idle", "claimed", "launching", "seeding", "seeded", "planned", "serving",
             "closing", "checking", "ok", "failed", "stopped"}

SessionInit ==
  /\ authority = TRUE
  /\ reg = [state |-> "none", leased |-> FALSE, session |-> FALSE]
  /\ proc = [r \in ROLES |-> "none"]
  /\ box = [r \in ROLES |-> "none"]
  /\ unsure = {} /\ swept = {} /\ unclean = FALSE
  /\ fixture = "none"
  /\ endpoint = [state |-> "none", live |-> FALSE, clean |-> FALSE]
  /\ gateway = "none"
  /\ run = [bound |-> FALSE, live |-> FALSE, preview |-> FALSE]
  /\ reader = "none"
  /\ act = [a \in ReaderActions |-> "none"]
  /\ permit = [a \in ReaderActions |-> NoPermit]
  /\ transport = Idle
  /\ posts = [a \in ReaderActions |-> 0]
  /\ pc = "idle"

-----------------------------------------------------------------------------
(* The authority every transaction of the worker rechecks.                 *)

\* A mutant: the worker's token alone, whatever became of the attempt.
RegToken(state) == reg.state # "none"

\* _owned: state, epoch, token and an unexpired lease.
RegOwned(state) == reg.state = state /\ reg.leased

\* assert_active
Active == RegOwned("DISPATCHED") /\ authority

\* endpoints.assert_live
EndpointLive == Active /\ endpoint.state = "BOUND" /\ endpoint.live

\* candidate_runs.assert_live, for the bound run
RunLive == EndpointLive /\ run.bound /\ run.live

\* candidate_runs.assert_lease
LeaseLive == RunLive /\ reader = "held"

\* candidate_runs.assert_request: a bound session never outlives its first reader lease.
RequestAllowed ==
  run.bound => IF reader = "none" THEN RunLive ELSE LeaseLive

-----------------------------------------------------------------------------
(* Claim, dispatch and containers.                                         *)

\* claim: one attempt per build, with an endpoint for a reader or without one.
ClaimRegression ==
  /\ pc = "idle" /\ authority /\ reg.state = "none"
  /\ \E session \in BOOLEAN : reg' = [state |-> "CLAIMED", leased |-> TRUE, session |-> session]
  /\ pc' = "claimed"
  /\ UNCHANGED <<authority, boxVars, siteVars, effectVars>>

DispatchRegression ==
  /\ pc = "claimed"
  /\ IF RegOwned("CLAIMED") /\ authority
     THEN reg' = [reg EXCEPT !.state = "DISPATCHED"] /\ pc' = "launching"
     ELSE pc' = "stopped" /\ UNCHANGED reg
  /\ UNCHANGED <<authority, boxVars, siteVars, effectVars>>

\* The role the coordinator creates next.
Launching(r) == IF r = FinalRole THEN pc = "checking" ELSE pc = "launching"

\* planned(): the intent row, committed before docker create.
PlanProcess(r) ==
  /\ Launching(r) /\ proc[r] = "none"
  /\ \A q \in ROLES : proc[q] # "PLANNED"
  /\ IF Active
     THEN proc' = [proc EXCEPT ![r] = "PLANNED"] /\ UNCHANGED pc
     ELSE pc' = "failed" /\ UNCHANGED proc
  /\ UNCHANGED <<regVars, box, unsure, swept, unclean, siteVars, effectVars>>

\* docker create, or a create whose outcome is unknown and which may land later.
CreateProcess(r) ==
  /\ Launching(r) /\ proc[r] = "PLANNED" /\ box[r] = "none"
  /\ \/ box' = [box EXCEPT ![r] = "present"] /\ UNCHANGED <<unsure, pc>>
     \/ unsure' = unsure \cup {r} /\ pc' = "failed" /\ UNCHANGED box
  /\ UNCHANGED <<regVars, proc, swept, unclean, siteVars, effectVars>>

CreateLands(r) ==
  /\ r \in unsure /\ box[r] = "none"
  /\ box' = [box EXCEPT ![r] = "present"]
  /\ UNCHANGED <<regVars, proc, unsure, swept, unclean, siteVars, effectVars, pc>>

\* created(): the fact is recorded even after a fence; going on needs live authority.
RecordCreated(r) ==
  /\ Launching(r) /\ proc[r] = "PLANNED" /\ box[r] = "present"
  /\ proc' = [proc EXCEPT ![r] = "CREATED"]
  /\ pc' = IF ~Active THEN "failed"
           ELSE IF r = FinalRole THEN "ok" ELSE pc
  /\ UNCHANGED <<regVars, box, unsure, swept, unclean, siteVars, effectVars>>

-----------------------------------------------------------------------------
(* Fixture, endpoint and reader.                                           *)

Launched == \A r \in LaunchRoles : proc[r] = "CREATED"

\* candidate_fixture_setups.reserve, committed before the seeding request.
ReserveFixture ==
  /\ pc = "launching" /\ Launched /\ reg.session
  /\ IF Active /\ fixture = "none" /\ endpoint.state = "none"
     THEN fixture' = "reserved" /\ pc' = "seeding"
     ELSE pc' = "failed" /\ UNCHANGED fixture
  /\ UNCHANGED <<regVars, boxVars, endpoint, gateway, run, reader, effectVars>>

\* The independent observation of the seeded database, confirmed or refused.
ConfirmFixture ==
  /\ pc = "seeding"
  /\ \/ /\ Active /\ fixture = "reserved" /\ endpoint.state = "none"
        /\ fixture' = "confirmed" /\ pc' = "seeded"
     \/ pc' = "failed" /\ UNCHANGED fixture
  /\ UNCHANGED <<regVars, boxVars, endpoint, gateway, run, reader, effectVars>>

\* endpoints.plan, before the socket is bound.
PlanEndpoint ==
  /\ pc = "seeded"
  /\ IF Active /\ Launched /\ endpoint.state = "none"
     THEN endpoint' = [state |-> "PLANNED", live |-> TRUE, clean |-> FALSE] /\ pc' = "planned"
     ELSE pc' = "failed" /\ UNCHANGED endpoint
  /\ UNCHANGED <<regVars, boxVars, fixture, gateway, run, reader, effectVars>>

\* The listener, endpoints.bound and the admission check; a refusal runs __exit__.
BindEndpoint ==
  /\ pc = "planned"
  /\ IF Active /\ endpoint.state = "PLANNED" /\ endpoint.live
     THEN /\ endpoint' = [endpoint EXCEPT !.state = "BOUND"]
          /\ gateway' = "open" /\ pc' = "serving"
     ELSE gateway' = "closed" /\ pc' = "closing" /\ UNCHANGED endpoint
  /\ UNCHANGED <<regVars, boxVars, fixture, run, reader, effectVars>>

\* candidate_runs.prepare: exactly one sealed run per attempt.
PrepareRun ==
  /\ pc = "serving" /\ EndpointLive /\ ~run.bound
  /\ run' = [run EXCEPT !.bound = TRUE, !.live = TRUE]
  /\ UNCHANGED <<regVars, boxVars, fixture, endpoint, gateway, reader, effectVars, pc>>

\* candidate_runs.record_lease, inside the control plane's admit_lease.
RecordReaderLease ==
  /\ RunLive /\ reader = "none"
  /\ reader' = "held"
  /\ UNCHANGED <<regVars, boxVars, fixture, endpoint, gateway, run, effectVars, pc>>

\* The control plane releases the desktop lease; a receipt compares it with the finish.
ReleaseReader ==
  /\ reader = "held"
  /\ reader' = IF reg.state = "PASSED" THEN "releasedLate" ELSE "released"
  /\ UNCHANGED <<regVars, boxVars, fixture, endpoint, gateway, run, effectVars, pc>>

\* A GET through the gateway: the deployment is measured and the sample retained with
\* the run it was taken for, or with none.
ServeGet ==
  /\ gateway = "open" /\ transport = Idle
  /\ IF EndpointLive /\ RequestAllowed
     THEN /\ run' = [run EXCEPT !.preview = @ \/ ~run.bound]
          /\ UNCHANGED gateway
     ELSE gateway' = "closed" /\ UNCHANGED run
  /\ UNCHANGED <<regVars, boxVars, fixture, endpoint, reader, effectVars, pc>>

-----------------------------------------------------------------------------
(* One form effect.                                                        *)

\* The supervisor dispatches one reader action at a time.
DispatchAction(a) ==
  /\ act[a] = "none" /\ LeaseLive
  /\ \A b \in ReaderActions : act[b] # "dispatched"
  /\ act' = [act EXCEPT ![a] = "dispatched"]
  /\ UNCHANGED <<regVars, boxVars, siteVars, permit, transport, posts, pc>>

\* authorize_form: the permit of an action is granted once and never extended.
AuthorizeForm(a) ==
  /\ act[a] = "dispatched" /\ permit[a] = NoPermit /\ LeaseLive
  /\ permit' = [permit EXCEPT ![a] = [state |-> "open", live |-> TRUE, response |-> FALSE]]
  /\ UNCHANGED <<regVars, boxVars, siteVars, act, transport, posts, pc>>

\* candidate_effect_delivery._live
EffectLive(a) ==
  LeaseLive /\ act[a] = "dispatched" /\ permit[a].live

\* begin: exactly one open, unexpired permission without a result.
Eligible == {b \in ReaderActions :
               permit[b].state = "open" /\ permit[b].live /\ act[b] \notin {"known", "ambiguous"}}

\* begin: consumption is committed before the request may be sent; a refusal closes
\* the gateway, and the browser's POST is answered 502 or 403.
BeginEffect(a) ==
  /\ gateway = "open" /\ transport = Idle /\ run.bound
  /\ IF Eligible = {a} /\ EffectLive(a)
     THEN /\ permit' = [permit EXCEPT ![a].state = "consumed"]
          /\ transport' = [phase |-> "begun", on |-> a]
          /\ UNCHANGED gateway
     ELSE gateway' = "closed" /\ UNCHANGED <<permit, transport>>
  /\ UNCHANGED <<regVars, boxVars, fixture, endpoint, run, reader, act, posts, pc>>

\* check: the original committed permission, still live and without a response.
EffectChecked(a) ==
  EffectLive(a) /\ permit[a].state = "consumed" /\ ~permit[a].response

CheckEffect(a) ==
  /\ transport = [phase |-> "begun", on |-> a]
  /\ IF EffectChecked(a)
     THEN transport' = [phase |-> "checked", on |-> a] /\ UNCHANGED gateway
     ELSE transport' = Idle /\ gateway' = "closed"
  /\ UNCHANGED <<regVars, boxVars, fixture, endpoint, run, reader, act, permit, posts, pc>>

\* The HTTP request to the candidate; its answer may be lost.
SendPost(a) ==
  /\ transport = [phase |-> "checked", on |-> a]
  /\ posts' = [posts EXCEPT ![a] = @ + 1]
  /\ \/ transport' = [phase |-> "sent", on |-> a] /\ UNCHANGED gateway
     \/ transport' = Idle /\ gateway' = "closed"
  /\ UNCHANGED <<regVars, boxVars, fixture, endpoint, run, reader, act, permit, pc>>

\* retain_response, after a second measurement and check.
RetainResponse(a) ==
  /\ transport = [phase |-> "sent", on |-> a]
  /\ transport' = Idle
  /\ IF EffectChecked(a)
     THEN permit' = [permit EXCEPT ![a].response = TRUE] /\ UNCHANGED gateway
     ELSE gateway' = "closed" /\ UNCHANGED permit
  /\ UNCHANGED <<regVars, boxVars, fixture, endpoint, run, reader, act, posts, pc>>

\* assert_action_result: no known result hides a request that was or may be sent.
ResultAllowed(a) ==
  /\ permit[a].state = "consumed" => permit[a].response
  /\ permit[a].state = "open" => ~permit[a].live

\* report_result by the live supervisor session, or an ambiguity any path may record.
ReportResult(a) ==
  /\ act[a] = "dispatched"
  /\ \/ reader = "held" /\ ResultAllowed(a) /\ act' = [act EXCEPT ![a] = "known"]
     \/ act' = [act EXCEPT ![a] = "ambiguous"]
  /\ UNCHANGED <<regVars, boxVars, siteVars, permit, transport, posts, pc>>

-----------------------------------------------------------------------------
(* Closing, the protected checks, cleanup and the receipt.                 *)

\* The session callback returns or raises; assert_reader_released decides how the
\* attempt may still end.  The endpoint row is open until the next step.
CallbackEnds ==
  /\ pc = "serving"
  /\ gateway' = "closed"
  /\ pc' = "closing"
  /\ unclean' = (reader = "held")
  /\ UNCHANGED <<regVars, proc, box, unsure, swept, fixture, endpoint, run, reader, effectVars>>

\* _close_resources: the serving thread ended.
HandlerJoined == transport = Idle

\* endpoints.closed: only an unfenced attempt with confirmed cleanup is CLOSED.
ClosedEndpoint(clean) ==
  [endpoint EXCEPT !.state = IF reg.state = "DISPATCHED" /\ @ # "UNKNOWN" /\ clean
                             THEN "CLOSED" ELSE "UNKNOWN",
                   !.clean = clean]

\* CandidateGateway.__exit__: the handler is joined, or cleanup is unconfirmed.
CloseEndpoint ==
  /\ pc = "closing"
  /\ \E clean \in BOOLEAN :
       /\ clean => HandlerJoined
       /\ endpoint' = ClosedEndpoint(clean)
       /\ unclean' = (unclean \/ ~clean)
       /\ pc' = IF clean /\ ~unclean /\ endpoint.state = "BOUND" /\ Active
                THEN "checking" ELSE "failed"
  /\ UNCHANGED <<regVars, proc, box, unsure, swept, fixture, gateway, run, reader, effectVars>>

\* The protected checks alone, when the claim asked for no endpoint.
SkipEndpoint ==
  /\ pc = "launching" /\ Launched /\ ~reg.session
  /\ pc' = "checking"
  /\ UNCHANGED <<regVars, boxVars, siteVars, effectVars>>

ChecksFail ==
  /\ pc = "checking"
  /\ pc' = "failed"
  /\ UNCHANGED <<regVars, boxVars, siteVars, effectVars>>

\* The finally block of ReferenceRegressions.run tries every owned container once.
\* A removal counts only for a confirmed creation with its CREATED row.
RemoveProcess(r) ==
  /\ pc \in {"ok", "failed"}
  /\ proc[r] \in {"PLANNED", "CREATED"} /\ r \notin swept
  /\ swept' = swept \cup {r}
  /\ \/ /\ box' = [box EXCEPT ![r] = IF @ = "none" THEN @ ELSE "removed"]
        /\ IF r \notin unsure /\ proc[r] = "CREATED"
           THEN proc' = [proc EXCEPT ![r] = "REMOVED"] /\ UNCHANGED unclean
           ELSE unclean' = TRUE /\ UNCHANGED proc
     \/ unclean' = TRUE /\ UNCHANGED <<box, proc>>
  /\ UNCHANGED <<regVars, unsure, siteVars, effectVars, pc>>

Swept == \A r \in ROLES : proc[r] \in {"PLANNED", "CREATED"} => r \in swept

\* fence_expired
FencedReg == [reg EXCEPT !.state = IF @ \in {"CLAIMED", "DISPATCHED"} /\ ~reg.leased
                                   THEN "UNKNOWN" ELSE @]

\* finish: the endpoint closed and every process removed.
Finishable ==
  /\ Active
  /\ reg.session => endpoint.state # "none"
  /\ endpoint.state # "none" => endpoint.state = "CLOSED" /\ endpoint.clean
  /\ \A r \in ROLES : proc[r] = "REMOVED"

FinishRegression ==
  /\ pc = "ok" /\ Swept
  /\ IF ~unclean /\ Finishable
     THEN reg' = [reg EXCEPT !.state = "PASSED"] /\ pc' = "stopped"
     ELSE pc' = "failed" /\ UNCHANGED reg
  /\ UNCHANGED <<authority, boxVars, siteVars, effectVars>>

\* fail(): FAILED only when the receipts agree that nothing is left.
CleanByRows ==
  /\ \A r \in ROLES : proc[r] \in {"none", "REMOVED"}
  /\ endpoint.state \in {"none", "CLOSED"}

FailRegression ==
  /\ pc = "failed" /\ Swept
  /\ reg' = IF RegOwned("DISPATCHED")
            THEN [reg EXCEPT !.state = IF ~unclean /\ CleanByRows THEN "FAILED" ELSE "UNKNOWN"]
            ELSE FencedReg
  /\ pc' = "stopped"
  /\ UNCHANGED <<authority, boxVars, siteVars, effectVars>>

\* The coordinator process dies: its sockets close, its containers stay.
CrashCoordinator ==
  /\ pc \notin {"idle", "stopped"}
  /\ pc' = "stopped"
  /\ gateway' = IF gateway = "none" THEN "none" ELSE "closed"
  /\ transport' = Idle
  /\ UNCHANGED <<regVars, boxVars, fixture, endpoint, run, reader, act, permit, posts>>

-----------------------------------------------------------------------------
(* What ends by itself.                                                    *)

AuthorityEnded ==
  /\ authority /\ authority' = FALSE
  /\ UNCHANGED <<reg, boxVars, siteVars, effectVars, pc>>

RegLeaseLapses ==
  /\ reg.leased /\ reg.state \in {"CLAIMED", "DISPATCHED"}
  /\ reg' = [reg EXCEPT !.leased = FALSE]
  /\ UNCHANGED <<authority, boxVars, siteVars, effectVars, pc>>

FenceRegression ==
  /\ FencedReg # reg /\ reg' = FencedReg
  /\ UNCHANGED <<authority, boxVars, siteVars, effectVars, pc>>

EndpointExpires ==
  /\ endpoint.live /\ endpoint.state \in {"PLANNED", "BOUND"}
  /\ endpoint' = [endpoint EXCEPT !.live = FALSE]
  /\ gateway' = IF gateway = "open" THEN "closed" ELSE gateway
  /\ UNCHANGED <<regVars, boxVars, fixture, run, reader, effectVars, pc>>

\* Cancelled, quarantined, terminal or expired.
RunEnds ==
  /\ run.live /\ run' = [run EXCEPT !.live = FALSE]
  /\ UNCHANGED <<regVars, boxVars, fixture, endpoint, gateway, reader, effectVars, pc>>

PermitExpires(a) ==
  /\ permit[a].live
  /\ permit' = [permit EXCEPT ![a].live = FALSE]
  /\ UNCHANGED <<regVars, boxVars, siteVars, act, transport, posts, pc>>

-----------------------------------------------------------------------------
CoordinatorStep ==
  \/ ClaimRegression \/ DispatchRegression
  \/ \E r \in ROLES : PlanProcess(r) \/ CreateProcess(r) \/ RecordCreated(r)
                       \/ CreateLands(r) \/ RemoveProcess(r)
  \/ ReserveFixture \/ ConfirmFixture \/ PlanEndpoint \/ BindEndpoint \/ PrepareRun
  \/ CallbackEnds \/ CloseEndpoint \/ SkipEndpoint \/ ChecksFail
  \/ FinishRegression \/ FailRegression \/ CrashCoordinator

ReaderStep ==
  \/ RecordReaderLease \/ ReleaseReader \/ ServeGet
  \/ \E a \in ReaderActions :
       \/ DispatchAction(a) \/ AuthorizeForm(a) \/ BeginEffect(a) \/ CheckEffect(a)
       \/ SendPost(a) \/ RetainResponse(a) \/ ReportResult(a) \/ PermitExpires(a)

SessionNext ==
  \/ CoordinatorStep \/ ReaderStep
  \/ AuthorityEnded \/ RegLeaseLapses \/ FenceRegression \/ EndpointExpires \/ RunEnds

SessionSpec == SessionInit /\ [][SessionNext]_sessionVars

-----------------------------------------------------------------------------
(* Properties.                                                             *)

\* A PASSED regression left nothing behind: every planned container was created,
\* observed and removed, and the reader's endpoint, if there was one, is closed.
PassedLeavesNothing ==
  reg.state = "PASSED" =>
    /\ \A r \in ROLES : proc[r] = "REMOVED" /\ box[r] = "removed"
    /\ gateway # "open"
    /\ reg.session => endpoint.state = "CLOSED" /\ endpoint.clean

\* FAILED is only said when no container of the attempt exists or can still appear;
\* everything less certain is UNKNOWN.
FailedLeavesNothing ==
  reg.state = "FAILED" => /\ \A r \in ROLES : box[r] # "present"
                          /\ \A r \in unsure : box[r] = "removed"

\* Docker is never ahead of the database: a container that exists has its intent row,
\* so a coordinator that dies leaves every container to be found by name.
ContainersAreIntended == \A r \in ROLES : box[r] = "present" => proc[r] # "none"

\* Whatever is lost, retried or timed out, a reader action submits the form at most
\* once, and only after its permission was durably used up.
AtMostOnePost ==
  \A a \in ReaderActions : posts[a] <= 1 /\ (posts[a] = 1 => permit[a].state = "consumed")

\* A known result never hides a submission: every POST the action caused was answered
\* and the answer is retained.
KnownResultIsComplete ==
  \A a \in ReaderActions : act[a] = "known" => (posts[a] = 0 \/ permit[a].response)

\* functional_regression_evidence.for_run: what a receipt for the bound run requires.
FunctionalReceipt ==
  /\ reg.state = "PASSED" /\ run.bound /\ ~run.preview
  /\ endpoint.state = "CLOSED" /\ endpoint.clean
  /\ fixture = "confirmed" /\ reader = "released"

\* A functional receipt is only issued for a session whose transport is quiet for good.
ReceiptIsQuiet == FunctionalReceipt => transport = Idle /\ gateway = "closed"

\* Nothing is submitted under an action whose outcome was already reported, and a
\* finished attempt is never reopened.
NoLateEffect ==
  [][/\ \A a \in ReaderActions : act[a] = "known" => posts'[a] = posts[a]
     /\ reg.state \in {"PASSED", "FAILED", "UNKNOWN"} => reg'.state = reg.state]_sessionVars

\* A candidate session, whichever call of it is lost, times out or finds its owner replaced,
\* ends without containers, without a second submission and without a late effect.
SessionIsTrustworthy ==
  /\ [](SessionTypeOK /\ PassedLeavesNothing /\ FailedLeavesNothing /\ ContainersAreIntended)
  /\ [](AtMostOnePost /\ KnownResultIsComplete /\ ReceiptIsQuiet)
  /\ NoLateEffect
=============================================================================
