--------------------------- MODULE ExecutionSeal ---------------------------
(***************************************************************************)
(* From a project's recorded inputs to the authority an execution acts     *)
(* under: builds, environments and frozen journey versions are sealed into *)
(* an immutable manifest; a member approves exactly that seal; an operator *)
(* consents to starting the screen reader for its run; and every dispatch, *)
(* action, model call and baseline build rechecks all of it.               *)
(*                                                                         *)
(* The recheck locks the seal row and holds it to the end of the caller's  *)
(* transaction, as does everything that revokes: a worker's Check and its  *)
(* Act are two steps, with the clock and unlocked writers in between.      *)
(* A run is built and dispatched while it waits, its one ticket opens one  *)
(* session, and only in that session are there startups, calls and intents.*)
(* Expiries nest: session and consent before approval before seal before   *)
(* environment.                                                            *)
(***************************************************************************)
EXTENDS Naturals, FiniteSets

CONSTANTS
  Staff, Envs, Builds, Journeys,
  Seals,       \* sealed manifests; a seal reserves its run's and its approval's id
  Workers,     \* transactions that act under a seal's authority
  Readers,     \* authenticated supervisor sessions that may start a reader
  None,        \* nobody, nothing
  MaxActs      \* bound on the acts of one kind, of those the code does not limit itself

ASSUME SealAssumption ==
  /\ None \notin Staff \cup Envs \cup Builds \cup Journeys \cup Seals \cup Readers
  /\ "none" \notin Journeys /\ "lapsed" \notin Readers /\ None # "lapsed"
  /\ MaxActs \in Nat \ {0}

VARIABLES
  standing,   \* workspace_membership: role and revoked_at
  inputs,     \* build_artifact, environment_manifest and journey_version rows
  seal,       \* sealed_manifest rows
  sealedRun,  \* the run a seal reserved: not requested, QUEUED or LEASED, RUNNING, or over
  session,    \* the supervisor session its dispatch ticket opened
  approval,   \* the RUN_EFFECTS approval a seal reserved
  consent,    \* reader_startup_consent of the seal's run
  worker,     \* the transactions in flight
  acted,      \* per seal: acts committed under its authority, by kind
  started     \* per seal: the sessions whose reader startup was let through

sealVars == <<standing, inputs, seal, sealedRun, session, approval, consent, worker, acted,
              started>>

ROLES == {"OWNER", "MAINTAINER", "VIEWER"}
RUN_APPROVE == {"OWNER", "MAINTAINER"}
PROJECT_CONFIGURE == {"OWNER", "MAINTAINER"}
INFRASTRUCTURE_OPERATE == {"OWNER"}

NoSeal == [kind |-> "none", env |-> None, build |-> None, journey |-> None, expired |-> FALSE]
Ungranted == [by |-> None, revoked |-> FALSE, expired |-> FALSE]
NoConsent == [by |-> None, revoked |-> FALSE, expired |-> FALSE, reader |-> None]
IdleWorker == [stage |-> "idle", seal |-> None, reader |-> None]

\* What is done under a seal's authority: a baseline build or fixture setup, the dispatch of the
\* run, the opening of its session, an action intent (the row that ends startups), and a model
\* call or the delivery of a retained intent.
Kinds == {"build", "dispatch", "open", "intent", "call"}

SealTypeOK ==
  /\ standing \in [Staff -> [role : ROLES, revoked : BOOLEAN]]
  /\ inputs \in [builds : [Builds -> {"none", "observed", "unobservable"}],
                 envs : [Envs -> {"none", "usable", "superseded", "expired"}],
                 journeys : [Journeys -> {"none", "first"} \cup Journeys]]
  /\ seal \in [Seals -> [kind : {"none", "fingerprint", "canonical"}, env : Envs \cup {None},
                         build : Builds \cup {None}, journey : Journeys \cup {None},
                         expired : BOOLEAN]]
  /\ sealedRun \in [Seals -> {"none", "waiting", "running", "over"}]
  /\ session \in [Seals -> Readers \cup {None, "lapsed"}]
  /\ approval \in [Seals -> [by : Staff \cup {None}, revoked : BOOLEAN, expired : BOOLEAN]]
  /\ consent \in [Seals -> [by : Staff \cup {None}, revoked : BOOLEAN, expired : BOOLEAN,
                            reader : Readers \cup {None}]]
  /\ worker \in [Workers -> [stage : {"idle", "startup"} \cup Kinds, seal : Seals \cup {None},
                             reader : Readers \cup {None}]]
  /\ acted \in [Seals -> [Kinds -> Nat]]
  /\ started \in [Seals -> SUBSET Readers]

SealInit ==
  /\ standing \in [Staff -> [role : ROLES, revoked : {FALSE}]]
  /\ \E u \in Staff : standing[u].role = "OWNER"
  /\ inputs = [builds |-> [b \in Builds |-> "none"], envs |-> [e \in Envs |-> "none"],
               journeys |-> [j \in Journeys |-> "none"]]
  /\ seal = [s \in Seals |-> NoSeal]
  /\ sealedRun = [s \in Seals |-> "none"]
  /\ session = [s \in Seals |-> None]
  /\ approval = [s \in Seals |-> Ungranted]
  /\ consent = [s \in Seals |-> NoConsent]
  /\ worker = [w \in Workers |-> IdleWorker]
  /\ acted = [s \in Seals |-> [k \in Kinds |-> 0]]
  /\ started = [s \in Seals |-> {}]

\* authorize: a live membership whose role holds the permission.
Permits(u, roles) == ~standing[u].revoked /\ standing[u].role \in roles
\* execution_approvals._actor: the role row, revoked or not.
HoldsRole(u, roles) == standing[u].role \in roles

\* change_membership, by an owner other than the one concerned.
ChangeStanding(u, new) ==
  /\ \E o \in Staff \ {u} : Permits(o, {"OWNER"})
  /\ new # standing[u] /\ (new.revoked => new.role = standing[u].role)
  /\ standing' = [standing EXCEPT ![u] = new]
  /\ UNCHANGED <<inputs, seal, sealedRun, session, approval, consent, worker, acted, started>>

-----------------------------------------------------------------------------
(* Inputs.                                                                 *)

Configured(u) == Permits(u, PROJECT_CONFIGURE)
Recorded ==
  /\ \E u \in Staff : Configured(u)
  /\ UNCHANGED <<standing, seal, sealedRun, session, approval, consent, worker, acted, started>>

\* register_build: snapshot and artifact together; the deployment may not prove what it serves.
RegisterBuild(b, identity) ==
  /\ Recorded /\ inputs.builds[b] = "none"
  /\ inputs' = [inputs EXCEPT !.builds[b] = identity]

\* An environment_manifest row, and the row that supersedes another.
NewEnvironment(e) == [inputs EXCEPT !.envs[e] = "usable"]

RegisterEnvironment(e) ==
  /\ Recorded /\ inputs.envs[e] = "none"
  /\ inputs' = NewEnvironment(e)
SupersedeEnvironment(old, e) ==
  /\ Recorded /\ inputs.envs[old] # "none" /\ inputs.envs[e] = "none"
  /\ inputs' = [NewEnvironment(e) EXCEPT !.envs[old] = "superseded"]

\* freeze_journey_version: any configurer's validated draft, of an earlier version or of none.
Freezable(supersedes) == supersedes # "first" => inputs.journeys[supersedes] # "none"

\* freeze_version: an immutable row, alone or naming the version it supersedes.
FreezeVersion(j, supersedes) ==
  /\ Recorded /\ inputs.journeys[j] = "none" /\ Freezable(supersedes)
  /\ inputs' = [inputs EXCEPT !.journeys[j] = supersedes]

GrantUsable(e) == inputs.envs[e] = "usable"

\* The seal_manifest request: a configurer names recorded inputs of the project.
Sealable(b) == inputs.builds[b] # "none" /\ \E u \in Staff : Configured(u)

\* seal_run: fingerprints need a usable environment, an execution identity also an observed
\* build of the project and its exact frozen journey.
SealManifest(s, kind, e, b, j) ==
  /\ Sealable(b) /\ seal[s] = NoSeal /\ GrantUsable(e)
  /\ kind = "canonical" => inputs.builds[b] = "observed" /\ inputs.journeys[j] # "none"
  /\ seal' = [seal EXCEPT ![s] = [kind |-> kind, env |-> e, build |-> b, journey |-> j,
                                  expired |-> FALSE]]
  /\ UNCHANGED <<standing, inputs, sealedRun, session, approval, consent, worker, acted, started>>

\* assert_execution_seal_current.
Current(s) == seal[s].kind = "canonical" /\ ~seal[s].expired /\ GrantUsable(seal[s].env)

-----------------------------------------------------------------------------
(* The clock: what expires later was granted for longer.                   *)

Granted(g) == g.by # None
Clock == UNCHANGED <<standing, sealedRun, worker, acted, started>>

\* open_session: a session lives no longer than its lease, the approval and the seal.
LapseSession(s) ==
  /\ session[s] \in Readers
  /\ session' = [session EXCEPT ![s] = "lapsed"]
  /\ Clock /\ UNCHANGED <<inputs, seal, approval, consent>>
ExpireConsent(s) ==
  /\ Granted(consent[s]) /\ ~consent[s].expired
  /\ consent' = [consent EXCEPT ![s].expired = TRUE]
  /\ Clock /\ UNCHANGED <<inputs, seal, session, approval>>
ExpireApproval(s) ==
  /\ Granted(approval[s]) /\ ~approval[s].expired
  /\ Granted(consent[s]) => consent[s].expired
  /\ session[s] \notin Readers
  /\ approval' = [approval EXCEPT ![s].expired = TRUE]
  /\ Clock /\ UNCHANGED <<inputs, seal, session, consent>>
ExpireSeal(s) ==
  /\ seal[s].kind = "canonical" /\ ~seal[s].expired
  /\ Granted(approval[s]) => approval[s].expired
  /\ seal' = [seal EXCEPT ![s].expired = TRUE]
  /\ Clock /\ UNCHANGED <<inputs, session, approval, consent>>
ExpireEnvironment(e) ==
  /\ GrantUsable(e)
  /\ \A s \in Seals : seal[s].env = e /\ seal[s].kind = "canonical" => seal[s].expired
  /\ inputs' = [inputs EXCEPT !.envs[e] = "expired"]
  /\ Clock /\ UNCHANGED <<seal, session, approval, consent>>

-----------------------------------------------------------------------------
(* Decisions about one seal.                                               *)

\* Mutant: the seal is read without FOR UPDATE.
NeverLocked(s) == FALSE

\* A transaction that passed assert_authorized holds the seal's row.
SealLocked(s) == \E w \in Workers : worker[w].seal = s

\* The approval and revocation requests, by a member who may approve runs.
MayApprove(u) == Permits(u, RUN_APPROVE)
MayRevoke(u, s) == Permits(u, RUN_APPROVE) /\ Granted(approval[s])

\* issue: the reserved id, once, for a seal that is still current.
Approve(s, u) ==
  /\ MayApprove(u) /\ ~SealLocked(s)
  /\ Current(s) /\ ~Granted(approval[s])
  /\ approval' = [approval EXCEPT ![s].by = u]
  /\ UNCHANGED <<standing, inputs, seal, sealedRun, session, consent, worker, acted, started>>

\* revoke: any approver, at any time, for good.
RevokeApproval(s, u) ==
  /\ MayRevoke(u, s) /\ ~SealLocked(s) /\ ~approval[s].revoked
  /\ approval' = [approval EXCEPT ![s].revoked = TRUE]
  /\ UNCHANGED <<standing, inputs, seal, sealedRun, session, consent, worker, acted, started>>

\* The admission of the run the seal reserved, and its end, which ends its session too.
RequestRun(s) ==
  /\ sealedRun[s] = "none" /\ Current(s)
  /\ sealedRun' = [sealedRun EXCEPT ![s] = "waiting"]
  /\ UNCHANGED <<standing, inputs, seal, session, approval, consent, worker, acted, started>>
Admitted(s) == sealedRun[s] \in {"waiting", "running"}
EndRun(s) ==
  /\ Admitted(s) /\ ~SealLocked(s)
  /\ sealedRun' = [sealedRun EXCEPT ![s] = "over"]
  /\ session' = [session EXCEPT ![s] = "lapsed"]
  /\ UNCHANGED <<standing, inputs, seal, approval, consent, worker, acted, started>>

\* assert_authorized: the seal, its exact approval, and the approver's role.
Authorized(s) ==
  /\ Admitted(s) /\ Current(s)
  /\ Granted(approval[s]) /\ ~approval[s].revoked /\ ~approval[s].expired
  /\ HoldsRole(approval[s].by, RUN_APPROVE)

\* What each act asks of the run and of its one ticket, whose acceptance opens the session.
InSession(s) == sealedRun[s] = "running" /\ session[s] \in Readers
Ready(s, k) ==
  \/ k \in {"build", "dispatch"} /\ sealedRun[s] = "waiting"
  \/ k = "open" /\ sealedRun[s] = "running" /\ session[s] = None
  \/ k \in {"call", "intent"} /\ InSession(s)

\* An act is checked and then committed; the worker is told which session it opens.
WithinBound(s, k) == k \in {"dispatch", "open"} \/ acted[s][k] < MaxActs
Check(w, s, k, x) ==
  /\ worker[w] = IdleWorker /\ ~SealLocked(s) /\ Authorized(s)
  /\ Ready(s, k) /\ WithinBound(s, k)
  /\ x \in IF k = "open" THEN Readers ELSE {None}
  /\ worker' = [worker EXCEPT ![w] = [stage |-> k, seal |-> s, reader |-> x]]
  /\ UNCHANGED <<standing, inputs, seal, sealedRun, session, approval, consent, acted, started>>
Act(w) ==
  LET s == worker[w].seal  k == worker[w].stage IN
  /\ k \in Kinds /\ WithinBound(s, k)
  /\ acted' = [acted EXCEPT ![s][k] = @ + 1]
  /\ sealedRun' = [sealedRun EXCEPT ![s] = IF k = "dispatch" THEN "running" ELSE @]
  /\ session' = [session EXCEPT ![s] = IF k = "open" THEN worker[w].reader ELSE @]
  /\ worker' = [worker EXCEPT ![w] = IdleWorker]
  /\ UNCHANGED <<standing, inputs, seal, approval, consent, started>>
\* A later guard refuses, or the connection is lost: nothing was written.
RollBack(w) ==
  /\ worker[w] # IdleWorker
  /\ worker' = [worker EXCEPT ![w] = IdleWorker]
  /\ UNCHANGED <<standing, inputs, seal, sealedRun, session, approval, consent, acted, started>>

-----------------------------------------------------------------------------
(* Consent to the reader's startup.                                        *)

\* The consent and withdrawal requests, by an operator of the infrastructure.
MayConsent(u) == Permits(u, INFRASTRUCTURE_OPERATE)
MayWithdraw(u, s) == Permits(u, INFRASTRUCTURE_OPERATE) /\ Granted(consent[s])

\* issue: after the approval, before the first action intent, once per run.
IssueConsent(s, u) ==
  /\ MayConsent(u) /\ ~SealLocked(s)
  /\ Authorized(s) /\ acted[s]["intent"] = 0 /\ ~Granted(consent[s])
  /\ consent' = [consent EXCEPT ![s].by = u]
  /\ UNCHANGED <<standing, inputs, seal, sealedRun, session, approval, worker, acted, started>>

ConsentLocked(s) == \E w \in Workers : worker[w].stage = "startup" /\ worker[w].seal = s

RevokeConsent(s, u) ==
  /\ MayWithdraw(u, s) /\ ~ConsentLocked(s) /\ ~consent[s].revoked
  /\ consent' = [consent EXCEPT ![s].revoked = TRUE]
  /\ UNCHANGED <<standing, inputs, seal, sealedRun, session, approval, worker, acted, started>>

ConsentFits(s, x) == consent[s].reader \in {None, x}

\* bind_and_check, in the run's live session before its first action intent; it binds the consent.
CheckStartup(w, s, x) ==
  /\ worker[w] = IdleWorker /\ ~SealLocked(s) /\ Authorized(s)
  /\ InSession(s) /\ session[s] = x /\ acted[s]["intent"] = 0
  /\ Granted(consent[s]) /\ ~consent[s].revoked /\ ~consent[s].expired
  /\ HoldsRole(consent[s].by, INFRASTRUCTURE_OPERATE) /\ ConsentFits(s, x)
  /\ worker' = [worker EXCEPT ![w] = [stage |-> "startup", seal |-> s, reader |-> x]]
  /\ UNCHANGED <<standing, inputs, seal, sealedRun, session, approval, consent, acted, started>>
Start(w) ==
  LET s == worker[w].seal  x == worker[w].reader IN
  /\ worker[w].stage = "startup"
  /\ consent' = [consent EXCEPT ![s].reader = x]
  /\ started' = [started EXCEPT ![s] = @ \cup {x}]
  /\ worker' = [worker EXCEPT ![w] = IdleWorker]
  /\ UNCHANGED <<standing, inputs, seal, sealedRun, session, approval, acted>>

-----------------------------------------------------------------------------
InputStep ==
  \/ \E b \in Builds, i \in {"observed", "unobservable"} : RegisterBuild(b, i)
  \/ \E e \in Envs : RegisterEnvironment(e) \/ ExpireEnvironment(e)
                       \/ \E old \in Envs : SupersedeEnvironment(old, e)
  \/ \E j \in Journeys, p \in Journeys \cup {"first"} : FreezeVersion(j, p)
  \/ \E u \in Staff, new \in [role : ROLES, revoked : BOOLEAN] : ChangeStanding(u, new)

SealStep(s) ==
  \/ \E k \in {"fingerprint", "canonical"}, e \in Envs, b \in Builds, j \in Journeys :
       SealManifest(s, k, e, b, j)
  \/ LapseSession(s) \/ ExpireConsent(s) \/ ExpireApproval(s) \/ ExpireSeal(s)
  \/ RequestRun(s) \/ EndRun(s)
  \/ \E u \in Staff : Approve(s, u) \/ RevokeApproval(s, u)
                        \/ IssueConsent(s, u) \/ RevokeConsent(s, u)

WorkerStep(w) ==
  \/ \E s \in Seals :
       \/ \E k \in Kinds, x \in Readers \cup {None} : Check(w, s, k, x)
       \/ \E x \in Readers : CheckStartup(w, s, x)
  \/ Act(w) \/ Start(w) \/ RollBack(w)

SealNext == InputStep \/ (\E s \in Seals : SealStep(s)) \/ (\E w \in Workers : WorkerStep(w))

SealSpec == SealInit /\ [][SealNext]_sealVars

-----------------------------------------------------------------------------
(* Properties.                                                             *)

\* A revocation that was answered is final: no act commits under a revoked approval, no
\* reader startup under a revoked approval or consent, although workers may have checked
\* before the revocation and "a new authorization needs a new seal".
RevocationIsFinal ==
  [][\A s \in Seals :
       /\ approval[s].revoked => acted'[s] = acted[s] /\ approval'[s].revoked
       /\ approval[s].revoked \/ consent[s].revoked => started'[s] = started[s]]_sealVars

\* One consent starts the reader of one authenticated session, whatever retries, second
\* receivers of the ticket and parallel startups of the same run there are.
OneReaderPerConsent == \A s \in Seals : Cardinality(started[s]) <= 1

\* A reader is started before the run acts on its desktop or not at all: "after the first intent,
\* even a resolved one, this is no longer a startup path", although a startup that was checked
\* may commit while an intent is being admitted.
StartupPrecedesActions ==
  [][\A s \in Seals : acted[s]["intent"] > 0 => started'[s] = started[s]]_sealVars

\* A sealed run is dispatched once and its ticket opens one session, however many controllers and
\* receivers try; calls, intents and startups come after both.
OneAttempt ==
  \A s \in Seals :
    /\ acted[s]["open"] <= acted[s]["dispatch"] /\ acted[s]["dispatch"] <= 1
    /\ acted[s]["call"] + acted[s]["intent"] > 0 \/ started[s] # {} => acted[s]["open"] = 1

\* What a commit rests on: whoever acted did so on an observed build, a frozen journey and
\* an approval of that very seal; fingerprints authorize nothing.
ActsRestOnSealedInputs ==
  \A s \in Seals :
    (\E k \in Kinds : acted[s][k] > 0) \/ started[s] # {} =>
      /\ seal[s].kind = "canonical" /\ inputs.builds[seal[s].build] = "observed"
      /\ inputs.journeys[seal[s].journey] # "none"
      /\ Granted(approval[s]) /\ sealedRun[s] # "none"

\* Execution rests on what was sealed and consented to, once per consent, and on nothing that
\* was revoked before the commit.
SealGoverns ==
  /\ [](SealTypeOK /\ OneReaderPerConsent /\ OneAttempt /\ ActsRestOnSealedInputs)
  /\ RevocationIsFinal /\ StartupPrecedesActions
=============================================================================
