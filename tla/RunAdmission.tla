---------------------------- MODULE RunAdmission ----------------------------
(***************************************************************************)
(* Admission of a run by POST /runs: the idempotency record of the         *)
(* request, the exact seal it names, the queue bound and the allowance of  *)
(* the workspace, all in one PostgreSQL transaction under READ COMMITTED   *)
(* (routes/runs.py, dependencies.py, idempotency.py, budgets.py).          *)
(*                                                                         *)
(* Every statement that takes a lock is a step of its own: the unique      *)
(* index entry of the operation, the row of the sealed manifest, and the   *)
(* advisory lock of the workspace's budget are all held to the end of the  *)
(* transaction; uncommitted rows are invisible to the other requests, and  *)
(* a transaction may end in a rollback after any statement.                *)
(***************************************************************************)
EXTENDS Naturals, FiniteSets

CONSTANTS Requests,      \* HTTP requests: [id, principal, key, manifest]
          Canonical,     \* the sealed manifests that reserve a run identity
          NoKey,         \* a request without an Idempotency-Key header
          MaxQueued,     \* MAX_QUEUED_RUNS_PER_WORKSPACE
          Limits,        \* the entitlements an administrator may configure
          MaxEntitlementRevision,   \* bound on entitlement revisions
          CandidateRuns  \* runs created for a candidate (candidate_runs.prepare)

\* Run ids are fresh: no two requests, no sealed manifest and no candidate share one.
ASSUME AdmissionAssumption ==
  /\ \A r, q \in Requests : r.id = q.id => r = q
  /\ \A r \in Requests : r.id \notin Canonical
  /\ \A c \in CandidateRuns : c \notin Canonical /\ \A r \in Requests : c # r.id
  /\ Limits \subseteq [concurrent : Nat, daily : Nat] /\ MaxEntitlementRevision \in Nat

VARIABLES
  tx,          \* where each request's transaction is
  operation,   \* operation rows: identity |-> [body, run]
  admitted,    \* run rows: [run, status, charge]; charge is its usage event's key
  usage,       \* usage_event keys still inside the rolling window
  counted,     \* usage_event keys ever recorded (event_key is unique for ever)
  entitlement, \* the current workspace_entitlement row
  current      \* sealed manifests whose inputs are still the sealed ones

admissionVars == <<tx, operation, admitted, usage, counted, entitlement, current>>

Manifests == {r.manifest : r \in Requests}

InFlight == {"QUEUED", "LEASED"}

\* operation's unique index: (workspace, principal, route, idempotency key).
Identity(r) == <<r.principal, r.key>>

Identities == {Identity(r) : r \in {q \in Requests : q.key # NoKey}}

\* The run id is the one the canonical manifest reserved, or a fresh one.
RunOf(r) == IF r.manifest \in Canonical THEN r.manifest ELSE r.id

\* The usage event's key names the route and the key, in the scope of the workspace.
EventKey(r) == IF r.key = NoKey THEN <<"anonymous", r.id>> ELSE <<"key", r.key>>

Runs == {a.run : a \in admitted}
InProgress == {a \in admitted : a.status \in InFlight}

InTx(r) == tx[r] \notin {"idle", "done", "refused", "replayed"}

HoldsBudget(r) == tx[r] \in {"charged", "free"}

AdmissionTypeOK ==
  /\ tx \in [Requests -> {"idle", "reserved", "sealed", "queued", "charged", "free",
                          "done", "refused", "replayed"}]
  /\ DOMAIN operation \subseteq Identities
  /\ \A a \in admitted : a.status \in InFlight \cup {"ended"}
  /\ usage \subseteq counted
  /\ entitlement \in [revision : 0 .. MaxEntitlementRevision, limits : Limits]
  /\ current \subseteq Manifests

AdmissionInit ==
  /\ tx = [r \in Requests |-> "idle"]
  /\ operation = <<>>
  /\ admitted = {}
  /\ usage = {} /\ counted = {}
  /\ entitlement \in [revision : {0}, limits : Limits]
  /\ current = Manifests

-----------------------------------------------------------------------------
(* The request's transaction.                                              *)

\* The insert waits while another transaction holds the same index entry.
IdentityFree(r) == \A q \in Requests \ {r} : InTx(q) /\ q.key # NoKey => Identity(q) # Identity(r)

\* reserve: a new identity is this request's to perform.
Reserve(r) ==
  /\ tx[r] = "idle"
  /\ IF r.key = NoKey THEN TRUE
     ELSE IdentityFree(r) /\ Identity(r) \notin DOMAIN operation
  /\ tx' = [tx EXCEPT ![r] = "reserved"]
  /\ UNCHANGED <<operation, admitted, usage, counted, entitlement, current>>

\* reserve: the identity exists; the same body replays, another one is a conflict.
ReplayAnswer(r) ==
  /\ tx[r] = "idle" /\ r.key # NoKey
  /\ IdentityFree(r) /\ Identity(r) \in DOMAIN operation
  /\ tx' = [tx EXCEPT ![r] =
              IF operation[Identity(r)].body = r.manifest THEN "replayed" ELSE "refused"]
  /\ UNCHANGED <<operation, admitted, usage, counted, entitlement, current>>

\* The manifest is sealed; a canonical one is locked, must be current and unused.
SealUsable(r) ==
  r.manifest \in Canonical =>
    /\ \A q \in Requests \ {r} :
         tx[q] \in {"sealed", "queued", "charged", "free"} => q.manifest # r.manifest
    /\ r.manifest \in current
    /\ RunOf(r) \notin Runs

LockSeal(r) ==
  /\ tx[r] = "reserved"
  /\ SealUsable(r)
  /\ tx' = [tx EXCEPT ![r] = "sealed"]
  /\ UNCHANGED <<operation, admitted, usage, counted, entitlement, current>>

\* assert_queue_capacity reads the committed queue and takes no lock.
CheckQueue(r) ==
  /\ tx[r] = "sealed"
  /\ Cardinality({a \in admitted : a.status = "QUEUED"}) < MaxQueued
  /\ tx' = [tx EXCEPT ![r] = "queued"]
  /\ UNCHANGED <<operation, admitted, usage, counted, entitlement, current>>

\* concurrent_runs and usage_since against the entitlement just locked.
RoomFor == /\ Cardinality(InProgress) + 1 <= entitlement.limits.concurrent
           /\ Cardinality(usage) + 1 <= entitlement.limits.daily

\* A mutant: two admissions may both read the total before either is counted.
AdmitUnlocked(r) ==
  /\ tx[r] = "queued"
  /\ tx' = [tx EXCEPT ![r] = IF EventKey(r) \in counted THEN "free" ELSE "charged"]
  /\ EventKey(r) \in counted \/ RoomFor
  /\ UNCHANGED <<operation, admitted, usage, counted, entitlement, current>>

\* admit_within_budget: a known event key is a redelivery; otherwise there must be room.
AdmitWithinBudget(r) ==
  /\ tx[r] = "queued"
  /\ \A q \in Requests : ~HoldsBudget(q)
  /\ tx' = [tx EXCEPT ![r] = IF EventKey(r) \in counted THEN "free" ELSE "charged"]
  /\ EventKey(r) \in counted \/ RoomFor
  /\ UNCHANGED <<operation, admitted, usage, counted, entitlement, current>>

\* record_usage: one event per key, however many runs it is charged for.
RecordUsage(r) == IF tx[r] = "charged" THEN usage \cup {EventKey(r)} ELSE usage

\* create_run, complete and the commit that makes run, charge and result visible at once.
CommitAdmission(r) ==
  /\ HoldsBudget(r)
  /\ tx' = [tx EXCEPT ![r] = "done"]
  /\ admitted' = admitted \cup {[run |-> RunOf(r), status |-> "QUEUED",
                                 charge |-> EventKey(r), by |-> r]}
  /\ operation' = [i \in DOMAIN operation \cup ({Identity(r)} \cap Identities) |->
                     IF i = Identity(r) THEN [body |-> r.manifest, run |-> RunOf(r)]
                                        ELSE operation[i]]
  /\ counted' = counted \cup {EventKey(r)}
  /\ usage' = RecordUsage(r)
  /\ UNCHANGED <<entitlement, current>>

\* A refusal, a lost connection or a crash: the reservation goes with the rest.
RollbackAdmission(r) ==
  /\ InTx(r)
  /\ tx' = [tx EXCEPT ![r] = "refused"]
  /\ UNCHANGED <<operation, admitted, usage, counted, entitlement, current>>

\* The client never saw the answer, or was refused, and sends the same request again.
Resend(r) ==
  /\ tx[r] = "refused" \/ (tx[r] = "done" /\ r.key # NoKey)
  /\ tx' = [tx EXCEPT ![r] = "idle"]
  /\ UNCHANGED <<operation, admitted, usage, counted, entitlement, current>>

-----------------------------------------------------------------------------
(* What moves around the request.                                          *)

\* configure_entitlement appends a revision under the same advisory lock.
ConfigureEntitlement(limits) ==
  /\ \A q \in Requests : ~HoldsBudget(q)
  /\ entitlement.revision < MaxEntitlementRevision
  /\ entitlement' = [revision |-> entitlement.revision + 1, limits |-> limits]
  /\ UNCHANGED <<tx, operation, admitted, usage, counted, current>>

\* A run is leased, or ends (its own life is the control plane's).
RunMoves ==
  \E a \in InProgress, s \in {"LEASED", "ended"} :
    /\ a.status # s
    /\ admitted' = (admitted \ {a}) \cup {[a EXCEPT !.status = s]}
    /\ UNCHANGED <<tx, operation, usage, counted, entitlement, current>>

\* A day passes for one usage event.
WindowPasses ==
  \E u \in usage :
    /\ usage' = usage \ {u}
    /\ UNCHANGED <<tx, operation, admitted, counted, entitlement, current>>

\* An input of a sealed manifest is superseded.
SealGoesStale ==
  \E s \in current :
    /\ current' = current \ {s}
    /\ UNCHANGED <<tx, operation, admitted, usage, counted, entitlement>>

\* candidate_runs.prepare_run creates its run without passing through admission.
CreateCandidateRun ==
  \E c \in CandidateRuns \ Runs :
    /\ admitted' = admitted \cup {[run |-> c, status |-> "QUEUED", charge |-> <<"candidate", c>>,
                                   by |-> [id |-> c, principal |-> c, key |-> NoKey,
                                           manifest |-> c]]}
    /\ UNCHANGED <<tx, operation, usage, counted, entitlement, current>>

AdmissionNext ==
  \/ \E r \in Requests :
       \/ Reserve(r) \/ ReplayAnswer(r) \/ LockSeal(r) \/ CheckQueue(r) \/ AdmitWithinBudget(r)
       \/ CommitAdmission(r) \/ RollbackAdmission(r) \/ Resend(r)
  \/ \E limits \in Limits : ConfigureEntitlement(limits)
  \/ RunMoves \/ WindowPasses \/ SealGoesStale \/ CreateCandidateRun

AdmissionSpec == AdmissionInit /\ [][AdmissionNext]_admissionVars

-----------------------------------------------------------------------------

Requested == {a \in admitted : a.run \notin CandidateRuns}

\* However often a principal resends one key, and whatever body it carries, one run exists
\* for it (run_idempotently: "Acting on a replay is how a retry turns into a duplicate effect").
OneRunPerKey ==
  \A a, b \in Requested : a.by.key # NoKey /\ Identity(a.by) = Identity(b.by) => a.run = b.run

\* Two requests under different keys never both consume one canonical manifest.
OneRunPerSeal == \A a, b \in admitted : a.run = b.run => a = b

\* Each admitted run has a usage event, and one principal's runs never share one.  The
\* event's key names the workspace and the request's key, not the principal: a second
\* principal that happens to choose the same key is admitted on the first one's charge.
EveryRunIsCharged ==
  /\ \A a \in Requested : a.charge \in counted
  /\ \A a, b \in Requested :
       a.charge = b.charge => a = b \/ a.by.principal # b.by.principal

\* At the moment a request is charged, the workspace is within the entitlement then in
\* force, for the daily window and for the runs in progress that were requested.
AdmittedWithinEntitlement ==
  [][\A r \in Requests : tx[r] = "charged" /\ tx'[r] = "done" =>
       /\ Cardinality(usage') <= entitlement'.limits.daily
       /\ Cardinality({a \in Requested' : a.status \in InFlight})
            <= entitlement'.limits.concurrent]_admissionVars

\* A replayed answer names a run that exists and was created for the same body.
ReplayNamesItsRun ==
  \A r \in Requests : tx[r] = "replayed" =>
    \E a \in admitted : a.run = operation[Identity(r)].run /\ a.by.manifest = r.manifest

\* However requests are resent, raced and interrupted, each key and each seal has one run,
\* no principal's run rides on its own earlier charge, and no charged admission exceeds the
\* entitlement.
AdmissionIsExact ==
  /\ [](AdmissionTypeOK /\ OneRunPerKey /\ OneRunPerSeal /\ EveryRunIsCharged /\ ReplayNamesItsRun)
  /\ AdmittedWithinEntitlement
=============================================================================
