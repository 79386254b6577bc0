---------------------------- MODULE ModelDelivery ----------------------------
(***************************************************************************)
(* Billable model calls made under a person's recorded consent: diagnosis  *)
(* and repair requests on one finding (diagnosis_requests.py,              *)
(* repair_requests.py), the durable reservation of each call               *)
(* (diagnosis_invocations.py, budgets.py) and its delivery by an operator  *)
(* process (diagnosis/delivery.py, repair/delivery.py).                    *)
(*                                                                         *)
(* A delivery is two transactions around a provider call that holds no     *)
(* lock: the first rechecks the consent and commits STARTED, the second    *)
(* rechecks everything again and settles the result with the invocation.   *)
(* The process may die anywhere; an answer may be lost after its commit.   *)
(***************************************************************************)
EXTENDS Naturals, FiniteSets

CONSTANTS Repairs, Diagnoses,  \* requests people may make
          Operators,           \* delivery processes
          TokenLimit,          \* max_model_tokens_per_day, in reservations
          MaxSurfaceRevision           \* bound on reconfigurations of the repair surface

ASSUME DeliveryAssumption ==
  /\ "none" \notin Repairs \cup Diagnoses
  /\ TokenLimit \in Nat /\ MaxSurfaceRevision \in Nat

VARIABLES
  req,        \* request rows: consent, scope and predecessor
  inv,        \* diagnosis_invocation.status of each request
  result,     \* what was retained for each request
  head,       \* the diagnosis no other supersedes
  repairSurface,    \* project_repair_surface.revision
  aged,       \* recorded calls that left the rolling window
  operator,       \* the operator processes
  calls       \* provider calls actually made for each request

deliveryVars == <<req, inv, result, head, repairSurface, aged, operator, calls>>

Requests == Repairs \cup Diagnoses

Heads == {"first"} \cup Diagnoses

UnaskedRequest == [state |-> "none", lapsed |-> FALSE, on |-> "first", surface |-> 0, parent |-> "none"]

NoProc == [pc |-> "idle", req |-> "none", called |-> FALSE]

DeliveryTypeOK ==
  /\ req \in [Requests -> [state : {"none", "live", "revoked"}, lapsed : BOOLEAN, on : Heads,
                           surface : 0 .. MaxSurfaceRevision, parent : Repairs \cup {"none"}]]
  /\ inv \in [Requests -> {"none", "STARTED", "RECORDED", "UNCONFIRMED", "NOT_CALLED"}]
  /\ result \in [Requests -> {"none", "PROPOSED", "NO_PROPOSAL", "DIAGNOSED"}]
  /\ head \in Heads
  /\ repairSurface \in 0 .. MaxSurfaceRevision
  /\ aged \subseteq Requests
  /\ operator \in [Operators -> [pc : {"idle", "authorized", "reserved", "calling", "answered",
                                   "rechecked", "failing"},
                             req : Requests \cup {"none"}, called : BOOLEAN]]
  /\ calls \in [Requests -> Nat]

DeliveryInit ==
  /\ req = [r \in Requests |-> UnaskedRequest]
  /\ inv = [r \in Requests |-> "none"]
  /\ result = [r \in Requests |-> "none"]
  /\ head = "first"
  /\ repairSurface = 0
  /\ aged = {}
  /\ operator = [d \in Operators |-> NoProc]
  /\ calls = [r \in Requests |-> 0]

-----------------------------------------------------------------------------
(* Row locks held by an open delivery transaction.                         *)

Open(d) == operator[d].pc \in {"authorized", "rechecked"}

\* Repairs hold the finding, run and surface rows shared; every delivery its request row.
OpenRepair == \E d \in Operators : Open(d) /\ operator[d].req \in Repairs
RequestRowShared(r) == \E d \in Operators : Open(d) /\ operator[d].req = r

\* The settlement of a diagnosis holds the run row exclusively.
RunExclusive == \E d \in Operators : operator[d].pc = "rechecked" /\ operator[d].req \in Diagnoses

-----------------------------------------------------------------------------
(* People.                                                                 *)

Superseded(r) == \E c \in Repairs : req[c].parent = r

\* The latest repair request of the finding, or none.
Latest(r) == req[r].state # "none" /\ ~Superseded(r)

\* create: the parent's call is settled, or never started and no longer authorized.
ParentSettled(p) ==
  /\ inv[p] \notin {"STARTED", "UNCONFIRMED"}
  /\ ~(inv[p] = "none" /\ req[p].state = "live" /\ ~req[p].lapsed)

CreateRepair(r) ==
  /\ req[r].state = "none"
  /\ ~OpenRepair /\ ~RunExclusive
  /\ \E p \in Repairs \cup {"none"} :
       /\ IF p = "none" THEN \A q \in Repairs : req[q].state = "none"
          ELSE Latest(p) /\ ParentSettled(p)
       /\ req' = [req EXCEPT ![r] = [state |-> "live", lapsed |-> FALSE, on |-> head,
                                     surface |-> repairSurface, parent |-> p]]
  /\ UNCHANGED <<inv, result, head, repairSurface, aged, operator, calls>>

\* create and _predecessor: a follow-up names the diagnosis that is current.
CreateDiagnosis(r) ==
  /\ req[r].state = "none" /\ ~RunExclusive
  /\ req' = [req EXCEPT ![r] = [UnaskedRequest EXCEPT !.state = "live", !.on = head]]
  /\ UNCHANGED <<inv, result, head, repairSurface, aged, operator, calls>>

Revoke(r) ==
  /\ req[r].state = "live" /\ ~RequestRowShared(r)
  /\ req' = [req EXCEPT ![r].state = "revoked"]
  /\ UNCHANGED <<inv, result, head, repairSurface, aged, operator, calls>>

Lapse(r) ==
  /\ req[r].state # "none" /\ ~req[r].lapsed
  /\ req' = [req EXCEPT ![r].lapsed = TRUE]
  /\ UNCHANGED <<inv, result, head, repairSurface, aged, operator, calls>>

ConfigureSurface ==
  /\ repairSurface < MaxSurfaceRevision /\ ~OpenRepair
  /\ repairSurface' = repairSurface + 1
  /\ UNCHANGED <<req, inv, result, head, aged, operator, calls>>

-----------------------------------------------------------------------------
(* The delivery.                                                           *)

\* require_active: unrevoked, unexpired, not superseded, and its scope is the current one.
RequireActive(r) ==
  /\ req[r].state = "live" /\ ~req[r].lapsed
  /\ req[r].on = head
  /\ r \in Repairs => ~Superseded(r) /\ req[r].surface = repairSurface

\* inspect and reserve: no delivery and no invocation exists.
NotStarted(r) == inv[r] = "none"

\* The first transaction rechecks the consent and keeps the rows it read locked.
Authorize(d, r) ==
  /\ operator[d].pc = "idle" /\ ~RunExclusive
  /\ result[r] = "none" /\ NotStarted(r) /\ RequireActive(r)
  /\ operator' = [operator EXCEPT ![d] = [pc |-> "authorized", req |-> r, called |-> FALSE]]
  /\ UNCHANGED <<req, inv, result, head, repairSurface, aged, calls>>

\* usage_since: reservations still held against the day's allowance.
Held == {r \in Requests : inv[r] \in {"STARTED", "UNCONFIRMED"} \/
                          (inv[r] = "RECORDED" /\ r \notin aged)}

\* reserve, under the budget lock, and the commit of STARTED.
Reserve(d) ==
  /\ operator[d].pc = "authorized"
  /\ LET r == operator[d].req IN
       /\ NotStarted(r)
       /\ Cardinality(Held) + 1 <= TokenLimit
       /\ inv' = [inv EXCEPT ![r] = "STARTED"]
  /\ operator' = [operator EXCEPT ![d].pc = "reserved"]
  /\ UNCHANGED <<req, result, head, repairSurface, aged, calls>>

\* A refusal before STARTED: nothing was reserved and nothing is called.
RefuseStart(d) ==
  /\ operator[d].pc = "authorized"
  /\ operator' = [operator EXCEPT ![d] = NoProc]
  /\ UNCHANGED <<req, inv, result, head, repairSurface, aged, calls>>

\* on_provider_invoke marks the call before it is made.
CallProvider(d) ==
  /\ operator[d].pc = "reserved"
  /\ operator' = [operator EXCEPT ![d].pc = "calling", ![d].called = TRUE]
  /\ calls' = [calls EXCEPT ![operator[d].req] = @ + 1]
  /\ UNCHANGED <<req, inv, result, head, repairSurface, aged>>

\* The provider answered, or the worker found it unavailable without calling.
Answer(d) ==
  /\ operator[d].pc \in {"reserved", "calling"}
  /\ operator' = [operator EXCEPT ![d].pc = "answered"]
  /\ UNCHANGED <<req, inv, result, head, repairSurface, aged, calls>>

\* A mutant: the answer is settled under the consent as it was before the call.
RecheckNothing(d) ==
  /\ operator[d].pc = "answered"
  /\ ~RunExclusive
  /\ operator' = [operator EXCEPT ![d].pc = "rechecked"]
  /\ UNCHANGED <<req, inv, result, head, repairSurface, aged, calls>>

\* The second transaction: everything is rechecked, under locks, after the call.
Recheck(d) ==
  /\ operator[d].pc = "answered"
  /\ ~RunExclusive
  /\ operator[d].req \in Diagnoses => \A o \in Operators : ~Open(o)
  /\ RequireActive(operator[d].req)
  /\ operator' = [operator EXCEPT ![d].pc = "rechecked"]
  /\ UNCHANGED <<req, inv, result, head, repairSurface, aged, calls>>

Disposition(called) == IF called THEN "RECORDED" ELSE "NOT_CALLED"

\* The result and the invocation commit together; the acknowledgement may be lost.
Settle(d) ==
  /\ operator[d].pc = "rechecked"
  /\ LET r == operator[d].req IN
       /\ \E out \in IF r \in Diagnoses THEN {"DIAGNOSED"}
                     ELSE IF operator[d].called THEN {"PROPOSED", "NO_PROPOSAL"} ELSE {"NO_PROPOSAL"} :
            result' = [result EXCEPT ![r] = out]
       /\ head' = IF r \in Diagnoses THEN r ELSE head
       /\ inv' = [inv EXCEPT ![r] = Disposition(operator[d].called)]
  /\ operator' \in {[operator EXCEPT ![d] = NoProc], [operator EXCEPT ![d].pc = "failing"]}
  /\ UNCHANGED <<req, repairSurface, aged, calls>>

\* Cancellation, a provider error or a refused recheck.
Fail(d) ==
  /\ operator[d].pc \in {"reserved", "calling", "answered", "rechecked"}
  /\ operator' = [operator EXCEPT ![d].pc = "failing"]
  /\ UNCHANGED <<req, inv, result, head, repairSurface, aged, calls>>

\* finish after a failure changes only an invocation that is still STARTED.
FinishFailed(d) ==
  /\ operator[d].pc = "failing"
  /\ inv' = [inv EXCEPT ![operator[d].req] =
               IF @ = "STARTED" THEN IF operator[d].called THEN "UNCONFIRMED" ELSE "NOT_CALLED"
                                ELSE @]
  /\ operator' = [operator EXCEPT ![d] = NoProc]
  /\ UNCHANGED <<req, result, head, repairSurface, aged, calls>>

\* The process dies; its open transaction is rolled back.
OperatorCrash(d) ==
  /\ operator[d].pc # "idle"
  /\ operator' = [operator EXCEPT ![d] = NoProc]
  /\ UNCHANGED <<req, inv, result, head, repairSurface, aged, calls>>

DayPasses(r) ==
  /\ inv[r] = "RECORDED" /\ r \notin aged
  /\ aged' = aged \cup {r}
  /\ UNCHANGED <<req, inv, result, head, repairSurface, operator, calls>>

DeliveryNext ==
  \/ \E r \in Repairs : CreateRepair(r)
  \/ \E r \in Diagnoses : CreateDiagnosis(r)
  \/ \E r \in Requests : Revoke(r) \/ Lapse(r) \/ DayPasses(r)
  \/ ConfigureSurface
  \/ \E d \in Operators :
       \/ \E r \in Requests : Authorize(d, r)
       \/ Reserve(d) \/ RefuseStart(d) \/ CallProvider(d) \/ Answer(d) \/ Recheck(d)
       \/ Settle(d) \/ Fail(d) \/ FinishFailed(d) \/ OperatorCrash(d)

DeliverySpec == DeliveryInit /\ [][DeliveryNext]_deliveryVars

-----------------------------------------------------------------------------

\* One consent buys at most one provider call, across operators, failures and restarts.
AtMostOneCall == \A r \in Requests : calls[r] <= 1

\* A call that was made is never recorded as not made: its invocation says started,
\* recorded or unconfirmed, and it keeps its reservation.
NoCallIsForgotten ==
  \A r \in Requests : calls[r] > 0 => inv[r] \in {"STARTED", "RECORDED", "UNCONFIRMED"}

\* The calls made inside one window never exceed the allowance, however many of them
\* crashed before they were accounted for.
CallsWithinAllowance == Cardinality({r \in Requests : calls[r] > 0} \ aged) <= TokenLimit

\* "uncertain prior invocation must be reconciled, never bypassed": no request succeeds one
\* whose call may have happened without a settled outcome.
UncertainIsNeverBypassed ==
  \A r \in Repairs : Superseded(r) => inv[r] \notin {"STARTED", "UNCONFIRMED"}

\* A model result is retained only while the consent it was asked under stands: not revoked
\* or superseded, on the diagnosis and the repair surface it named.
RetainedUnderConsent ==
  [][\A r \in Requests : result[r] = "none" /\ result'[r] # "none" =>
       /\ req[r].state = "live" /\ req[r].on = head
       /\ r \in Repairs => req[r].surface = repairSurface /\ ~Superseded(r)]_deliveryVars

\* by_request: a delivery and its invocation agree, and a proposal came from a recorded call.
ResultMatchesInvocation ==
  \A r \in Requests :
    /\ result[r] # "none" => inv[r] \in {"RECORDED", "NOT_CALLED"}
    /\ result[r] = "PROPOSED" => inv[r] = "RECORDED"

\* A person's consent buys at most one model call, which is counted, never forgotten and never
\* bypassed, and whose result is kept only while that consent stands.
DeliveryIsConsented ==
  /\ [](DeliveryTypeOK /\ AtMostOneCall /\ NoCallIsForgotten /\ CallsWithinAllowance)
  /\ [](UncertainIsNeverBypassed /\ ResultMatchesInvocation)
  /\ RetainedUnderConsent
=============================================================================
