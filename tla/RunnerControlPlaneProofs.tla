---------------------- MODULE RunnerControlPlaneProofs ----------------------
(***************************************************************************)
(* Proofs about the control plane, for every number of runs, rows, desks,  *)
(* leases and actions.                                                     *)
(***************************************************************************)
EXTENDS RunnerControlPlane, RunReducersProofs, TLAPS

-----------------------------------------------------------------------------
(* The inductive invariant, one part per table relation.                   *)

\* A queued run has no lease yet, and a run without a lease never got an epoch, an
\* action or a hand on a desktop.
QueueAndLease ==
    \A r \in Run :
        /\ runs[r].status = "QUEUED" => lease[r].state = "NONE"
        /\ lease[r].state = "NONE" =>
              /\ runs[r].status \in {"QUEUED", "CANCELLED"}
              /\ runs[r].epoch = 0 /\ lease[r].epoch = 0
              /\ actions[r] = <<>> /\ hand[r] = "IDLE"

\* A lease names an enrolled row, at an epoch the row issued and the run was told.
LeaseNamesRow ==
    \A r \in Run :
        lease[r].state # "NONE" =>
            /\ lease[r].runner \in Runner
            /\ runner[lease[r].runner].status # "ABSENT"
            /\ lease[r].epoch \in 1..MaxEpoch
            /\ lease[r].epoch <= runner[lease[r].runner].epoch
            /\ runs[r].epoch = lease[r].epoch

\* An open lease is its row's newest, and a row in service knows it is leased.
OpenIsNewest ==
    \A r \in Run :
        lease[r].state = "OPEN" =>
            /\ runner[lease[r].runner].epoch = lease[r].epoch
            /\ \/ runner[lease[r].runner].revoked
               \/ runner[lease[r].runner].status \in {"BUSY", "QUARANTINED"}

\* No row issues one epoch twice.
EpochsDiffer ==
    \A r, q \in Run :
        (r # q /\ lease[r].state # "NONE" /\ lease[q].state # "NONE"
            /\ lease[r].runner = lease[q].runner) => lease[r].epoch # lease[q].epoch

LeaseInv == QueueAndLease /\ LeaseNamesRow /\ OpenIsNewest /\ EpochsDiffer /\ OneLeasePerDesk

\* Only the newest journal entry may be without a known result or be the STOP;
\* a hand that is not idle belongs to it; an ambiguous entry has closed the lease,
\* and an acknowledged stop leaves every entry settled.
JournalOf(r) ==
    /\ \A i \in 1..Count(r) : i < Count(r) =>
          actions[r][i].state \in {"SUCCEEDED", "FAILED"} /\ ~actions[r][i].stop
    /\ hand[r] # "IDLE" => LastIs(r, {"DISPATCHED", "AMBIGUOUS"})
    /\ lease[r].state \in {"OPEN", "STOPPED"} => ~LastIs(r, {"AMBIGUOUS"})
    /\ lease[r].state = "STOPPED" => ~LastIs(r, {"INTENT", "DISPATCHED"})
JournalInv == \A r \in Run : JournalOf(r)

\* A run past RUNNING kept what finish_session saw; a cancelled one holds no lease.
EarnedEnd(r) ==
    /\ runs[r].status \in {"FINALIZING", "COMPLETED"} =>
          /\ lease[r].state = "STOPPED" /\ runs[r].stopEpoch = lease[r].epoch
          /\ EvidenceTail(r)
    /\ runs[r].status = "CANCELLED" => lease[r].state \in {"NONE", "STOPPED"}
EarnedEnds == \A r \in Run : EarnedEnd(r)

\* No registration is retired.
NoRetirement == ~LibraryCalls \/ Retirable = {}

\* Enrollment keeps one row of a desktop in service; a command that outlived its
\* lease keeps its row quarantined and the desktop unleased, unless the row was
\* retired.
AllInService == revoking = {} /\ \A w \in Runner : ~runner[w].revoked
OneRowInService ==
    \A v, w \in Runner : (SameDesk(v, w) /\ InService(v) /\ InService(w)) => v = w
HandFenced(r) ==
    (hand[r] = "ACTING" /\ lease[r].state # "OPEN" /\ ~runner[lease[r].runner].revoked) =>
        /\ runner[lease[r].runner].status = "QUARANTINED"
        /\ \A q \in Run : lease[q].state = "OPEN" => ~SameDesk(lease[q].runner, lease[r].runner)
DeskInv == OneRowInService /\ \A r \in Run : HandFenced(r)

\* Every accepted transition of a run row is accounted for: its place in the
\* lifecycle, the cancellation request and the acknowledged stop.
Steps(s) ==
    CASE s.status = "QUEUED" -> 0 [] s.status = "LEASED" -> 1 [] s.status = "RUNNING" -> 2
      [] s.status = "FINALIZING" -> 3 [] OTHER -> 4
Bit(b) == IF b THEN 1 ELSE 0
Bounded(s) == s.revision <= Steps(s) + Bit(CancellationRequested(s)) + Bit(s.stopAt # NoTime)
RevisionInv ==
    \A r \in Run :
        Bounded(runs[r]) /\ (runs[r].stopAt # NoTime => lease[r].state = "STOPPED")
-----------------------------------------------------------------------------
(* What the updates of rows and journals do, row by row.  The later proofs *)
(* cite these lemmas and leave the operators folded.                       *)

ActionState == {"INTENT", "DISPATCHED", "SUCCEEDED", "FAILED", "AMBIGUOUS"}

\* Giving the newest entry a state leaves every other entry, and every STOP mark, alone.
LEMMA JournalChanges ==
    ASSUME TypeOK, NEW r \in Run, Count(r) > 0, NEW st \in ActionState
    PROVE  /\ LastBecomes(r, st) \in [Run -> Seq(Action)]
           /\ \A q \in Run : q # r => LastBecomes(r, st)[q] = actions[q]
           /\ \A q \in Run : Len(LastBecomes(r, st)[q]) = Len(actions[q])
           /\ \A i \in 1..Count(r) : i # Count(r) => LastBecomes(r, st)[r][i] = actions[r][i]
           /\ \A i \in 1..Count(r) : LastBecomes(r, st)[r][i].stop = actions[r][i].stop
           /\ LastBecomes(r, st)[r][Count(r)].state = st
<1> DEFINE n == Len(actions[r])
<1> DEFINE a == actions[r][n]
<1> DEFINE b == [a EXCEPT !.state = st]
<1> DEFINE k == [actions[r] EXCEPT ![n] = b]
<1>a. actions \in [Run -> Seq(Action)] /\ n > 0 /\ Count(r) = n
  BY DEF TypeOK, Count
<1>1. actions[r] \in Seq(Action) /\ n \in Nat /\ n \in 1..Len(actions[r]) /\ a \in Action
  BY <1>a
<1>2. b \in Action /\ b.stop = a.stop /\ b.state = st
  BY <1>1 DEF Action, ActionState
<1>3. /\ k \in Seq(Action) /\ Len(k) = n /\ k[n] = b
      /\ \A i \in 1..n : i # n => k[i] = actions[r][i]
  <2> HIDE DEF b
  <2> QED
    BY <1>1, <1>2
<1>4. LastBecomes(r, st) = [actions EXCEPT ![r] = k]
  BY DEF LastBecomes, Count
<1>5. \A i \in 1..n : k[i].stop = actions[r][i].stop
  BY <1>2, <1>3
<1> HIDE DEF k
<1> QED
  BY <1>a, <1>2, <1>3, <1>4, <1>5

Grown(r, e) == [actions EXCEPT ![r] = Append(@, e)]

\* A new entry stands behind the others.
LEMMA JournalGrows ==
    ASSUME TypeOK, NEW r \in Run, NEW e \in Action
    PROVE  /\ Grown(r, e) \in [Run -> Seq(Action)]
           /\ \A q \in Run : q # r => Grown(r, e)[q] = actions[q]
           /\ Len(Grown(r, e)[r]) = Count(r) + 1
           /\ \A i \in 1..Count(r) : Grown(r, e)[r][i] = actions[r][i]
           /\ Grown(r, e)[r][Count(r) + 1] = e
<1>1. actions \in [Run -> Seq(Action)] /\ actions[r] \in Seq(Action) /\ Count(r) = Len(actions[r])
  BY DEF TypeOK, Count
<1>2. /\ Append(actions[r], e) \in Seq(Action)
      /\ Len(Append(actions[r], e)) = Len(actions[r]) + 1
      /\ \A i \in 1..Len(actions[r]) : Append(actions[r], e)[i] = actions[r][i]
      /\ Append(actions[r], e)[Len(actions[r]) + 1] = e
  BY <1>1
<1> QED
  BY <1>1, <1>2 DEF Grown

\* A runner row is the record of its three fields.
LEMMA RunnerRowOf ==
    /\ \A row \in RunnerRow :
          row.status \in RunnerStatus /\ row.epoch \in Nat /\ row.revoked \in BOOLEAN
    /\ \A s \in RunnerStatus, e \in Nat, b \in BOOLEAN :
          [status |-> s, epoch |-> e, revoked |-> b] \in RunnerRow
BY DEF RunnerRow

\* Setting one row's status touches nothing else; an unknown row is no row.
LEMMA StatusSet ==
    ASSUME TypeOK, NEW x, NEW st \in RunnerStatus
    PROVE  /\ RowBecomes(x, st) \in [Runner -> RunnerRow]
           /\ \A v \in Runner :
                 /\ RowBecomes(x, st)[v].epoch = runner[v].epoch
                 /\ RowBecomes(x, st)[v].revoked = runner[v].revoked
                 /\ RowBecomes(x, st)[v].status = IF v = x THEN st ELSE runner[v].status
                 /\ v # x => RowBecomes(x, st)[v] = runner[v]
<1>a. runner \in [Runner -> RunnerRow]
  BY DEF TypeOK
<1>1. \A row \in RunnerRow :
         [row EXCEPT !.status = st] = [status |-> st, epoch |-> row.epoch, revoked |-> row.revoked]
  BY DEF RunnerRow
<1>2. PICK g : g = [runner EXCEPT ![x].status = st]
  OBVIOUS
<1>3. \A v \in Runner : g[v] =
         IF v = x THEN [status |-> st, epoch |-> runner[v].epoch, revoked |-> runner[v].revoked]
         ELSE runner[v]
  BY <1>a, <1>1, <1>2
<1>4. \A v \in Runner : g[v] \in RunnerRow
  BY <1>a, <1>3, RunnerRowOf, Zenon
<1>5. g \in [Runner -> RunnerRow]
  BY <1>a, <1>2, <1>4
<1> QED
  BY <1>2, <1>3, <1>5 DEF RowBecomes

Retired(w) == [runner EXCEPT ![w] = [@ EXCEPT !.revoked = TRUE, !.status = "OFFLINE"]]
Leased(w, e) == [runner EXCEPT ![w] = [@ EXCEPT !.epoch = e, !.status = "BUSY"]]

\* Retirement marks the row and takes it offline.
LEMMA RetiredFields ==
    ASSUME TypeOK, NEW w \in Runner
    PROVE  /\ Retired(w) \in [Runner -> RunnerRow]
           /\ Retired(w)[w].epoch = runner[w].epoch
           /\ Retired(w)[w].revoked /\ Retired(w)[w].status = "OFFLINE"
           /\ \A v \in Runner : v # w => Retired(w)[v] = runner[v]
<1> DEFINE row == [status |-> "OFFLINE", epoch |-> runner[w].epoch, revoked |-> TRUE]
<1>1. runner \in [Runner -> RunnerRow] /\ runner[w] \in RunnerRow
  BY DEF TypeOK
<1>2. PICK x, y : x = runner[w] /\ y = [x EXCEPT !.revoked = TRUE, !.status = "OFFLINE"]
  OBVIOUS
<1>3. y = row
  BY <1>1, <1>2 DEF RunnerRow
<1>4. Retired(w) = [runner EXCEPT ![w] = row]
  BY <1>2, <1>3 DEF Retired
<1>5. row \in RunnerRow
  BY <1>1, RunnerRowOf DEF RunnerStatus
<1> HIDE DEF row
<1>6. /\ Retired(w) \in [Runner -> RunnerRow] /\ Retired(w)[w] = row
      /\ \A v \in Runner : v # w => Retired(w)[v] = runner[v]
  BY <1>1, <1>4, <1>5
<1> QED
  BY <1>6 DEF row

\* A lease gives the row the lease's epoch and makes it BUSY.
LEMMA LeasedFields ==
    ASSUME TypeOK, NEW w \in Runner, NEW e \in Nat
    PROVE  /\ Leased(w, e) \in [Runner -> RunnerRow]
           /\ Leased(w, e)[w].epoch = e
           /\ Leased(w, e)[w].revoked = runner[w].revoked
           /\ Leased(w, e)[w].status = "BUSY"
           /\ \A v \in Runner : v # w => Leased(w, e)[v] = runner[v]
<1> DEFINE row == [status |-> "BUSY", epoch |-> e, revoked |-> runner[w].revoked]
<1>1. runner \in [Runner -> RunnerRow] /\ runner[w] \in RunnerRow
  BY DEF TypeOK
<1>2. PICK x, y : x = runner[w] /\ y = [x EXCEPT !.epoch = e, !.status = "BUSY"]
  OBVIOUS
<1>3. y = row
  BY <1>1, <1>2 DEF RunnerRow
<1>4. Leased(w, e) = [runner EXCEPT ![w] = row]
  BY <1>2, <1>3 DEF Leased
<1>5. row \in RunnerRow
  BY <1>1, RunnerRowOf DEF RunnerStatus
<1> HIDE DEF row
<1>6. /\ Leased(w, e) \in [Runner -> RunnerRow] /\ Leased(w, e)[w] = row
      /\ \A v \in Runner : v # w => Leased(w, e)[v] = runner[v]
  BY <1>1, <1>4, <1>5
<1> QED
  BY <1>6 DEF row

\* A closed lease keeps its row and its epoch.
LEMMA ClosedFields ==
    ASSUME NEW l \in LeaseRow, NEW st \in {"RELEASED", "STOPPED"}
    PROVE  /\ Closed(l, st) \in LeaseRow
           /\ Closed(l, st).runner = l.runner /\ Closed(l, st).epoch = l.epoch
           /\ Closed(l, st).state = st
<1>1. PICK c : c = Closed(l, st)
  OBVIOUS
<1>2. c = [runner |-> l.runner, epoch |-> l.epoch, state |-> st, due |-> FALSE, cancel |-> FALSE]
  BY <1>1 DEF Closed, LeaseRow
<1>3. c \in LeaseRow /\ c.runner = l.runner /\ c.epoch = l.epoch /\ c.state = st
  BY <1>2 DEF LeaseRow
<1> QED
  BY <1>1, <1>3

\* Releasing a lease closes it if it is open, and no other.
LEMMA ReleasedFields ==
    ASSUME TypeOK, NEW r \in Run
    PROVE  /\ Released(r) \in [Run -> LeaseRow]
           /\ \A q \in Run : q # r => Released(r)[q] = lease[q]
           /\ Released(r)[r].runner = lease[r].runner /\ Released(r)[r].epoch = lease[r].epoch
           /\ Released(r)[r].state =
                 IF lease[r].state = "OPEN" THEN "RELEASED" ELSE lease[r].state
<1>1. lease \in [Run -> LeaseRow] /\ lease[r] \in LeaseRow
  BY DEF TypeOK
<1> QED
  BY <1>1, ClosedFields DEF Released

-----------------------------------------------------------------------------
(* Types.                                                                  *)

\* The operations on runner rows.
RowStep(w) ==
    \/ Enroll(w) \/ PreflightFails(w) \/ RevokeCheck(w) \/ RevokeCommit(w)
    \/ \E r \in Run : PreflightSucceeds(w, r)

\* Enrollment, preflight and retirement keep the types.
LEMMA RowStepTypes ==
    ASSUME TypeOK, NEW w \in Runner, RowStep(w)
    PROVE  TypeOK'
<1>0. "PREFLIGHT_REQUIRED" \in RunnerStatus /\ "READY" \in RunnerStatus
      /\ "QUARANTINED" \in RunnerStatus
  BY DEF RunnerStatus
<1>1. CASE Enroll(w)
  BY <1>0, <1>1, StatusSet DEF TypeOK, Enroll
<1>2. CASE PreflightFails(w)
  <2>1. runner' \in [Runner -> RunnerRow]
    BY <1>0, <1>2, StatusSet DEF PreflightFails, Quarantine
  <2>2. preflight' \in [Runner -> PreflightRow]
    BY <1>2, RunnerRowOf DEF TypeOK, PreflightFails, PreflightRow
  <2> QED
    BY <1>2, <2>1, <2>2 DEF TypeOK, PreflightFails
<1>3. CASE RevokeCheck(w)
  BY <1>3 DEF TypeOK, RevokeCheck
<1>4. CASE RevokeCommit(w)
  <2>1. runner' = Retired(w)
    BY <1>4 DEF RevokeCommit, Retired
  <2> QED
    BY <1>4, <2>1, RetiredFields DEF TypeOK, RevokeCommit
<1>5. ASSUME NEW r \in Run, PreflightSucceeds(w, r) PROVE TypeOK'
  <2>1. runner' \in [Runner -> RunnerRow]
    BY <1>0, <1>5, StatusSet DEF PreflightSucceeds
  <2>2. preflight' \in [Runner -> PreflightRow]
    BY <1>5, RunnerRowOf DEF TypeOK, PreflightSucceeds, PreflightRow
  <2> QED
    BY <1>5, <2>1, <2>2 DEF TypeOK, PreflightSucceeds
<1> QED
  BY <1>1, <1>2, <1>3, <1>4, <1>5 DEF RowStep

\* reset_runner keeps the types.
LEMMA ResetTypes ==
    ASSUME TypeOK, NEW w \in Runner, NEW proved \in BOOLEAN, Reset(w, proved)
    PROVE  TypeOK'
<1>1. lease' \in [Run -> LeaseRow]
  <2>1. \A r \in Run : lease[r] \in LeaseRow /\ Closed(lease[r], "RELEASED") \in LeaseRow
    BY ClosedFields DEF TypeOK
  <2> QED
    BY <2>1 DEF Reset
<1>2. runner' \in [Runner -> RunnerRow]
  <2>1. "PREFLIGHT_REQUIRED" \in RunnerStatus /\ "QUARANTINED" \in RunnerStatus
    BY DEF RunnerStatus
  <2> QED
    BY <2>1, StatusSet DEF Reset, AfterReset, Quarantine
<1>3. hand' \in [Run -> Hand]
  BY DEF TypeOK, Hand, Reset
<1> QED
  BY <1>1, <1>2, <1>3 DEF TypeOK, Reset

\* admit_lease keeps the types.
LEMMA AdmitLeaseTypes ==
    ASSUME TypeOK, NEW w \in Runner, NEW r \in Run, AdmitLease(w, r)
    PROVE  TypeOK'
<1>1. NextEpoch(w) \in Nat
  BY RunnerRowOf DEF TypeOK, NextEpoch
<1>2. lease' \in [Run -> LeaseRow]
  <2> DEFINE l == [runner |-> w, epoch |-> NextEpoch(w), state |-> "OPEN",
                   due |-> FALSE, cancel |-> FALSE]
  <2>1. l \in LeaseRow
    BY <1>1 DEF LeaseRow
  <2>2. lease' = [lease EXCEPT ![r] = l]
    BY DEF AdmitLease
  <2> QED
    BY <2>1, <2>2 DEF TypeOK
<1>3. runner' \in [Runner -> RunnerRow]
  <2>1. runner' = Leased(w, NextEpoch(w))
    BY DEF AdmitLease, Leased
  <2> QED
    BY <1>1, <2>1, LeasedFields
<1>4. runs' \in [Run -> RunState]
  <2>1. AdmittedToDesktop(runs[r], NextEpoch(w)) \in RunState
    BY <1>1, AdmittedFields DEF TypeOK
  <2> QED
    BY <2>1 DEF TypeOK, AdmitLease
<1> QED
  BY <1>2, <1>3, <1>4 DEF TypeOK, AdmitLease

\* fence_expired_leases keeps the types.
LEMMA FenceExpiredTypes ==
    ASSUME TypeOK, FenceExpired
    PROVE  TypeOK'
<1> DEFINE due == {r \in Run : lease[r].state = "OPEN" /\ lease[r].due}
<1>1. lease' \in [Run -> LeaseRow]
  <2>1. \A r \in Run : lease[r] \in LeaseRow /\ Closed(lease[r], "RELEASED") \in LeaseRow
    BY ClosedFields DEF TypeOK
  <2> QED
    BY <2>1 DEF FenceExpired
<1>2. runner' \in [Runner -> RunnerRow]
  <2>1. \A w \in Runner : runner[w] \in RunnerRow
    BY DEF TypeOK
  <2>2. \A w \in Runner : [runner[w] EXCEPT !.status = "QUARANTINED"] \in RunnerRow
    BY <2>1 DEF RunnerRow, RunnerStatus
  <2> QED
    BY <2>1, <2>2 DEF FenceExpired
<1> QED
  BY <1>1, <1>2 DEF TypeOK, FenceExpired

\* acknowledge_stop on the lease keeps the types.
LEMMA StoppedLeaseTypes ==
    ASSUME TypeOK, NEW r \in Run, LeaseStopAcknowledged(r)
    PROVE  TypeOK'
<1>1. Closed(lease[r], "STOPPED") \in LeaseRow
  BY ClosedFields DEF TypeOK
<1>2. lease' \in [Run -> LeaseRow]
  BY <1>1 DEF TypeOK, LeaseStopAcknowledged
<1>3. runner' \in [Runner -> RunnerRow]
  <2>1. "PREFLIGHT_REQUIRED" \in RunnerStatus
    BY DEF RunnerStatus
  <2> QED
    BY <2>1, StatusSet DEF LeaseStopAcknowledged
<1> QED
  BY <1>2, <1>3 DEF TypeOK, LeaseStopAcknowledged

\* finish_session keeps the types.
LEMMA FinishTypes ==
    ASSUME TypeOK, NEW r \in Run, NEW t \in Times, Finish(r, t)
    PROVE  TypeOK'
<1>1. Closed(lease[r], "STOPPED") \in LeaseRow /\ lease[r].epoch \in Nat
  BY ClosedFields DEF TypeOK, LeaseRow
<1>2. lease' \in [Run -> LeaseRow]
  BY <1>1 DEF TypeOK, Finish
<1>3. runner' \in [Runner -> RunnerRow]
  <2>1. "PREFLIGHT_REQUIRED" \in RunnerStatus
    BY DEF RunnerStatus
  <2> QED
    BY <2>1, StatusSet DEF Finish
<1>4. runs' \in [Run -> RunState]
  <2>1. Progressed(StopAcknowledged(runs[r], t, lease[r].epoch)) \in RunState
    BY <1>1, FinishedFields, ControlAssumption DEF TypeOK, Finish, Live, DispatchReady
  <2> QED
    BY <2>1 DEF TypeOK, Finish
<1>5. ticket' \in [Run -> TicketState]
  BY DEF TypeOK, Finish, TicketState
<1> QED
  BY <1>2, <1>3, <1>4, <1>5 DEF TypeOK, Finish

\* Steps that move a clock, a ticket or a mark, and none of the rows the
\* invariants read.
Housekeeping(r) ==
    \/ LeaseDue(r) \/ Heartbeat(r) \/ LeaseCancel(r) \/ AuthorityEnds(r)
    \/ HandoffAcknowledged(r) \/ TicketLapses(r) \/ OpenSession(r)

\* Housekeeping keeps the types.
LEMMA HousekeepingTypes ==
    ASSUME TypeOK, NEW r \in Run, Housekeeping(r)
    PROVE  TypeOK'
<1>1. CASE LeaseDue(r)
  BY ZenonT(60), <1>1 DEF TypeOK, LeaseDue, LeaseRow
<1>2. CASE Heartbeat(r)
  BY ZenonT(60), <1>2 DEF TypeOK, Heartbeat, LeaseRow
<1>3. CASE LeaseCancel(r)
  BY <1>3 DEF TypeOK, LeaseCancel, LeaseRow
<1>4. CASE AuthorityEnds(r)
  BY <1>4 DEF TypeOK, AuthorityEnds
<1>5. CASE HandoffAcknowledged(r)
  BY <1>5 DEF TypeOK, HandoffAcknowledged
<1>6. CASE TicketLapses(r)
  BY <1>6 DEF TypeOK, TicketLapses, TicketState
<1>7. CASE OpenSession(r)
  BY <1>7 DEF TypeOK, OpenSession, TicketState
<1> QED
  BY <1>1, <1>2, <1>3, <1>4, <1>5, <1>6, <1>7 DEF Housekeeping

\* The supervisor session's steps under an open lease.
JournalStep(r) ==
    \/ Settle(r) \/ Observe(r) \/ FinalSample(r)
    \/ \E b \in BOOLEAN : Intent(r, b) \/ CommitDispatch(r, b)
    \/ \E state \in {"SUCCEEDED", "FAILED"} : CompleteAction(r, state)

\* The session's steps keep the types, the budget of actions included.
LEMMA JournalStepTypes ==
    ASSUME TypeOK, NEW r \in Run, JournalStep(r)
    PROVE  TypeOK'
<1>a. /\ actions \in [Run -> Seq(Action)] /\ actions[r] \in Seq(Action)
      /\ Count(r) \in Nat /\ Count(r) <= MaxActions /\ Count(r) = Len(actions[r])
      /\ MaxActions \in Nat
  BY ControlAssumption DEF TypeOK, Count
<1>1. CASE Settle(r)
  BY <1>1 DEF TypeOK, Settle, Hand
<1>2. CASE Observe(r)
  BY <1>2, <1>a DEF TypeOK, Observe, LastIs
<1>3. CASE FinalSample(r)
  BY <1>3, <1>a DEF TypeOK, FinalSample
<1>4. ASSUME NEW b \in BOOLEAN, Intent(r, b) PROVE TypeOK'
  <2> DEFINE e == [stop |-> b, state |-> "INTENT"]
  <2>1. e \in Action
    BY DEF Action
  <2>2. actions' = Grown(r, e)
    BY <1>4 DEF Intent, Grown
  <2> HIDE DEF e
  <2>3. actions' \in [Run -> Seq(Action)] /\ \A q \in Run : Len(actions'[q]) <= MaxActions
    BY <1>4, <1>a, <2>1, <2>2, JournalGrows DEF TypeOK, Intent, MayIntend
  <2> QED
    BY <1>4, <2>3 DEF TypeOK, Intent
<1>5. ASSUME NEW b \in BOOLEAN, CommitDispatch(r, b) PROVE TypeOK'
  <2>1. actions' \in [Run -> Seq(Action)] /\ \A q \in Run : Len(actions'[q]) <= MaxActions
    BY <1>5, JournalChanges DEF TypeOK, CommitDispatch, LastIs, ActionState
  <2>2. hand' \in [Run -> Hand]
    BY <1>5 DEF TypeOK, CommitDispatch, Hand
  <2> QED
    BY <1>5, <2>1, <2>2 DEF TypeOK, CommitDispatch
<1>6. ASSUME NEW state \in {"SUCCEEDED", "FAILED"}, CompleteAction(r, state) PROVE TypeOK'
  <2>1. actions' \in [Run -> Seq(Action)] /\ \A q \in Run : Len(actions'[q]) <= MaxActions
    BY <1>6, JournalChanges DEF TypeOK, CompleteAction, LastIs, ActionState
  <2>2. hand' \in [Run -> Hand]
    BY <1>6 DEF TypeOK, CompleteAction, Hand
  <2> QED
    BY <1>6, <2>1, <2>2 DEF TypeOK, CompleteAction
<1> QED
  BY <1>1, <1>2, <1>3, <1>4, <1>5, <1>6 DEF JournalStep

\* Steps that write one run row, and no lease and no runner row.
RunStep(r) ==
    \/ Dispatch(r) \/ TerminalizeCancellation(r)
    \/ \E t \in Times : RequestCancel(r, t) \/ AcknowledgeRunStop(r, t)
    \/ \E o \in Evaluated : Finalize(r, o)

\* The run row each of them writes.
LEMMA RunStepEffect ==
    ASSUME TypeOK, NEW r \in Run, RunStep(r)
    PROVE  /\ runs' = [runs EXCEPT ![r] = runs'[r]]
           /\ runs'[r] \in RunState
           /\ \/ Dispatch(r) /\ MayProgress(runs[r]) /\ runs'[r] = Progressed(runs[r])
              \/ TerminalizeCancellation(r) /\ runs'[r] = Cancelled(runs[r])
              \/ \E t \in Times :
                    RequestCancel(r, t) /\ runs'[r] = CancellationRequestedAt(runs[r], t)
              \/ \E t \in Times :
                    AcknowledgeRunStop(r, t)
                       /\ runs'[r] = StopAcknowledged(runs[r], t, lease[r].epoch)
              \/ \E o \in Evaluated : Finalize(r, o) /\ runs'[r] = Completed(runs[r], o)
<1>a. runs \in [Run -> RunState] /\ runs[r] \in RunState /\ lease[r].epoch \in Nat
  BY DEF TypeOK, LeaseRow
<1>1. CASE Dispatch(r)
  BY <1>1, <1>a, ProgressedFields DEF Dispatch
<1>2. CASE TerminalizeCancellation(r)
  BY <1>2, <1>a, CancelledFields DEF TerminalizeCancellation
<1>3. ASSUME NEW t \in Times, RequestCancel(r, t)
      PROVE  /\ runs' = [runs EXCEPT ![r] = runs'[r]] /\ runs'[r] \in RunState
             /\ runs'[r] = CancellationRequestedAt(runs[r], t)
  BY <1>3, <1>a, FirstRequestFields, ControlAssumption DEF RequestCancel
<1>4. ASSUME NEW t \in Times, AcknowledgeRunStop(r, t)
      PROVE  /\ runs' = [runs EXCEPT ![r] = runs'[r]] /\ runs'[r] \in RunState
             /\ runs'[r] = StopAcknowledged(runs[r], t, lease[r].epoch)
  BY <1>4, <1>a, StopAcknowledgedFields, ControlAssumption DEF AcknowledgeRunStop
<1>5. ASSUME NEW o \in Evaluated, Finalize(r, o)
      PROVE  /\ runs' = [runs EXCEPT ![r] = runs'[r]] /\ runs'[r] \in RunState
             /\ runs'[r] = Completed(runs[r], o)
  BY <1>5, <1>a, CompletedFields DEF Finalize, Evaluated, Outcome
<1> QED
  BY <1>1, <1>2, <1>3, <1>4, <1>5 DEF RunStep

\* Steps on a run row keep the types.
LEMMA RunStepTypes ==
    ASSUME TypeOK, NEW r \in Run, RunStep(r)
    PROVE  TypeOK'
<1>1. runs' \in [Run -> RunState]
  BY RunStepEffect DEF TypeOK
<1>2. CASE Dispatch(r)
  BY <1>1, <1>2 DEF TypeOK, Dispatch, TicketState
<1>3. CASE ~Dispatch(r)
  BY <1>1, <1>3 DEF TypeOK, RunStep, TerminalizeCancellation, RequestCancel,
     AcknowledgeRunStop, Finalize
<1> QED
  BY <1>2, <1>3

\* What fences a session from outside it or for an unknown result.
Interruption(r) ==
    HandoffUnknown(r) \/ Recover(r) \/ ReportAmbiguous(r) \/ TerminalizeAmbiguous(r)

\* An interruption ends one run, quarantines the row its lease names, releases the
\* lease if it was open, and leaves the journal or marks its newest entry ambiguous;
\* a handoff that is no longer this run's to fence changes nothing of that.
LEMMA InterruptionEffect ==
    ASSUME TypeOK, NEW r \in Run, Interruption(r)
    PROVE  \/ /\ HandoffUnknown(r)
              /\ UNCHANGED <<runs, runner, preflight, lease, ticket, authority, actions,
                             reader, observer, hand, revoking>>
              /\ sending' \in [Run -> BOOLEAN]
           \/ /\ runs' = [runs EXCEPT ![r] = Interrupted(@)]
              /\ runner' = Quarantine(lease[r].runner)
              /\ lease' = Released(r)
              /\ NonTerminal(runs[r])
              /\ \/ UNCHANGED actions
                 \/ LastIs(r, {"INTENT", "DISPATCHED"}) /\ actions' = LastBecomes(r, "AMBIGUOUS")
              /\ \/ runs[r].status = "RUNNING" /\ lease[r].state # "NONE"
                       /\ runner[lease[r].runner].epoch = lease[r].epoch
                 \/ LibraryCalls /\ LastIs(r, {"INTENT", "DISPATCHED"})
              /\ ticket' \in [Run -> TicketState] /\ sending' \in [Run -> BOOLEAN]
              /\ UNCHANGED <<preflight, authority, reader, observer, hand, revoking>>
<1>a. ticket \in [Run -> TicketState] /\ "REVOKED" \in TicketState /\ sending \in [Run -> BOOLEAN]
  BY DEF TypeOK, TicketState
<1>1. CASE HandoffUnknown(r)
  BY <1>1, <1>a DEF HandoffUnknown, InterruptHandoff, CurrentHandoff, NonTerminal, Terminal
<1>2. CASE Recover(r)
  BY <1>2, <1>a DEF Recover, Abandoned, InterruptHandoff, CurrentHandoff, NonTerminal, Terminal
<1>3. CASE ReportAmbiguous(r)
  BY <1>3, <1>a DEF ReportAmbiguous, Live, DispatchReady, InterruptHandoff, NonTerminal, Terminal
<1>4. CASE TerminalizeAmbiguous(r)
  BY <1>4, <1>a DEF TerminalizeAmbiguous, MayInterrupt
<1> QED
  BY <1>1, <1>2, <1>3, <1>4 DEF Interruption

\* Interruptions keep the types.
LEMMA InterruptionTypes ==
    ASSUME TypeOK, NEW r \in Run, Interruption(r)
    PROVE  TypeOK'
<1>1. CASE runs' = runs
  <2>1. UNCHANGED <<runs, runner, preflight, lease, ticket, authority, actions,
                    reader, observer, hand, revoking>> /\ sending' \in [Run -> BOOLEAN]
    <3>1. runs[r] \in RunState
      BY DEF TypeOK
    <3>2. Interrupted(runs[r]).revision = runs[r].revision + 1 /\ runs[r].revision \in Nat
      BY <3>1, InterruptedFields DEF RunState
    <3>3. ~(runs' = [runs EXCEPT ![r] = Interrupted(@)])
      BY <1>1, <3>2 DEF TypeOK
    <3> QED
      BY <3>3, InterruptionEffect
  <2> QED
    BY <2>1 DEF TypeOK
<1>2. CASE runs' # runs
  <2>1. runs' \in [Run -> RunState]
    <3>1. Interrupted(runs[r]) \in RunState
      BY InterruptedFields DEF TypeOK
    <3> QED
      BY <1>2, <3>1, InterruptionEffect DEF TypeOK
  <2>2. runner' \in [Runner -> RunnerRow]
    BY <1>2, InterruptionEffect, StatusSet DEF Quarantine, RunnerStatus
  <2>3. lease' \in [Run -> LeaseRow]
    BY <1>2, InterruptionEffect, ReleasedFields
  <2>4. actions' \in [Run -> Seq(Action)] /\ \A q \in Run : Len(actions'[q]) <= MaxActions
    BY <1>2, InterruptionEffect, JournalChanges DEF TypeOK, LastIs, ActionState
  <2> QED
    BY <1>2, <2>1, <2>2, <2>3, <2>4, InterruptionEffect DEF TypeOK
<1> QED
  BY <1>1, <1>2

\* Next, by what its steps write.
LEMMA NextCases ==
    ASSUME Next
    PROVE  \/ \E w \in Runner : RowStep(w)
           \/ \E w \in Runner, proved \in BOOLEAN : Reset(w, proved)
           \/ \E w \in Runner, r \in Run : AdmitLease(w, r)
           \/ FenceExpired
           \/ \E r \in Run : Housekeeping(r) \/ JournalStep(r) \/ RunStep(r) \/ Interruption(r)
           \/ \E r \in Run : LeaseStopAcknowledged(r)
           \/ \E r \in Run, t \in Times : Finish(r, t)
BY Zenon DEF Next, RowStep, Housekeeping, JournalStep, RunStep, Interruption

\* Every table holds rows of its type, whatever is called in whatever order.
THEOREM TypeCorrectness == Spec => []TypeOK
<1>1. Init => TypeOK
  BY ControlAssumption DEF Init, TypeOK, RunState, NewRun, RunStatus, Outcome, NoTime, NoEpoch,
     RunnerRow, RunnerStatus, PreflightRow, LeaseRow, TicketState, Hand, Action
<1>2. TypeOK /\ [Next]_vars => TypeOK'
  <2> SUFFICES ASSUME TypeOK, [Next]_vars PROVE TypeOK'
    OBVIOUS
  <2>1. CASE Next
    BY <2>1, NextCases, RowStepTypes, ResetTypes, AdmitLeaseTypes, FenceExpiredTypes,
       HousekeepingTypes, JournalStepTypes, RunStepTypes, InterruptionTypes,
       StoppedLeaseTypes, FinishTypes
  <2>2. CASE UNCHANGED vars
    BY <2>2 DEF TypeOK, vars
  <2> QED
    BY <2>1, <2>2
<1> QED
  BY <1>1, <1>2, PTL DEF Spec

-----------------------------------------------------------------------------
(* What the steps that touch leases and rows do, row by row.               *)

SameLease(q) ==
    /\ lease'[q].runner = lease[q].runner /\ lease'[q].epoch = lease[q].epoch
    /\ lease'[q].state = lease[q].state

\* Housekeeping leaves everything the invariants read.
LEMMA HousekeepingEffect ==
    ASSUME TypeOK, NEW r \in Run, Housekeeping(r)
    PROVE  /\ UNCHANGED <<runs, runner, actions, reader, observer, hand, revoking>>
           /\ \A q \in Run : SameLease(q)
<1>1. CASE lease' = lease
  BY <1>1 DEF Housekeeping, LeaseDue, Heartbeat, LeaseCancel, AuthorityEnds,
     HandoffAcknowledged, TicketLapses, OpenSession, SameLease
<1>2. CASE LeaseDue(r)
  BY <1>2 DEF TypeOK, LeaseDue, LeaseRow, SameLease
<1>3. CASE Heartbeat(r)
  BY <1>3 DEF TypeOK, Heartbeat, LeaseRow, SameLease
<1>4. CASE LeaseCancel(r)
  BY <1>4 DEF TypeOK, LeaseCancel, LeaseRow, SameLease
<1>5. CASE AuthorityEnds(r) \/ HandoffAcknowledged(r) \/ TicketLapses(r) \/ OpenSession(r)
  <2>1. lease' = lease
    BY <1>5 DEF AuthorityEnds, HandoffAcknowledged, TicketLapses, OpenSession
  <2> QED
    BY <1>1, <2>1
<1> QED
  BY <1>2, <1>3, <1>4, <1>5 DEF Housekeeping

\* A row operation leaves leases, runs and journals, and changes one row.
LEMMA RowStepEffect ==
    ASSUME TypeOK, NEW w \in Runner, RowStep(w)
    PROVE  /\ UNCHANGED <<runs, lease, actions, reader, observer, hand>>
           /\ \A v \in Runner : v # w => runner'[v] = runner[v]
           /\ runner'[w].epoch = runner[w].epoch
           /\ \/ runner' = runner
              \/ /\ runner[w].status = "ABSENT" /\ runner'[w].status = "PREFLIGHT_REQUIRED"
                 /\ runner'[w].revoked = runner[w].revoked
                 /\ ~\E v \in Runner : SameDesk(v, w) /\ InService(v)
              \/ /\ runner[w].status = "PREFLIGHT_REQUIRED" /\ runner'[w].status = "READY"
                 /\ runner'[w].revoked = runner[w].revoked /\ ~runner[w].revoked
              \/ /\ runner[w].status # "ABSENT" /\ runner'[w].status = "QUARANTINED"
                 /\ runner'[w].revoked = runner[w].revoked
              \/ /\ w \in revoking /\ runner'[w].status = "OFFLINE" /\ runner'[w].revoked
           /\ \/ revoking' \subseteq revoking
              \/ LibraryCalls /\ w \in Retirable
<1>0. "PREFLIGHT_REQUIRED" \in RunnerStatus /\ "READY" \in RunnerStatus
      /\ "QUARANTINED" \in RunnerStatus
  BY DEF RunnerStatus
<1>1. CASE Enroll(w)
  BY <1>0, <1>1, StatusSet DEF Enroll
<1>2. CASE PreflightFails(w)
  BY <1>0, <1>2, StatusSet DEF PreflightFails, Quarantine, InService
<1>3. CASE RevokeCheck(w)
  BY <1>3 DEF RevokeCheck
<1>4. CASE RevokeCommit(w)
  <2>1. runner' = Retired(w)
    BY <1>4 DEF RevokeCommit, Retired
  <2> QED
    BY <1>4, <2>1, RetiredFields DEF RevokeCommit
<1>5. ASSUME NEW r \in Run, PreflightSucceeds(w, r)
      PROVE  /\ UNCHANGED <<runs, lease, actions, reader, observer, hand, revoking>>
             /\ \A v \in Runner : v # w => runner'[v] = runner[v]
             /\ runner'[w].epoch = runner[w].epoch
             /\ runner[w].status = "PREFLIGHT_REQUIRED" /\ runner'[w].status = "READY"
             /\ runner'[w].revoked = runner[w].revoked /\ ~runner[w].revoked
  BY <1>0, <1>5, StatusSet DEF PreflightSucceeds, InService
<1> QED
  BY <1>1, <1>2, <1>3, <1>4, <1>5 DEF RowStep

\* A reset closes the row's open leases; a proved one empties the desktop's hands.
LEMMA ResetEffect ==
    ASSUME TypeOK, NEW w \in Runner, NEW proved \in BOOLEAN, Reset(w, proved)
    PROVE  /\ UNCHANGED <<runs, actions, reader, observer, revoking>>
           /\ runner[w].status # "ABSENT"
           /\ \A v \in Runner :
                 /\ v # w => runner'[v] = runner[v]
                 /\ runner'[v].epoch = runner[v].epoch /\ runner'[v].revoked = runner[v].revoked
           /\ runner'[w].status = IF proved THEN "PREFLIGHT_REQUIRED" ELSE "QUARANTINED"
           /\ \A q \in Run :
                 /\ lease'[q].runner = lease[q].runner /\ lease'[q].epoch = lease[q].epoch
                 /\ lease'[q].state = IF lease[q].state = "OPEN" /\ lease[q].runner = w
                                      THEN "RELEASED" ELSE lease[q].state
                 /\ hand'[q] = IF proved /\ lease[q].state # "NONE" /\ SameDesk(lease[q].runner, w)
                               THEN "IDLE" ELSE hand[q]
<1>0. "PREFLIGHT_REQUIRED" \in RunnerStatus /\ "QUARANTINED" \in RunnerStatus
  BY DEF RunnerStatus
<1>1. \A q \in Run :
         /\ Closed(lease[q], "RELEASED").runner = lease[q].runner
         /\ Closed(lease[q], "RELEASED").epoch = lease[q].epoch
         /\ Closed(lease[q], "RELEASED").state = "RELEASED"
  BY ClosedFields DEF TypeOK
<1>2. \A q \in Run : lease'[q] = IF lease[q].state = "OPEN" /\ lease[q].runner = w
                                 THEN Closed(lease[q], "RELEASED") ELSE lease[q]
  BY DEF Reset, OpenOnRow
<1>3. \A q \in Run :
         /\ lease'[q].runner = lease[q].runner /\ lease'[q].epoch = lease[q].epoch
         /\ lease'[q].state = IF lease[q].state = "OPEN" /\ lease[q].runner = w
                              THEN "RELEASED" ELSE lease[q].state
  BY <1>1, <1>2
<1>4. runner' = RowBecomes(w, IF proved THEN "PREFLIGHT_REQUIRED" ELSE "QUARANTINED")
  BY DEF Reset, AfterReset, Quarantine
<1>5. /\ \A v \in Runner :
            /\ v # w => runner'[v] = runner[v]
            /\ runner'[v].epoch = runner[v].epoch /\ runner'[v].revoked = runner[v].revoked
      /\ runner'[w].status = IF proved THEN "PREFLIGHT_REQUIRED" ELSE "QUARANTINED"
  BY <1>0, <1>4, StatusSet
<1> QED
  BY <1>3, <1>5 DEF Reset, InService

\* The expiry sweep closes open leases and quarantines the row of each.
LEMMA FenceExpiredEffect ==
    ASSUME TypeOK, FenceExpired
    PROVE  /\ LibraryCalls
           /\ UNCHANGED <<runs, actions, reader, observer, hand, revoking>>
           /\ \A v \in Runner :
                 /\ runner'[v].epoch = runner[v].epoch /\ runner'[v].revoked = runner[v].revoked
                 /\ runner'[v].status \in {runner[v].status, "QUARANTINED"}
                 /\ runner'[v].status # runner[v].status => \E q \in Run : lease[q].runner = v /\ lease[q].state = "OPEN"
           /\ \A q \in Run :
                 /\ lease'[q].runner = lease[q].runner /\ lease'[q].epoch = lease[q].epoch
                 /\ \/ lease'[q].state = lease[q].state
                    \/ /\ lease[q].state = "OPEN" /\ lease'[q].state = "RELEASED"
                       /\ \A v \in Runner :
                             lease[q].runner = v => runner'[v].status = "QUARANTINED"
<1> DEFINE due == {r \in Run : lease[r].state = "OPEN" /\ lease[r].due}
<1>1. \A q \in Run :
         /\ Closed(lease[q], "RELEASED").runner = lease[q].runner
         /\ Closed(lease[q], "RELEASED").epoch = lease[q].epoch
         /\ Closed(lease[q], "RELEASED").state = "RELEASED"
  BY ClosedFields DEF TypeOK
<1>2. \A q \in Run : lease'[q] = IF q \in due THEN Closed(lease[q], "RELEASED") ELSE lease[q]
  BY DEF FenceExpired
<1>3. \A v \in Runner :
         runner'[v] = IF \E r \in due : lease[r].runner = v
                      THEN [runner[v] EXCEPT !.status = "QUARANTINED"] ELSE runner[v]
  BY DEF FenceExpired
<1>4. \A v \in Runner :
         LET row == [runner[v] EXCEPT !.status = "QUARANTINED"]
         IN  row.epoch = runner[v].epoch /\ row.revoked = runner[v].revoked
                /\ row.status = "QUARANTINED"
  BY DEF TypeOK, RunnerRow
<1>5. \A q \in Run :
         /\ lease'[q].runner = lease[q].runner /\ lease'[q].epoch = lease[q].epoch
         /\ \/ q \notin due /\ lease'[q].state = lease[q].state
            \/ q \in due /\ lease[q].state = "OPEN" /\ lease'[q].state = "RELEASED"
  BY <1>1, <1>2
<1>6. \A v \in Runner :
         /\ runner'[v].epoch = runner[v].epoch /\ runner'[v].revoked = runner[v].revoked
         /\ \/ runner'[v].status = runner[v].status
            \/ /\ \E q \in due : lease[q].runner = v
               /\ runner'[v].status = "QUARANTINED"
         /\ (\E q \in due : lease[q].runner = v) => runner'[v].status = "QUARANTINED"
  BY <1>3, <1>4
<1>7. \A q \in due : q \in Run /\ lease[q].state = "OPEN"
  OBVIOUS
<1>8. LibraryCalls /\ UNCHANGED <<runs, actions, reader, observer, hand, revoking>>
  BY DEF FenceExpired
<1> HIDE DEF due
<1> QED
  BY <1>5, <1>6, <1>7, <1>8

\* A lease is issued at the row's next epoch, to a queued run, on a free desktop.
LEMMA AdmitLeaseEffect ==
    ASSUME TypeOK, NEW w \in Runner, NEW r \in Run, AdmitLease(w, r)
    PROVE  /\ UNCHANGED <<actions, reader, observer, hand, revoking>>
           /\ ~runner[w].revoked /\ runner[w].status = "READY" /\ OpenOnDesk(w) = {}
           /\ runner[w].epoch + 1 \in 1..MaxEpoch
           /\ \A v \in Runner : v # w => runner'[v] = runner[v]
           /\ runner'[w].epoch = runner[w].epoch + 1 /\ runner'[w].status = "BUSY"
           /\ runner'[w].revoked = runner[w].revoked
           /\ \A q \in Run : q # r => lease'[q] = lease[q] /\ runs'[q] = runs[q]
           /\ lease'[r].runner = w /\ lease'[r].epoch = runner[w].epoch + 1
           /\ lease'[r].state = "OPEN"
           /\ runs[r].status = "QUEUED" /\ MayAdmitToDesktop(runs[r], runner[w].epoch + 1)
           /\ runs'[r] = AdmittedToDesktop(runs[r], runner[w].epoch + 1)
<1>1. runner[w].epoch \in Nat /\ NextEpoch(w) = runner[w].epoch + 1 /\ MaxEpoch \in Nat
  BY RunnerRowOf, ControlAssumption DEF TypeOK, NextEpoch
<1>2. runner' = Leased(w, NextEpoch(w))
  BY DEF AdmitLease, Leased
<1>3. /\ \A v \in Runner : v # w => runner'[v] = runner[v]
      /\ runner'[w].epoch = runner[w].epoch + 1 /\ runner'[w].status = "BUSY"
      /\ runner'[w].revoked = runner[w].revoked
  BY <1>1, <1>2, LeasedFields
<1>4. /\ \A q \in Run : q # r => lease'[q] = lease[q]
      /\ lease'[r].runner = w /\ lease'[r].epoch = runner[w].epoch + 1
      /\ lease'[r].state = "OPEN"
  BY <1>1 DEF AdmitLease, TypeOK
<1>5. /\ \A q \in Run : q # r => runs'[q] = runs[q]
      /\ runs'[r] = AdmittedToDesktop(runs[r], runner[w].epoch + 1)
  BY <1>1 DEF AdmitLease, TypeOK
<1>6. /\ UNCHANGED <<actions, reader, observer, hand, revoking>>
      /\ ~runner[w].revoked /\ runner[w].status = "READY" /\ OpenOnDesk(w) = {}
      /\ runner[w].epoch + 1 \in 1..MaxEpoch
      /\ MayAdmitToDesktop(runs[r], runner[w].epoch + 1)
  BY <1>1 DEF AdmitLease, Leasable, InService
<1> QED
  BY <1>3, <1>4, <1>5, <1>6 DEF MayAdmitToDesktop

\* A lease is closed by an acknowledged stop, at a row that is not quarantined.
StopStep(r) == LeaseStopAcknowledged(r) \/ \E t \in Times : Finish(r, t)

\* Either way the lease becomes STOPPED, with nothing in the journal unresolved, and the
\* row asks for a preflight; finish_session moves the run as well.
LEMMA StopStepEffect ==
    ASSUME TypeOK, NEW r \in Run, StopStep(r)
    PROVE  /\ UNCHANGED <<actions, reader, observer, hand, revoking>>
           /\ lease[r].state = "OPEN" /\ lease'[r].state = "STOPPED"
           /\ lease'[r].runner = lease[r].runner /\ lease'[r].epoch = lease[r].epoch
           /\ \A q \in Run : q # r => lease'[q] = lease[q] /\ runs'[q] = runs[q]
           /\ runner' = RowBecomes(lease[r].runner, "PREFLIGHT_REQUIRED")
           /\ runner[lease[r].runner].status # "QUARANTINED"
           /\ ~Unresolved(r)
           /\ \/ LibraryCalls /\ runs' = runs
              \/ \E t \in Times :
                    /\ Live(r) /\ EvidenceTail(r)
                    /\ MayAcknowledgeStop(runs[r], lease[r].epoch)
                    /\ MayProgress(StopAcknowledged(runs[r], t, lease[r].epoch))
                    /\ runs'[r] = Progressed(StopAcknowledged(runs[r], t, lease[r].epoch))
<1>a. lease \in [Run -> LeaseRow] /\ lease[r] \in LeaseRow /\ runs \in [Run -> RunState]
  BY DEF TypeOK
<1>b. /\ Closed(lease[r], "STOPPED").runner = lease[r].runner
      /\ Closed(lease[r], "STOPPED").epoch = lease[r].epoch
      /\ Closed(lease[r], "STOPPED").state = "STOPPED"
  BY <1>a, ClosedFields
<1>1. CASE LeaseStopAcknowledged(r)
  BY <1>1, <1>a, <1>b DEF LeaseStopAcknowledged
<1>2. ASSUME NEW t \in Times, Finish(r, t)
      PROVE  /\ UNCHANGED <<actions, reader, observer, hand, revoking>>
             /\ lease[r].state = "OPEN" /\ lease'[r].state = "STOPPED"
             /\ lease'[r].runner = lease[r].runner /\ lease'[r].epoch = lease[r].epoch
             /\ \A q \in Run : q # r => lease'[q] = lease[q] /\ runs'[q] = runs[q]
             /\ runner' = RowBecomes(lease[r].runner, "PREFLIGHT_REQUIRED")
             /\ runner[lease[r].runner].status # "QUARANTINED"
             /\ ~Unresolved(r)
             /\ Live(r) /\ EvidenceTail(r)
             /\ MayAcknowledgeStop(runs[r], lease[r].epoch)
             /\ MayProgress(StopAcknowledged(runs[r], t, lease[r].epoch))
             /\ runs'[r] = Progressed(StopAcknowledged(runs[r], t, lease[r].epoch))
  <2>1. lease' = [lease EXCEPT ![r] = Closed(@, "STOPPED")]
    BY <1>2 DEF Finish
  <2>2. lease[r].state = "OPEN" /\ runner[lease[r].runner].status # "QUARANTINED"
    BY <1>2 DEF Finish, Live, DispatchReady
  <2>3. ~Unresolved(r)
    BY <1>2 DEF Finish, EvidenceTail, Unresolved, AwaitsResult
  <2>4. /\ UNCHANGED <<actions, reader, observer, hand, revoking>>
        /\ runner' = RowBecomes(lease[r].runner, "PREFLIGHT_REQUIRED")
        /\ Live(r) /\ EvidenceTail(r)
        /\ MayAcknowledgeStop(runs[r], lease[r].epoch)
        /\ MayProgress(StopAcknowledged(runs[r], t, lease[r].epoch))
        /\ runs' = [runs EXCEPT ![r] = Progressed(StopAcknowledged(runs[r], t, lease[r].epoch))]
    BY <1>2 DEF Finish
  <2> QED
    BY <1>a, <1>b, <2>1, <2>2, <2>3, <2>4
<1> QED
  BY <1>1, <1>2 DEF StopStep

\* An interruption, row by row; the first alternative is the refused handoff.
LEMMA InterruptionRows ==
    ASSUME TypeOK, LeaseInv, NEW r \in Run, Interruption(r)
    PROVE  /\ UNCHANGED <<reader, observer, hand, revoking>>
           /\ \/ UNCHANGED <<runs, runner, lease, actions>>
              \/ /\ lease[r].state # "NONE" /\ NonTerminal(runs[r])
                 /\ runs'[r] = Interrupted(runs[r])
                 /\ \A q \in Run : q # r => runs'[q] = runs[q] /\ lease'[q] = lease[q]
                                               /\ actions'[q] = actions[q]
                 /\ lease'[r].runner = lease[r].runner /\ lease'[r].epoch = lease[r].epoch
                 /\ lease'[r].state = IF lease[r].state = "OPEN" THEN "RELEASED"
                                      ELSE lease[r].state
                 /\ \A v \in Runner :
                       /\ runner'[v].epoch = runner[v].epoch
                       /\ runner'[v].revoked = runner[v].revoked
                       /\ runner'[v].status = IF v = lease[r].runner THEN "QUARANTINED"
                                              ELSE runner[v].status
                       /\ v # lease[r].runner => runner'[v] = runner[v]
                 /\ \/ UNCHANGED actions
                    \/ /\ LastIs(r, {"INTENT", "DISPATCHED"})
                       /\ actions' = LastBecomes(r, "AMBIGUOUS")
                 /\ \/ runner[lease[r].runner].epoch = lease[r].epoch
                    \/ LibraryCalls /\ LastIs(r, {"INTENT", "DISPATCHED"})
<1>1. CASE UNCHANGED <<runs, runner, lease, actions>>
  BY <1>1, InterruptionEffect
<1>2. CASE ~UNCHANGED <<runs, runner, lease, actions>>
  <2>1. /\ runs' = [runs EXCEPT ![r] = Interrupted(@)]
        /\ runner' = Quarantine(lease[r].runner)
        /\ lease' = Released(r)
        /\ NonTerminal(runs[r])
        /\ \/ UNCHANGED actions
           \/ LastIs(r, {"INTENT", "DISPATCHED"}) /\ actions' = LastBecomes(r, "AMBIGUOUS")
        /\ \/ lease[r].state # "NONE" /\ runner[lease[r].runner].epoch = lease[r].epoch
           \/ LibraryCalls /\ LastIs(r, {"INTENT", "DISPATCHED"})
        /\ UNCHANGED <<reader, observer, hand, revoking>>
    BY <1>2, InterruptionEffect
  <2>2. lease[r].state # "NONE"
    BY <2>1 DEF LeaseInv, QueueAndLease, LastIs, Count
  <2>3. \A q \in Run : q # r => actions'[q] = actions[q]
    BY <2>1, JournalChanges DEF LastIs, ActionState
  <2>4. \A q \in Run : q # r => runs'[q] = runs[q] /\ lease'[q] = lease[q]
    BY <2>1, ReleasedFields DEF TypeOK
  <2>5. runs'[r] = Interrupted(runs[r])
    BY <2>1 DEF TypeOK
  <2>6. /\ lease'[r].runner = lease[r].runner /\ lease'[r].epoch = lease[r].epoch
        /\ lease'[r].state = IF lease[r].state = "OPEN" THEN "RELEASED" ELSE lease[r].state
    BY <2>1, ReleasedFields
  <2>7. \A v \in Runner :
           /\ runner'[v].epoch = runner[v].epoch
           /\ runner'[v].revoked = runner[v].revoked
           /\ runner'[v].status = IF v = lease[r].runner THEN "QUARANTINED" ELSE runner[v].status
           /\ v # lease[r].runner => runner'[v] = runner[v]
    BY <2>1, StatusSet DEF Quarantine, RunnerStatus
  <2> QED
    BY <2>1, <2>2, <2>3, <2>4, <2>5, <2>6, <2>7
<1> QED
  BY <1>1, <1>2

-----------------------------------------------------------------------------
(* Leases and rows agree.                                                  *)

\* The first state satisfies the lease invariant: nothing is leased.
LEMMA LeaseInit == Init => LeaseInv
BY DEF Init, NewRun, LeaseInv, QueueAndLease, LeaseNamesRow, OpenIsNewest, EpochsDiffer,
   OneLeasePerDesk

\* The lease invariant survives every step that keeps rows, leases and epochs and
\* sends no run back to the queue.
LEMMA LeaseKept ==
    ASSUME TypeOK, LeaseInv, UNCHANGED runner,
           \A q \in Run : SameLease(q) /\ runs'[q].epoch = runs[q].epoch,
           \A q \in Run : runs'[q].status = "QUEUED" => runs[q].status = "QUEUED",
           \A q \in Run : lease[q].state = "NONE" =>
              /\ actions'[q] = actions[q] /\ hand'[q] = hand[q]
              /\ runs'[q].status \in {"QUEUED", "CANCELLED"}
    PROVE  LeaseInv'
<1>1. QueueAndLease'
  BY DEF LeaseInv, QueueAndLease, SameLease
<1>2. LeaseNamesRow'
  BY DEF LeaseInv, LeaseNamesRow, SameLease
<1>3. OpenIsNewest'
  BY DEF LeaseInv, OpenIsNewest, SameLease
<1>4. EpochsDiffer'
  BY DEF LeaseInv, EpochsDiffer, SameLease
<1>5. OneLeasePerDesk'
  BY DEF LeaseInv, OneLeasePerDesk, SameLease, SameDesk
<1> QED
  BY <1>1, <1>2, <1>3, <1>4, <1>5 DEF LeaseInv

\* The session's steps act for a run whose lease is open, or settle its hand.
LEMMA JournalStepEffect ==
    ASSUME TypeOK, NEW r \in Run, JournalStep(r)
    PROVE  /\ UNCHANGED <<runs, runner, lease, revoking>>
           /\ lease[r].state = "OPEN" \/ hand[r] = "ACTING"
           /\ \A q \in Run : q # r =>
                 /\ actions'[q] = actions[q] /\ hand'[q] = hand[q]
                 /\ reader'[q] = reader[q] /\ observer'[q] = observer[q]
<1>1. CASE Settle(r)
  BY <1>1 DEF Settle, TypeOK
<1>2. CASE Observe(r)
  BY <1>2 DEF Observe, Live, DispatchReady, TypeOK
<1>3. CASE FinalSample(r)
  BY <1>3 DEF FinalSample, Live, DispatchReady, TypeOK
<1>4. ASSUME NEW b \in BOOLEAN, Intent(r, b)
      PROVE  /\ UNCHANGED <<runs, runner, lease, revoking, hand, reader, observer>>
             /\ lease[r].state = "OPEN"
             /\ \A q \in Run : q # r => actions'[q] = actions[q]
  BY <1>4 DEF Intent, Live, DispatchReady, TypeOK
<1>5. ASSUME NEW b \in BOOLEAN, CommitDispatch(r, b)
      PROVE  /\ UNCHANGED <<runs, runner, lease, revoking, reader, observer>>
             /\ lease[r].state = "OPEN"
             /\ \A q \in Run : q # r => actions'[q] = actions[q] /\ hand'[q] = hand[q]
  <2>1. \A q \in Run : q # r => actions'[q] = actions[q]
    BY <1>5, JournalChanges DEF CommitDispatch, LastIs, ActionState
  <2> QED
    BY <1>5, <2>1 DEF CommitDispatch, Live, DispatchReady, TypeOK
<1>6. ASSUME NEW state \in {"SUCCEEDED", "FAILED"}, CompleteAction(r, state)
      PROVE  /\ UNCHANGED <<runs, runner, lease, revoking, reader, observer>>
             /\ lease[r].state = "OPEN"
             /\ \A q \in Run : q # r => actions'[q] = actions[q] /\ hand'[q] = hand[q]
  <2>1. \A q \in Run : q # r => actions'[q] = actions[q]
    BY <1>6, JournalChanges DEF CompleteAction, LastIs, ActionState
  <2> QED
    BY <1>6, <2>1 DEF CompleteAction, Live, DispatchReady, TypeOK
<1> QED
  BY <1>1, <1>2, <1>3, <1>4, <1>5, <1>6 DEF JournalStep

\* A step on a run row keeps its epoch and never returns it to the queue.
LEMMA RunStepRows ==
    ASSUME TypeOK, LeaseInv, NEW r \in Run, RunStep(r)
    PROVE  /\ UNCHANGED <<runner, lease, actions, reader, observer, hand, revoking>>
           /\ \A q \in Run : q # r => runs'[q] = runs[q]
           /\ runs'[r].epoch = runs[r].epoch
           /\ runs'[r].status = "QUEUED" => runs[r].status = "QUEUED"
           /\ lease[r].state = "NONE" => runs'[r].status \in {"QUEUED", "CANCELLED"}
<1>a. runs \in [Run -> RunState]
  BY DEF TypeOK
<1>c. runs[r] \in RunState
  BY DEF TypeOK
<1>d. lease[r].epoch \in Nat
  BY DEF TypeOK, LeaseRow
<1>b. lease[r].state = "NONE" => runs[r].status \in {"QUEUED", "CANCELLED"}
  BY DEF LeaseInv, QueueAndLease
<1>1. CASE Dispatch(r)
  <2>0. runs[r].status = "LEASED"
    BY <1>1 DEF Dispatch, DispatchReady
  <2>1. MayProgress(runs[r]) /\ runs'[r] = Progressed(runs[r])
    BY <1>1, <1>a DEF Dispatch
  <2>2. /\ runs'[r].epoch = runs[r].epoch
        /\ \/ runs[r].status = "QUEUED" /\ runs'[r].status = "LEASED"
           \/ runs[r].status = "LEASED" /\ runs'[r].status = "RUNNING"
           \/ runs[r].status = "RUNNING" /\ runs'[r].status = "FINALIZING"
    BY <1>c, <2>1, ProgressedFields
  <2> QED
    BY <1>1, <1>a, <1>b, <2>0, <2>2 DEF Dispatch
<1>2. CASE TerminalizeCancellation(r)
  <2>1. runs'[r] = Cancelled(runs[r])
    BY <1>2, <1>a DEF TerminalizeCancellation
  <2>2. runs'[r].status = "CANCELLED" /\ runs'[r].epoch = runs[r].epoch
    BY <1>c, <2>1, CancelledFields
  <2> QED
    BY <1>2, <1>a, <2>2 DEF TerminalizeCancellation
<1>3. ASSUME NEW t \in Times, RequestCancel(r, t)
      PROVE  /\ UNCHANGED <<runner, lease, actions, reader, observer, hand, revoking>>
             /\ \A q \in Run : q # r => runs'[q] = runs[q]
             /\ runs'[r].epoch = runs[r].epoch /\ runs'[r].status = runs[r].status
  <2>1. runs'[r] = CancellationRequestedAt(runs[r], t) /\ ~CancellationRequested(runs[r])
    BY <1>3, <1>a DEF RequestCancel
  <2>2. runs'[r].epoch = runs[r].epoch /\ runs'[r].status = runs[r].status
    BY <1>c, <2>1, FirstRequestFields, ControlAssumption
  <2> QED
    BY <1>3, <1>a, <2>2 DEF RequestCancel
<1>4. ASSUME NEW t \in Times, AcknowledgeRunStop(r, t)
      PROVE  /\ UNCHANGED <<runner, lease, actions, reader, observer, hand, revoking>>
             /\ \A q \in Run : q # r => runs'[q] = runs[q]
             /\ runs'[r].epoch = runs[r].epoch /\ runs'[r].status = runs[r].status
  <2>1. PICK e \in Nat : e = lease[r].epoch
    BY <1>d
  <2>2. runs'[r] = StopAcknowledged(runs[r], t, e) /\ t \in Nat
    BY <1>4, <1>a, <2>1, ControlAssumption DEF AcknowledgeRunStop
  <2>3. runs'[r].epoch = runs[r].epoch /\ runs'[r].status = runs[r].status
    BY <1>c, <2>2, StopAcknowledgedFields
  <2> QED
    BY <1>4, <1>a, <2>3 DEF AcknowledgeRunStop
<1>5. ASSUME NEW o \in Evaluated, Finalize(r, o)
      PROVE  /\ UNCHANGED <<runner, lease, actions, reader, observer, hand, revoking>>
             /\ \A q \in Run : q # r => runs'[q] = runs[q]
             /\ runs'[r].epoch = runs[r].epoch /\ runs'[r].status = "COMPLETED"
             /\ runs[r].status = "FINALIZING"
  <2>1. runs'[r] = Completed(runs[r], o) /\ runs[r].status = "FINALIZING"
    BY <1>5, <1>a DEF Finalize, MayComplete
  <2>2. runs'[r].epoch = runs[r].epoch /\ runs'[r].status = "COMPLETED"
    BY <1>c, <2>1, CompletedFields DEF Evaluated, Outcome
  <2> QED
    BY <1>5, <1>a, <2>1, <2>2 DEF Finalize
<1> QED
  BY <1>1, <1>2, <1>3, <1>4, <1>5, <1>b DEF RunStep

\* Row operations: a leased row is enrolled and its status changes only to
\* QUARANTINED, or to OFFLINE with the row revoked.
LEMMA LeaseRowStep ==
    ASSUME TypeOK, LeaseInv, NEW w \in Runner, RowStep(w)
    PROVE  LeaseInv'
<1> USE RowStepEffect
<1>1. QueueAndLease'
  BY DEF LeaseInv, QueueAndLease
<1>2. LeaseNamesRow'
  BY DEF LeaseInv, LeaseNamesRow
<1>3. OpenIsNewest'
  BY DEF LeaseInv, LeaseNamesRow, OpenIsNewest
<1>4. EpochsDiffer' /\ OneLeasePerDesk'
  BY DEF LeaseInv, EpochsDiffer, OneLeasePerDesk
<1> QED
  BY <1>1, <1>2, <1>3, <1>4 DEF LeaseInv

\* A reset closes the leases of the row it resets and no other.
LEMMA LeaseReset ==
    ASSUME TypeOK, LeaseInv, NEW w \in Runner, NEW proved \in BOOLEAN, Reset(w, proved)
    PROVE  LeaseInv'
<1> USE ResetEffect
<1>1. QueueAndLease'
  BY DEF LeaseInv, QueueAndLease
<1>2. LeaseNamesRow'
  BY DEF LeaseInv, LeaseNamesRow
<1>3. OpenIsNewest'
  BY DEF LeaseInv, LeaseNamesRow, OpenIsNewest
<1>4. EpochsDiffer'
  BY DEF LeaseInv, EpochsDiffer
<1>5. OneLeasePerDesk'
  BY DEF LeaseInv, OneLeasePerDesk, SameDesk
<1> QED
  BY <1>1, <1>2, <1>3, <1>4, <1>5 DEF LeaseInv

\* A new lease is the row's first at its epoch and the desktop's only open one.
LEMMA LeaseAdmit ==
    ASSUME TypeOK, LeaseInv, NEW w \in Runner, NEW r \in Run, AdmitLease(w, r)
    PROVE  LeaseInv'
<1>a. runner[w].epoch \in Nat /\ MaxEpoch \in Nat
  BY RunnerRowOf, ControlAssumption DEF TypeOK
<1>b. \A q \in Run : lease[q].state = "OPEN" => ~SameDesk(lease[q].runner, w)
  BY AdmitLeaseEffect DEF OpenOnDesk
<1>c. \A q \in Run : lease[q].state = "OPEN" => lease[q].runner # w
  BY <1>b DEF SameDesk
<1>d. lease[r].state = "NONE"
  BY AdmitLeaseEffect DEF LeaseInv, QueueAndLease
<1>e. /\ runs'[r].status = "LEASED" /\ runs'[r].epoch = runner[w].epoch + 1
  <2>1. PICK e \in Nat : e = runner[w].epoch + 1
    BY <1>a
  <2>2. runs[r] \in RunState /\ runs'[r] = AdmittedToDesktop(runs[r], e)
    BY <2>1, AdmitLeaseEffect DEF TypeOK
  <2>3. runs'[r].status = "LEASED" /\ runs'[r].epoch = e
    BY <2>2, AdmittedFields
  <2> QED
    BY <2>1, <2>3
<1>f. \A q \in Run : lease[q].epoch \in Nat
  BY DEF TypeOK, LeaseRow
<1>1. QueueAndLease'
  BY <1>e, AdmitLeaseEffect DEF LeaseInv, QueueAndLease
<1>2. LeaseNamesRow'
  <2> SUFFICES ASSUME NEW q \in Run, lease'[q].state # "NONE"
               PROVE  /\ lease'[q].runner \in Runner
                      /\ runner'[lease'[q].runner].status # "ABSENT"
                      /\ lease'[q].epoch \in 1..MaxEpoch
                      /\ lease'[q].epoch <= runner'[lease'[q].runner].epoch
                      /\ runs'[q].epoch = lease'[q].epoch
    BY DEF LeaseNamesRow
  <2>1. CASE q = r
    BY <1>a, <1>e, <2>1, AdmitLeaseEffect
  <2>2. CASE q # r
    BY <1>a, <1>f, <2>2, AdmitLeaseEffect DEF LeaseInv, LeaseNamesRow
  <2> QED
    BY <2>1, <2>2
<1>3. OpenIsNewest'
  BY <1>c, AdmitLeaseEffect DEF LeaseInv, LeaseNamesRow, OpenIsNewest
<1>4. EpochsDiffer'
  <2>1. \A q \in Run : lease[q].state # "NONE" /\ lease[q].runner = w =>
           lease[q].epoch # runner[w].epoch + 1
    BY <1>a, <1>f DEF LeaseInv, LeaseNamesRow
  <2> QED
    BY <2>1, AdmitLeaseEffect DEF LeaseInv, EpochsDiffer
<1>5. OneLeasePerDesk'
  BY <1>b, AdmitLeaseEffect DEF LeaseInv, OneLeasePerDesk, SameDesk
<1> QED
  BY <1>1, <1>2, <1>3, <1>4, <1>5 DEF LeaseInv

\* The expiry sweep only closes leases and only quarantines.
LEMMA LeaseFence ==
    ASSUME TypeOK, LeaseInv, FenceExpired
    PROVE  LeaseInv'
<1> USE FenceExpiredEffect
<1>1. QueueAndLease'
  BY DEF LeaseInv, QueueAndLease
<1>2. LeaseNamesRow'
  BY DEF LeaseInv, LeaseNamesRow
<1>3. OpenIsNewest'
  BY DEF LeaseInv, LeaseNamesRow, OpenIsNewest
<1>4. EpochsDiffer'
  BY DEF LeaseInv, EpochsDiffer
<1>5. OneLeasePerDesk'
  BY DEF LeaseInv, OneLeasePerDesk, SameDesk
<1> QED
  BY <1>1, <1>2, <1>3, <1>4, <1>5 DEF LeaseInv

\* An interruption closes at most its own lease and quarantines that lease's row.
LEMMA LeaseInterruption ==
    ASSUME TypeOK, LeaseInv, NEW r \in Run, Interruption(r)
    PROVE  LeaseInv'
<1>1. CASE UNCHANGED <<runs, runner, lease, actions>>
  BY <1>1, InterruptionRows DEF LeaseInv, QueueAndLease, LeaseNamesRow, OpenIsNewest,
     EpochsDiffer, OneLeasePerDesk
<1>2. CASE ~UNCHANGED <<runs, runner, lease, actions>>
  <2>a. runs'[r].status = "INTERRUPTED" /\ runs'[r].epoch = runs[r].epoch
    <3>1. runs[r] \in RunState /\ runs'[r] = Interrupted(runs[r])
      BY <1>2, InterruptionRows DEF TypeOK
    <3> QED
      BY <3>1, InterruptedFields
  <2>1. QueueAndLease'
    BY <1>2, <2>a, InterruptionRows DEF LeaseInv, QueueAndLease
  <2>2. LeaseNamesRow'
    BY <1>2, <2>a, InterruptionRows DEF LeaseInv, LeaseNamesRow
  <2>3. OpenIsNewest'
    BY <1>2, InterruptionRows DEF LeaseInv, LeaseNamesRow, OpenIsNewest
  <2>4. EpochsDiffer'
    BY <1>2, InterruptionRows DEF LeaseInv, EpochsDiffer
  <2>5. OneLeasePerDesk'
    BY <1>2, InterruptionRows DEF LeaseInv, OneLeasePerDesk, SameDesk
  <2> QED
    BY <2>1, <2>2, <2>3, <2>4, <2>5 DEF LeaseInv
<1> QED
  BY <1>1, <1>2

\* What a stop does to the run: nothing, or finish_session's composite transition.
LEMMA StopStepRun ==
    ASSUME TypeOK, NEW r \in Run, StopStep(r)
    PROVE  /\ runs'[r].epoch = runs[r].epoch
           /\ \/ runs' = runs
              \/ /\ runs[r].status = "RUNNING" /\ runs'[r].status = "FINALIZING"
                 /\ EvidenceTail(r)
                 /\ runs'[r].revision = runs[r].revision + 2
                 /\ runs'[r].stopEpoch = lease[r].epoch /\ runs'[r].stopAt # NoTime
                 /\ runs'[r].cancelAt = runs[r].cancelAt
                 /\ runs'[r].unresolved = runs[r].unresolved
<1>1. CASE runs' = runs
  BY <1>1
<1>2. ASSUME NEW t \in Times,
             Live(r), EvidenceTail(r),
             MayProgress(StopAcknowledged(runs[r], t, lease[r].epoch)),
             runs'[r] = Progressed(StopAcknowledged(runs[r], t, lease[r].epoch))
      PROVE  /\ runs[r].status = "RUNNING" /\ runs'[r].status = "FINALIZING"
             /\ runs'[r].epoch = runs[r].epoch /\ EvidenceTail(r)
             /\ runs'[r].revision = runs[r].revision + 2
             /\ runs'[r].stopEpoch = lease[r].epoch /\ runs'[r].stopAt # NoTime
             /\ runs'[r].cancelAt = runs[r].cancelAt
             /\ runs'[r].unresolved = runs[r].unresolved
  <2>1. PICK e \in Nat, s \in RunState, u \in {runs'[r]} :
          e = lease[r].epoch /\ s = runs[r] /\ u = runs'[r]
    BY DEF TypeOK, LeaseRow
  <2>2. s.status = "RUNNING"
    BY <1>2, <2>1 DEF Live, DispatchReady
  <2>3. MayProgress(StopAcknowledged(s, t, e)) /\ u = Progressed(StopAcknowledged(s, t, e))
    BY <1>2, <2>1
  <2>4. t \in Nat /\ t # NoTime
    BY ControlAssumption DEF NoTime
  <2>5. /\ u.status = "FINALIZING" /\ u.epoch = s.epoch /\ u.revision = s.revision + 2
        /\ u.stopEpoch = e /\ u.stopAt = t /\ u.cancelAt = s.cancelAt
        /\ u.unresolved = s.unresolved
    BY <2>2, <2>3, <2>4, FinishedFields
  <2> QED
    BY <1>2, <2>1, <2>2, <2>4, <2>5
<1> QED
  BY <1>1, <1>2, StopStepEffect

\* A stop closes one lease; its row had no other open one.
LEMMA LeaseStop ==
    ASSUME TypeOK, LeaseInv, NEW r \in Run, StopStep(r)
    PROVE  LeaseInv'
<1>a. \A v \in Runner :
         /\ runner'[v].epoch = runner[v].epoch /\ runner'[v].revoked = runner[v].revoked
         /\ runner'[v].status = IF v = lease[r].runner THEN "PREFLIGHT_REQUIRED"
                                ELSE runner[v].status
  BY StopStepEffect, StatusSet DEF RunnerStatus
<1>b. \A q \in Run : q # r /\ lease[q].state = "OPEN" => lease[q].runner # lease[r].runner
  BY StopStepEffect DEF LeaseInv, OneLeasePerDesk, SameDesk
<1>c. /\ lease[r].state = "OPEN" /\ lease'[r].state = "STOPPED"
      /\ lease'[r].runner = lease[r].runner /\ lease'[r].epoch = lease[r].epoch
      /\ \A q \in Run : q # r => lease'[q] = lease[q] /\ runs'[q] = runs[q]
      /\ UNCHANGED <<actions, hand>>
  BY StopStepEffect
<1>1. QueueAndLease'
  BY <1>c, StopStepRun DEF LeaseInv, QueueAndLease
<1>2. LeaseNamesRow'
  BY <1>a, <1>c, StopStepRun DEF LeaseInv, LeaseNamesRow
<1>3. OpenIsNewest'
  BY <1>a, <1>b, <1>c DEF LeaseInv, LeaseNamesRow, OpenIsNewest
<1>4. EpochsDiffer'
  BY <1>c DEF LeaseInv, EpochsDiffer
<1>5. OneLeasePerDesk'
  BY <1>c DEF LeaseInv, OneLeasePerDesk, SameDesk
<1> QED
  BY <1>1, <1>2, <1>3, <1>4, <1>5 DEF LeaseInv

\* Every step keeps leases, rows and run rows in agreement.
LEMMA LeaseStep == TypeOK /\ LeaseInv /\ [Next]_vars => LeaseInv'
<1> SUFFICES ASSUME TypeOK, LeaseInv, [Next]_vars PROVE LeaseInv'
  OBVIOUS
<1>1. ASSUME NEW r \in Run, Housekeeping(r) PROVE LeaseInv'
  BY <1>1, HousekeepingEffect, LeaseKept DEF LeaseInv, QueueAndLease
<1>2. ASSUME NEW r \in Run, JournalStep(r) PROVE LeaseInv'
  <2>1. lease[r].state # "NONE"
    BY <1>2, JournalStepEffect DEF LeaseInv, QueueAndLease
  <2> QED
    BY <1>2, <2>1, JournalStepEffect, LeaseKept DEF LeaseInv, QueueAndLease, SameLease
<1>3. ASSUME NEW r \in Run, RunStep(r) PROVE LeaseInv'
  BY <1>3, RunStepRows, LeaseKept DEF LeaseInv, QueueAndLease, SameLease
<1>4. CASE UNCHANGED vars
  BY <1>4, LeaseKept DEF vars, LeaseInv, QueueAndLease, SameLease
<1>5. CASE Next
  BY <1>1, <1>2, <1>3, <1>5, NextCases, LeaseRowStep, LeaseReset, LeaseAdmit, LeaseFence,
     LeaseInterruption, LeaseStop DEF StopStep
<1> QED
  BY <1>4, <1>5

\* The lease invariant holds of every behaviour, retirement included.
LEMMA LeaseInvariance == Spec => [](TypeOK /\ LeaseInv)
<1>1. Init => LeaseInv
  BY LeaseInit
<1> QED
  BY <1>1, LeaseStep, TypeCorrectness, PTL DEF Spec

\* INV-10 across registrations: no physical desktop is leased twice at once.
THEOREM LeasedOnce == Spec => []OneLeasePerDesk
<1>1. LeaseInv => OneLeasePerDesk
  BY DEF LeaseInv
<1> QED
  BY <1>1, LeaseInvariance, PTL

-----------------------------------------------------------------------------
(* The journal.                                                            *)

\* A journal that a step leaves alone stays in order, unless its lease opens or
\* stops over an entry that is still open.
LEMMA JournalKept ==
    ASSUME TypeOK, NEW q \in Run, JournalOf(q), actions'[q] = actions[q],
           hand'[q] # "IDLE" => hand[q] # "IDLE",
           \/ lease'[q].state \in {lease[q].state, "RELEASED"}
           \/ lease[q].state = "OPEN" /\ lease'[q].state = "STOPPED" /\ ~Unresolved(q)
           \/ actions[q] = <<>>
    PROVE  JournalOf(q)'
<1>1. Count(q)' = Count(q) /\ Count(q) \in Nat
  BY DEF Count, TypeOK
<1>2. \A i \in 1..Count(q) : actions'[q][i] = actions[q][i]
  OBVIOUS
<1>3. \A S : LastIs(q, S)' <=> LastIs(q, S)
  BY DEF LastIs, LastAction, Count
<1>4. ~Unresolved(q) => ~LastIs(q, {"INTENT", "DISPATCHED"})
  BY <1>1 DEF Unresolved, LastIs, LastAction, AwaitsResult
<1>5. actions[q] = <<>> => ~LastIs(q, {"INTENT", "DISPATCHED"}) /\ ~LastIs(q, {"AMBIGUOUS"})
  BY DEF LastIs, Count
<1> QED
  BY <1>1, <1>2, <1>3, <1>4, <1>5 DEF JournalOf

\* Marking the newest entry keeps the journal in order if the mark suits the lease
\* and the hand.
LEMMA JournalMarked ==
    ASSUME TypeOK, NEW r \in Run, JournalOf(r), Count(r) > 0, NEW st \in ActionState,
           actions' = LastBecomes(r, st),
           hand'[r] # "IDLE" => st \in {"DISPATCHED", "AMBIGUOUS"},
           lease'[r].state \in {"OPEN", "STOPPED"} => st # "AMBIGUOUS",
           lease'[r].state # "STOPPED"
    PROVE  JournalOf(r)'
<1>1. Count(r)' = Count(r) /\ Count(r) \in Nat
  BY JournalChanges DEF Count, TypeOK
<1>2. \A i \in 1..Count(r) : i # Count(r) => actions'[r][i] = actions[r][i]
  BY JournalChanges
<1>3. actions'[r][Count(r)].state = st
  BY JournalChanges
<1>4. \A S : LastIs(r, S)' <=> st \in S
  BY <1>1, <1>3 DEF LastIs, LastAction
<1> QED
  BY <1>1, <1>2, <1>4 DEF JournalOf

\* Every step of a session keeps the journal in order: an intent is journaled only
\* behind settled entries that are no STOP.
LEMMA JournalSession ==
    ASSUME TypeOK, NEW r \in Run, JournalOf(r), JournalStep(r)
    PROVE  JournalOf(r)'
<1>a. actions \in [Run -> Seq(Action)] /\ Count(r) \in Nat /\ Count(r) = Len(actions[r])
  BY DEF TypeOK, Count
<1>b. lease' = lease
  BY JournalStepEffect
<1>1. CASE Settle(r) \/ Observe(r) \/ FinalSample(r)
  <2>1. actions' = actions /\ (hand'[r] # "IDLE" => hand[r] # "IDLE")
    BY <1>1 DEF Settle, Observe, FinalSample
  <2> QED
    BY <1>b, <2>1, JournalKept
<1>2. ASSUME NEW b \in BOOLEAN, Intent(r, b) PROVE JournalOf(r)'
  <2> DEFINE e == [stop |-> b, state |-> "INTENT"]
  <2>1. e \in Action /\ e.state = "INTENT"
    BY DEF Action
  <2>2. actions' = Grown(r, e)
    BY <1>2 DEF Intent, Grown
  <2> HIDE DEF e
  <2>3. /\ Count(r)' = Count(r) + 1
        /\ \A i \in 1..Count(r) : actions'[r][i] = actions[r][i]
        /\ actions'[r][Count(r) + 1] = e
    BY <2>1, <2>2, JournalGrows DEF Count
  <2>4. \A i \in 1..Count(r) :
           actions[r][i].state \in {"SUCCEEDED", "FAILED"} /\ ~actions[r][i].stop
    <3>1. \A i \in 1..Count(r) : actions[r][i] \in Action
      BY <1>a
    <3> QED
      BY <1>2, <3>1 DEF Intent, MayIntend, AwaitsResult, Action
  <2>5. lease[r].state = "OPEN" /\ hand' = hand
    BY <1>2 DEF Intent, Live, DispatchReady
  <2>6. hand[r] = "IDLE"
    <3>1. ~LastIs(r, {"DISPATCHED", "AMBIGUOUS"})
      BY <1>a, <2>4 DEF LastIs, LastAction
    <3> QED
      BY <3>1 DEF JournalOf
  <2>7. ~LastIs(r, {"AMBIGUOUS"})'
    BY <1>a, <2>1, <2>3 DEF LastIs, LastAction
  <2> QED
    BY <1>a, <1>b, <2>3, <2>4, <2>5, <2>6, <2>7 DEF JournalOf
<1>3. ASSUME NEW b \in BOOLEAN, CommitDispatch(r, b) PROVE JournalOf(r)'
  <2>1. actions' = LastBecomes(r, "DISPATCHED") /\ lease[r].state = "OPEN" /\ Count(r) > 0
    BY <1>3 DEF CommitDispatch, Live, DispatchReady, LastIs
  <2> QED
    BY <1>b, <2>1, JournalMarked DEF ActionState
<1>4. ASSUME NEW state \in {"SUCCEEDED", "FAILED"}, CompleteAction(r, state) PROVE JournalOf(r)'
  <2>1. /\ actions' = LastBecomes(r, state) /\ lease[r].state = "OPEN" /\ Count(r) > 0
        /\ hand'[r] = "IDLE"
    BY <1>4 DEF CompleteAction, Live, DispatchReady, LastIs, TypeOK
  <2> QED
    BY <1>b, <2>1, JournalMarked DEF ActionState
<1> QED
  BY <1>1, <1>2, <1>3, <1>4 DEF JournalStep

\* Every step keeps every journal in order.
LEMMA JournalStepInv == TypeOK /\ LeaseInv /\ JournalInv /\ [Next]_vars => JournalInv'
<1> SUFFICES ASSUME TypeOK, LeaseInv, JournalInv, [Next]_vars, NEW q \in Run
             PROVE  JournalOf(q)'
  BY DEF JournalInv
<1>0. JournalOf(q)
  BY DEF JournalInv
<1>1. ASSUME NEW w \in Runner, RowStep(w) PROVE JournalOf(q)'
  BY <1>0, <1>1, RowStepEffect, JournalKept
<1>2. ASSUME NEW w \in Runner, NEW proved \in BOOLEAN, Reset(w, proved) PROVE JournalOf(q)'
  <2>1. actions'[q] = actions[q] /\ lease'[q].state \in {lease[q].state, "RELEASED"}
        /\ hand'[q] \in {hand[q], "IDLE"}
    BY <1>2, ResetEffect
  <2> QED
    BY <1>0, <2>1, JournalKept
<1>3. ASSUME NEW w \in Runner, NEW r \in Run, AdmitLease(w, r) PROVE JournalOf(q)'
  <2>1. actions' = actions /\ hand' = hand
    BY <1>3, AdmitLeaseEffect
  <2>2. lease'[q].state = lease[q].state \/ actions[q] = <<>>
    BY <1>3, AdmitLeaseEffect DEF LeaseInv, QueueAndLease
  <2> QED
    BY <1>0, <2>1, <2>2, JournalKept
<1>4. CASE FenceExpired
  <2>1. actions' = actions /\ hand' = hand /\ lease'[q].state \in {lease[q].state, "RELEASED"}
    BY <1>4, FenceExpiredEffect
  <2> QED
    BY <1>0, <2>1, JournalKept
<1>5. ASSUME NEW r \in Run, Housekeeping(r) PROVE JournalOf(q)'
  <2>1. actions' = actions /\ hand' = hand /\ lease'[q].state = lease[q].state
    BY <1>5, HousekeepingEffect DEF SameLease
  <2> QED
    BY <1>0, <2>1, JournalKept
<1>6. ASSUME NEW r \in Run, JournalStep(r) PROVE JournalOf(q)'
  <2>1. CASE q = r
    BY <1>0, <1>6, <2>1, JournalSession
  <2>2. CASE q # r
    BY <1>0, <1>6, <2>2, JournalStepEffect, JournalKept
  <2> QED
    BY <2>1, <2>2
<1>7. ASSUME NEW r \in Run, RunStep(r) PROVE JournalOf(q)'
  <2>1. actions' = actions /\ hand' = hand /\ lease' = lease
    BY <1>7, RunStepRows
  <2> QED
    BY <1>0, <2>1, JournalKept
<1>8. ASSUME NEW r \in Run, Interruption(r) PROVE JournalOf(q)'
  <2>1. hand' = hand /\ lease'[q].state \in {lease[q].state, "RELEASED"}
    BY <1>8, InterruptionRows
  <2>2. CASE actions'[q] = actions[q]
    BY <1>0, <2>1, <2>2, JournalKept
  <2>3. CASE actions'[q] # actions[q]
    <3>1. /\ q = r /\ LastIs(r, {"INTENT", "DISPATCHED"}) /\ actions' = LastBecomes(r, "AMBIGUOUS")
          /\ lease'[r].state = IF lease[r].state = "OPEN" THEN "RELEASED" ELSE lease[r].state
      BY <1>8, <2>3, InterruptionRows
    <3>2. lease[r].state # "STOPPED"
      BY <1>0, <3>1 DEF JournalOf
    <3>3. lease'[r].state \notin {"OPEN", "STOPPED"} /\ Count(r) > 0
      BY <3>1, <3>2 DEF LastIs
    <3> QED
      BY <1>0, <3>1, <3>3, JournalMarked DEF ActionState
  <2> QED
    BY <2>2, <2>3
<1>9. ASSUME NEW r \in Run, StopStep(r) PROVE JournalOf(q)'
  <2>1. actions' = actions /\ hand' = hand
        /\ (\/ lease'[q] = lease[q]
            \/ q = r /\ lease[q].state = "OPEN" /\ lease'[q].state = "STOPPED" /\ ~Unresolved(q))
    BY <1>9, StopStepEffect
  <2> QED
    BY <1>0, <2>1, JournalKept
<1>10. CASE UNCHANGED vars
  BY <1>0, <1>10, JournalKept DEF vars
<1>11. CASE Next
  BY <1>1, <1>2, <1>3, <1>4, <1>5, <1>6, <1>7, <1>8, <1>9, <1>11, NextCases DEF StopStep
<1> QED
  BY <1>10, <1>11

-----------------------------------------------------------------------------
(* Endings are earned.                                                     *)

\* What a step on a run row writes into it.
LEMMA RunStepFields ==
    ASSUME TypeOK, NEW r \in Run, RunStep(r)
    PROVE  /\ runs'[r].revision = runs[r].revision + 1
           /\ \/ /\ runs[r].status = "LEASED" /\ runs'[r].status = "RUNNING"
                 /\ runs'[r].cancelAt = runs[r].cancelAt /\ runs'[r].stopAt = runs[r].stopAt
              \/ /\ NonTerminal(runs[r]) /\ runs'[r].status = "CANCELLED" /\ StopProved(r)
                 /\ runs'[r].cancelAt = runs[r].cancelAt /\ runs'[r].stopAt = runs[r].stopAt
              \/ /\ NonTerminal(runs[r]) /\ runs'[r].status = runs[r].status
                 /\ runs[r].cancelAt = NoTime /\ runs'[r].cancelAt # NoTime
                 /\ runs'[r].stopAt = runs[r].stopAt /\ runs'[r].stopEpoch = runs[r].stopEpoch
              \/ /\ NonTerminal(runs[r]) /\ runs'[r].status = runs[r].status
                 /\ lease[r].state = "STOPPED"
                 /\ runs[r].stopAt = NoTime /\ runs'[r].stopAt # NoTime
                 /\ runs'[r].stopEpoch = lease[r].epoch /\ runs'[r].cancelAt = runs[r].cancelAt
              \/ /\ runs[r].status = "FINALIZING" /\ runs'[r].status = "COMPLETED"
                 /\ runs'[r].cancelAt = runs[r].cancelAt /\ runs'[r].stopAt = runs[r].stopAt
                 /\ runs'[r].stopEpoch = runs[r].stopEpoch
<1>a. PICK s, u : s = runs[r] /\ u = runs'[r]
  OBVIOUS
<1>b. s \in RunState /\ runs \in [Run -> RunState]
  BY <1>a DEF TypeOK
<1>c. PICK e \in Nat : e = lease[r].epoch
  BY DEF TypeOK, LeaseRow
<1>d. \A t \in Times : t \in Nat /\ t # NoTime
  BY ControlAssumption DEF NoTime
<1>1. CASE Dispatch(r)
  <2>1. s.status = "LEASED"
    BY <1>1, <1>a DEF Dispatch, DispatchReady
  <2>2. MayProgress(s) /\ u = Progressed(s)
    BY <1>1, <1>a, <1>b DEF Dispatch
  <2>3. /\ u.revision = s.revision + 1 /\ u.cancelAt = s.cancelAt /\ u.stopAt = s.stopAt
        /\ s.status = "LEASED" => u.status = "RUNNING"
    BY <1>b, <2>2, ProgressedFields
  <2> QED
    BY <1>a, <2>1, <2>3
<1>2. CASE TerminalizeCancellation(r)
  <2>1. u = Cancelled(s) /\ StopProved(r) /\ NonTerminal(s)
    BY <1>2, <1>a, <1>b DEF TerminalizeCancellation, MayCancel
  <2>2. /\ u.revision = s.revision + 1 /\ u.cancelAt = s.cancelAt /\ u.stopAt = s.stopAt
        /\ u.status = "CANCELLED"
    BY <1>b, <2>1, CancelledFields
  <2> QED
    BY <1>a, <2>1, <2>2
<1>3. ASSUME NEW t \in Times, RequestCancel(r, t)
      PROVE  /\ NonTerminal(s) /\ s.cancelAt = NoTime
             /\ u.revision = s.revision + 1 /\ u.status = s.status /\ u.cancelAt # NoTime
             /\ u.stopAt = s.stopAt /\ u.stopEpoch = s.stopEpoch
  <2>1. u = CancellationRequestedAt(s, t) /\ ~CancellationRequested(s) /\ NonTerminal(s)
    BY <1>3, <1>a, <1>b DEF RequestCancel, MayRequestCancellation
  <2>2. /\ u.revision = s.revision + 1 /\ u.status = s.status /\ u.cancelAt = t
        /\ u.stopAt = s.stopAt /\ u.stopEpoch = s.stopEpoch
    BY <1>b, <1>d, <2>1, FirstRequestFields
  <2> QED
    BY <1>d, <2>1, <2>2 DEF CancellationRequested
<1>4. ASSUME NEW t \in Times, AcknowledgeRunStop(r, t)
      PROVE  /\ NonTerminal(s) /\ s.stopAt = NoTime /\ lease[r].state = "STOPPED"
             /\ u.revision = s.revision + 1 /\ u.status = s.status /\ u.stopAt # NoTime
             /\ u.stopEpoch = e /\ u.cancelAt = s.cancelAt
  <2>1. s.stopAt = NoTime /\ NonTerminal(s) /\ lease[r].state = "STOPPED"
    BY <1>4, <1>a DEF AcknowledgeRunStop, MayAcknowledgeStop
  <2>2. u = StopAcknowledged(s, t, e)
    BY <1>4, <1>a, <1>b, <1>c DEF AcknowledgeRunStop
  <2>3. /\ u.revision = s.revision + 1 /\ u.status = s.status /\ u.stopAt = t
        /\ u.stopEpoch = e /\ u.cancelAt = s.cancelAt
    BY ZenonT(60), <1>b, <1>d, <2>2, StopAcknowledgedFields
  <2> QED
    BY <1>d, <2>1, <2>3
<1>5. ASSUME NEW o \in Evaluated, Finalize(r, o)
      PROVE  /\ s.status = "FINALIZING" /\ u.status = "COMPLETED"
             /\ u.revision = s.revision + 1 /\ u.cancelAt = s.cancelAt
             /\ u.stopAt = s.stopAt /\ u.stopEpoch = s.stopEpoch
  <2>1. u = Completed(s, o) /\ s.status = "FINALIZING"
    BY <1>5, <1>a, <1>b DEF Finalize, MayComplete
  <2>2. /\ u.status = "COMPLETED" /\ u.revision = s.revision + 1 /\ u.cancelAt = s.cancelAt
        /\ u.stopAt = s.stopAt /\ u.stopEpoch = s.stopEpoch
    BY <1>b, <2>1, CompletedFields DEF Evaluated, Outcome
  <2> QED
    BY <2>1, <2>2
<1> QED
  BY <1>1, <1>2, <1>3, <1>4, <1>5, <1>a, <1>c DEF RunStep

\* An ending stays earned when its row, its lease and its evidence stay.
LEMMA EndKept ==
    ASSUME TypeOK, NEW q \in Run, EarnedEnd(q),
           runs'[q].status = runs[q].status, runs'[q].stopEpoch = runs[q].stopEpoch,
           lease'[q].epoch = lease[q].epoch,
           lease'[q].state = lease[q].state \/ lease[q].state = "OPEN",
           actions'[q] = actions[q], reader'[q] = reader[q], observer'[q] = observer[q]
    PROVE  EarnedEnd(q)'
<1>1. EvidenceTail(q)' <=> EvidenceTail(q)
  BY DEF EvidenceTail, LastIs, LastAction, Count
<1> QED
  BY <1>1 DEF EarnedEnd

\* Every step keeps every ending earned.
LEMMA EndStep ==
    TypeOK /\ LeaseInv /\ JournalInv /\ EarnedEnds /\ [Next]_vars => EarnedEnds'
<1> SUFFICES ASSUME TypeOK, LeaseInv, JournalInv, EarnedEnds, [Next]_vars, NEW q \in Run
             PROVE  EarnedEnd(q)'
  BY DEF EarnedEnds
<1>0. EarnedEnd(q) /\ JournalOf(q)
  BY DEF EarnedEnds, JournalInv
<1>1. ASSUME NEW w \in Runner, RowStep(w) PROVE EarnedEnd(q)'
  BY <1>0, <1>1, RowStepEffect, EndKept
<1>2. ASSUME NEW w \in Runner, NEW proved \in BOOLEAN, Reset(w, proved) PROVE EarnedEnd(q)'
  <2>1. /\ runs' = runs /\ actions' = actions /\ reader' = reader /\ observer' = observer
        /\ lease'[q].epoch = lease[q].epoch
        /\ lease'[q].state = lease[q].state \/ lease[q].state = "OPEN"
    BY <1>2, ResetEffect
  <2> QED
    BY <1>0, <2>1, EndKept
<1>3. ASSUME NEW w \in Runner, NEW r \in Run, AdmitLease(w, r) PROVE EarnedEnd(q)'
  <2>1. actions' = actions /\ reader' = reader /\ observer' = observer
    BY <1>3, AdmitLeaseEffect
  <2>2. CASE q # r
    BY <1>0, <1>3, <2>1, <2>2, AdmitLeaseEffect, EndKept
  <2>3. CASE q = r
    <3>1. PICK e \in Nat : e = runner[w].epoch + 1
      BY RunnerRowOf DEF TypeOK
    <3>2. runs[r] \in RunState /\ runs'[r] = AdmittedToDesktop(runs[r], e)
      BY <1>3, <3>1, AdmitLeaseEffect DEF TypeOK
    <3>3. runs'[r].status = "LEASED"
      BY <3>2, AdmittedFields
    <3> QED
      BY <2>3, <3>3 DEF EarnedEnd
  <2> QED
    BY <2>2, <2>3
<1>4. CASE FenceExpired
  <2>1. /\ runs' = runs /\ actions' = actions /\ reader' = reader /\ observer' = observer
        /\ lease'[q].epoch = lease[q].epoch
        /\ lease'[q].state = lease[q].state \/ lease[q].state = "OPEN"
    BY <1>4, FenceExpiredEffect
  <2> QED
    BY <1>0, <2>1, EndKept
<1>5. ASSUME NEW r \in Run, Housekeeping(r) PROVE EarnedEnd(q)'
  <2>1. /\ runs' = runs /\ actions' = actions /\ reader' = reader /\ observer' = observer
        /\ lease'[q].epoch = lease[q].epoch /\ lease'[q].state = lease[q].state
    BY <1>5, HousekeepingEffect DEF SameLease
  <2> QED
    BY <1>0, <2>1, EndKept
<1>6. ASSUME NEW r \in Run, JournalStep(r) PROVE EarnedEnd(q)'
  <2>1. CASE q # r
    BY <1>0, <1>6, <2>1, JournalStepEffect, EndKept
  <2>2. CASE q = r
    <3>1. lease' = lease /\ runs' = runs /\ (lease[r].state = "OPEN" \/ hand[r] = "ACTING")
      BY <1>6, JournalStepEffect
    <3>2. lease[q].state # "STOPPED"
      <4>1. lease[q].state = "STOPPED" /\ hand[q] = "ACTING" =>
               /\ LastIs(q, {"DISPATCHED", "AMBIGUOUS"}) /\ ~LastIs(q, {"AMBIGUOUS"})
               /\ ~LastIs(q, {"INTENT", "DISPATCHED"})
        BY <1>0 DEF JournalOf
      <4> QED
        BY <2>2, <3>1, <4>1 DEF LastIs
    <3> QED
      BY <1>0, <3>1, <3>2 DEF EarnedEnd
  <2> QED
    BY <2>1, <2>2
<1>7. ASSUME NEW r \in Run, RunStep(r) PROVE EarnedEnd(q)'
  <2>1. lease' = lease /\ actions' = actions /\ reader' = reader /\ observer' = observer
    BY <1>7, RunStepRows
  <2>2. CASE q # r
    BY <1>0, <1>7, <2>1, <2>2, RunStepRows, EndKept
  <2>3. CASE q = r
    <3>1. EvidenceTail(r)' <=> EvidenceTail(r)
      BY <2>1 DEF EvidenceTail, LastIs, LastAction, Count
    <3>2. StopProved(r) => lease[r].state \in {"NONE", "STOPPED"}
      BY DEF StopProved
    <3>3. NonTerminal(runs[r]) => runs[r].status \notin {"COMPLETED", "CANCELLED"}
      BY DEF NonTerminal, Terminal
    <3> QED
      BY <1>0, <1>7, <2>1, <2>3, <3>1, <3>2, <3>3, RunStepFields DEF EarnedEnd
  <2> QED
    BY <2>2, <2>3
<1>8. ASSUME NEW r \in Run, Interruption(r) PROVE EarnedEnd(q)'
  <2>0. reader' = reader /\ observer' = observer
    BY <1>8, InterruptionRows
  <2>1. CASE UNCHANGED <<runs, runner, lease, actions>>
    BY <1>0, <2>0, <2>1, EndKept
  <2>2. CASE ~UNCHANGED <<runs, runner, lease, actions>> /\ q # r
    BY <1>0, <1>8, <2>0, <2>2, InterruptionRows, EndKept
  <2>3. CASE ~UNCHANGED <<runs, runner, lease, actions>> /\ q = r
    <3>1. runs[r] \in RunState /\ runs'[r] = Interrupted(runs[r])
      BY <1>8, <2>3, InterruptionRows DEF TypeOK
    <3>2. runs'[r].status = "INTERRUPTED"
      BY <3>1, InterruptedFields
    <3> QED
      BY <2>3, <3>2 DEF EarnedEnd
  <2> QED
    BY <2>1, <2>2, <2>3
<1>9. ASSUME NEW r \in Run, StopStep(r) PROVE EarnedEnd(q)'
  <2>1. /\ actions' = actions /\ reader' = reader /\ observer' = observer
        /\ lease[r].state = "OPEN" /\ lease'[r].state = "STOPPED"
        /\ lease'[r].epoch = lease[r].epoch
        /\ \A p \in Run : p # r => lease'[p] = lease[p] /\ runs'[p] = runs[p]
    BY <1>9, StopStepEffect
  <2>2. CASE q # r \/ runs' = runs
    BY <1>0, <2>1, <2>2, EndKept
  <2>3. CASE q = r /\ runs' # runs
    <3>1. /\ runs'[r].status = "FINALIZING" /\ EvidenceTail(r)
          /\ runs'[r].stopEpoch = lease[r].epoch
      BY <1>9, <2>3, StopStepRun
    <3>2. EvidenceTail(r)' <=> EvidenceTail(r)
      BY <2>1 DEF EvidenceTail, LastIs, LastAction, Count
    <3> QED
      BY <2>1, <2>3, <3>1, <3>2 DEF EarnedEnd
  <2> QED
    BY <2>2, <2>3
<1>10. CASE UNCHANGED vars
  BY <1>0, <1>10, EndKept DEF vars
<1>11. CASE Next
  BY <1>1, <1>2, <1>3, <1>4, <1>5, <1>6, <1>7, <1>8, <1>9, <1>11, NextCases DEF StopStep
<1> QED
  BY <1>10, <1>11

\* Types, leases, journals and endings hold of every behaviour.
LEMMA ControlInvariance == Spec => [](TypeOK /\ LeaseInv /\ JournalInv /\ EarnedEnds)
<1>1. Init => JournalInv /\ EarnedEnds
  <2>1. Init => \A r \in Run : Count(r) = 0
    BY DEF Init, Count
  <2> QED
    BY <2>1 DEF Init, NewRun, JournalInv, JournalOf, LastIs, EarnedEnds, EarnedEnd
<1> QED
  BY <1>1, JournalStepInv, EndStep, LeaseInvariance, PTL DEF Spec

\* FINALIZING, every verdict and CANCELLED are reached only over a proved stop, with
\* nothing unknown in the journal and no desktop acting, for every number of runs.
THEOREM EndingsAreProved == Spec => []StopProof
<1>1. TypeOK /\ LeaseInv /\ JournalInv /\ EarnedEnds => StopProof
  <2> SUFFICES ASSUME TypeOK, LeaseInv, JournalInv, EarnedEnds, NEW r \in Run
               PROVE  /\ runs[r].status \in {"FINALIZING", "COMPLETED"} =>
                            /\ lease[r].state = "STOPPED" /\ runs[r].stopEpoch = lease[r].epoch
                            /\ \A i \in 1..Count(r) :
                                  /\ actions[r][i].state \in {"SUCCEEDED", "FAILED"}
                                  /\ actions[r][i].stop <=> i = Count(r)
                                  /\ i \in reader[r] <=> i < Count(r)
                            /\ Count(r) > 0 /\ observer[r] = Count(r)
                            /\ hand[r] # "ACTING"
                      /\ runs[r].status = "CANCELLED" =>
                            /\ lease[r].state \in {"NONE", "STOPPED"}
                            /\ ~Unresolved(r) /\ hand[r] # "ACTING"
    BY DEF StopProof
  <2>0. EarnedEnd(r) /\ JournalOf(r) /\ Count(r) \in Nat /\ actions[r] \in Seq(Action)
        /\ Count(r) = Len(actions[r])
    BY DEF EarnedEnds, JournalInv, TypeOK, Count
  <2>1. lease[r].state \in {"NONE", "STOPPED"} => hand[r] # "ACTING"
    BY <2>0 DEF JournalOf, LastIs, LeaseInv, QueueAndLease
  <2>2. lease[r].state \in {"NONE", "STOPPED"} => ~Unresolved(r)
    <3>1. CASE lease[r].state = "NONE"
      BY <3>1 DEF LeaseInv, QueueAndLease, Unresolved, Count
    <3>2. CASE lease[r].state = "STOPPED"
      <4>1. ~LastIs(r, {"INTENT", "DISPATCHED"})
        BY <2>0, <3>2 DEF JournalOf
      <4>2. \A i \in 1..Count(r) : i < Count(r) => actions[r][i].state \in {"SUCCEEDED", "FAILED"}
        BY <2>0 DEF JournalOf
      <4> QED
        BY <2>0, <4>1, <4>2 DEF LastIs, LastAction, Unresolved, AwaitsResult
    <3> QED
      BY <3>1, <3>2
  <2>3. ASSUME EvidenceTail(r)
        PROVE  /\ Count(r) > 0 /\ observer[r] = Count(r)
               /\ \A i \in 1..Count(r) :
                     /\ actions[r][i].state \in {"SUCCEEDED", "FAILED"}
                     /\ actions[r][i].stop <=> i = Count(r)
                     /\ i \in reader[r] <=> i < Count(r)
    <3>1. /\ Count(r) > 0 /\ observer[r] = Count(r) /\ actions[r][Count(r)].stop
          /\ \A i \in 1..Count(r) : actions[r][i].state \in {"SUCCEEDED", "FAILED"}
          /\ reader[r] = {i \in 1..Count(r) : ~actions[r][i].stop}
      BY <2>3 DEF EvidenceTail, LastIs, LastAction
    <3>2. \A i \in 1..Count(r) : actions[r][i].stop <=> i = Count(r)
      BY <2>0, <3>1 DEF JournalOf
    <3> QED
      BY <2>0, <3>1, <3>2
  <2> QED
    BY <2>0, <2>1, <2>2, <2>3 DEF EarnedEnd
<1> QED
  BY <1>1, ControlInvariance, PTL

-----------------------------------------------------------------------------
(* The physical desktop.                                                   *)

\* Only enrollment puts a row into service, and it refuses a desktop that has one.
LEMMA RowsStay ==
    ASSUME TypeOK, LeaseInv, OneRowInService, [Next]_vars
    PROVE  OneRowInService'
<1>1. ASSUME NEW w \in Runner, RowStep(w) PROVE OneRowInService'
  <2>1. \A v, x \in Runner : SameDesk(v, x) => SameDesk(x, v)
    BY DEF SameDesk
  <2>2. /\ \A v \in Runner : v # w => runner'[v] = runner[v]
        /\ \/ InService(w)' => InService(w)
           \/ ~\E v \in Runner : SameDesk(v, w) /\ InService(v)
    BY <1>1, RowStepEffect DEF InService
  <2>3. \A v \in Runner : v # w => (InService(v)' <=> InService(v))
    BY <2>2 DEF InService
  <2> SUFFICES ASSUME NEW v \in Runner, NEW x \in Runner, SameDesk(v, x),
                      InService(v)', InService(x)', v # x
               PROVE  FALSE
    BY DEF OneRowInService, SameDesk
  <2> QED
    BY <2>1, <2>2, <2>3 DEF OneRowInService
<1>2. ASSUME \A v \in Runner : /\ runner'[v].revoked = runner[v].revoked
                               /\ runner'[v].status # "ABSENT" => runner[v].status # "ABSENT"
      PROVE  OneRowInService'
  BY <1>2 DEF OneRowInService, InService, SameDesk
<1>3. ASSUME NEW w \in Runner, NEW proved \in BOOLEAN, Reset(w, proved)
      PROVE  OneRowInService'
  <2>1. \A v \in Runner : /\ runner'[v].revoked = runner[v].revoked
                          /\ runner'[v].status # "ABSENT" => runner[v].status # "ABSENT"
    BY <1>3, ResetEffect
  <2> QED
    BY <1>2, <2>1
<1>4. ASSUME NEW w \in Runner, NEW r \in Run, AdmitLease(w, r)
      PROVE  OneRowInService'
  <2>1. \A v \in Runner : /\ runner'[v].revoked = runner[v].revoked
                          /\ runner'[v].status # "ABSENT" => runner[v].status # "ABSENT"
    BY <1>4, AdmitLeaseEffect
  <2> QED
    BY <1>2, <2>1
<1>5. CASE FenceExpired
  <2>1. \A v \in Runner : /\ runner'[v].revoked = runner[v].revoked
                          /\ runner'[v].status # "ABSENT" => runner[v].status # "ABSENT"
    BY <1>5, FenceExpiredEffect DEF LeaseInv, LeaseNamesRow
  <2> QED
    BY <1>2, <2>1
<1>6. ASSUME NEW r \in Run, Housekeeping(r) \/ JournalStep(r) \/ RunStep(r)
      PROVE  OneRowInService'
  <2>1. runner' = runner
    BY <1>6, HousekeepingEffect, JournalStepEffect, RunStepRows
  <2> QED
    BY <1>2, <2>1
<1>7. ASSUME NEW r \in Run, Interruption(r) PROVE OneRowInService'
  <2>1. \A v \in Runner : /\ runner'[v].revoked = runner[v].revoked
                          /\ runner'[v].status # "ABSENT" => runner[v].status # "ABSENT"
    BY <1>7, InterruptionRows DEF LeaseInv, LeaseNamesRow
  <2> QED
    BY <1>2, <2>1
<1>8. ASSUME NEW r \in Run, StopStep(r) PROVE OneRowInService'
  <2>1. \A v \in Runner : /\ runner'[v].revoked = runner[v].revoked
                          /\ runner'[v].status = IF v = lease[r].runner
                                                 THEN "PREFLIGHT_REQUIRED" ELSE runner[v].status
    BY <1>8, StopStepEffect, StatusSet DEF RunnerStatus
  <2>2. runner[lease[r].runner].status # "ABSENT"
    BY <1>8, StopStepEffect DEF LeaseInv, LeaseNamesRow
  <2> QED
    BY <1>2, <2>1, <2>2
<1>9. CASE UNCHANGED vars
  BY <1>2, <1>9 DEF vars
<1>10. CASE Next
  BY <1>1, <1>3, <1>4, <1>5, <1>6, <1>7, <1>8, <1>10, NextCases DEF StopStep
<1> QED
  BY <1>9, <1>10

\* Nothing but retirement takes a row out of service.
LEMMA NoneRetired ==
    ASSUME TypeOK, LeaseInv, AllInService, NoRetirement, [Next]_vars
    PROVE  AllInService'
<1>1. ASSUME NEW w \in Runner, RowStep(w) PROVE AllInService'
  BY <1>1, RowStepEffect DEF AllInService, NoRetirement
<1>2. ASSUME \A v \in Runner : runner'[v].revoked = runner[v].revoked, revoking' = revoking
      PROVE  AllInService'
  BY <1>2 DEF AllInService
<1>3. ASSUME NEW w \in Runner, NEW proved \in BOOLEAN, Reset(w, proved) PROVE AllInService'
  BY <1>2, <1>3, ResetEffect
<1>4. ASSUME NEW w \in Runner, NEW r \in Run, AdmitLease(w, r) PROVE AllInService'
  <2>1. \A v \in Runner : runner'[v].revoked = runner[v].revoked
    BY <1>4, AdmitLeaseEffect
  <2> QED
    BY <1>2, <1>4, <2>1, AdmitLeaseEffect
<1>5. CASE FenceExpired
  BY <1>2, <1>5, FenceExpiredEffect
<1>6. ASSUME NEW r \in Run, Housekeeping(r) \/ JournalStep(r) \/ RunStep(r)
      PROVE  AllInService'
  BY <1>2, <1>6, HousekeepingEffect, JournalStepEffect, RunStepRows
<1>7. ASSUME NEW r \in Run, Interruption(r) PROVE AllInService'
  <2>1. \A v \in Runner : runner'[v].revoked = runner[v].revoked
    BY <1>7, InterruptionRows
  <2> QED
    BY <1>2, <1>7, <2>1, InterruptionRows
<1>8. ASSUME NEW r \in Run, StopStep(r) PROVE AllInService'
  <2>1. \A v \in Runner : runner'[v].revoked = runner[v].revoked
    BY <1>8, StopStepEffect, StatusSet DEF RunnerStatus
  <2> QED
    BY <1>2, <1>8, <2>1, StopStepEffect
<1>9. CASE UNCHANGED vars
  BY <1>2, <1>9 DEF vars
<1>10. CASE Next
  BY <1>1, <1>3, <1>4, <1>5, <1>6, <1>7, <1>8, <1>10, NextCases DEF StopStep
<1> QED
  BY <1>9, <1>10

\* A run whose command may still land has a lease.
LEMMA ActingIsLeased ==
    ASSUME LeaseInv, NEW q \in Run, hand[q] = "ACTING"
    PROVE  /\ lease[q].state # "NONE" /\ lease[q].runner \in Runner
           /\ runner[lease[q].runner].status # "ABSENT"
BY DEF LeaseInv, QueueAndLease, LeaseNamesRow

\* A desktop stays fenced when its row stays quarantined, or is retired, and no lease
\* opens.
LEMMA FenceKept ==
    ASSUME TypeOK, LeaseInv, NEW q \in Run, HandFenced(q),
           hand'[q] \in {hand[q], "IDLE", "SETTLED"},
           lease[q].state = "OPEN" => lease'[q].state = "OPEN",
           lease'[q].runner = lease[q].runner,
           runner[lease[q].runner].revoked => runner'[lease[q].runner].revoked,
           runner[lease[q].runner].status = "QUARANTINED" /\ hand'[q] = "ACTING" =>
              \/ runner'[lease[q].runner].status = "QUARANTINED"
              \/ runner'[lease[q].runner].revoked,
           \A p \in Run : lease'[p].state = "OPEN" =>
              lease[p].state = "OPEN" /\ lease'[p].runner = lease[p].runner
    PROVE  HandFenced(q)'
BY DEF HandFenced, SameDesk

\* A lease that closes under an acting hand leaves its desktop quarantined and, being
\* the only one there, unleased.
LEMMA FenceRaised ==
    ASSUME TypeOK, LeaseInv, NEW q \in Run, lease[q].state = "OPEN", lease'[q].state # "OPEN",
           lease'[q].runner = lease[q].runner,
           runner'[lease[q].runner].status = "QUARANTINED",
           \A p \in Run : lease'[p].state = "OPEN" =>
              lease[p].state = "OPEN" /\ lease'[p].runner = lease[p].runner
    PROVE  HandFenced(q)'
BY DEF HandFenced, SameDesk, LeaseInv, OneLeasePerDesk

\* Every step keeps a desktop fenced as long as its hand is acting.
LEMMA HandStep ==
    ASSUME TypeOK, LeaseInv, JournalInv, DeskInv, [Next]_vars, NEW q \in Run
    PROVE  HandFenced(q)'
<1>0. HandFenced(q) /\ JournalOf(q)
  BY DEF DeskInv, JournalInv
<1>a. CASE hand'[q] # "ACTING"
  BY <1>a DEF HandFenced
<1>b. ASSUME hand[q] = "ACTING" PROVE lease[q].state # "NONE" /\ lease[q].runner \in Runner
  BY <1>b, ActingIsLeased
<1>1. ASSUME NEW w \in Runner, RowStep(w) PROVE HandFenced(q)'
  <2>1. lease' = lease /\ hand' = hand /\ \A v \in Runner : v # w => runner'[v] = runner[v]
    BY <1>1, RowStepEffect
  <2>2. /\ runner[w].revoked => runner'[w].revoked
        /\ runner[w].status = "QUARANTINED" =>
              runner'[w].status = "QUARANTINED" \/ runner'[w].revoked
    BY <1>1, RowStepEffect
  <2>3. CASE hand[q] = "ACTING" /\ lease[q].state # "OPEN"
    <3>1. lease[q].runner \in Runner
      BY <1>b, <2>3
    <3> QED
      BY <1>0, <2>1, <2>2, <3>1, FenceKept
  <2>4. CASE ~(hand[q] = "ACTING" /\ lease[q].state # "OPEN")
    BY <2>1, <2>4 DEF HandFenced
  <2> QED
    BY <2>3, <2>4
<1>2. ASSUME NEW w \in Runner, NEW proved \in BOOLEAN, Reset(w, proved) PROVE HandFenced(q)'
  <2>1. /\ \A v \in Runner : v # w => runner'[v] = runner[v]
        /\ \A v \in Runner : runner'[v].revoked = runner[v].revoked
        /\ \A p \in Run : lease'[p].state = "OPEN" =>
              lease[p].state = "OPEN" /\ lease'[p].runner = lease[p].runner
        /\ lease'[q].runner = lease[q].runner
        /\ hand'[q] \in {hand[q], "IDLE"}
    BY <1>2, ResetEffect
  <2>2. SUFFICES ASSUME hand'[q] = "ACTING" PROVE HandFenced(q)'
    BY <1>a
  <2>3. hand[q] = "ACTING" /\ lease[q].state # "NONE" /\ lease[q].runner \in Runner
    BY <2>1, <2>2, ActingIsLeased
  <2>4. lease[q].runner = w => runner'[w].status = "QUARANTINED"
    BY <1>2, <2>2, <2>3, ResetEffect DEF SameDesk
  <2>5. CASE lease[q].state = "OPEN" /\ lease[q].runner = w
    <3>1. lease'[q].state # "OPEN"
      BY <1>2, <2>5, ResetEffect
    <3> QED
      BY <2>1, <2>4, <2>5, <3>1, FenceRaised
  <2>6. CASE ~(lease[q].state = "OPEN" /\ lease[q].runner = w)
    <3>1. lease'[q].state = lease[q].state
      BY <1>2, <2>6, ResetEffect
    <3> QED
      BY <1>0, <2>1, <2>3, <2>4, <3>1, FenceKept
  <2> QED
    BY <2>5, <2>6
<1>3. ASSUME NEW w \in Runner, NEW r \in Run, AdmitLease(w, r) PROVE HandFenced(q)'
  <2>1. hand' = hand /\ runner[w].status = "READY"
        /\ \A v \in Runner : v # w => runner'[v] = runner[v]
    BY <1>3, AdmitLeaseEffect
  <2>2. lease[r].state = "NONE" /\ hand[r] = "IDLE"
    BY <1>3, AdmitLeaseEffect DEF LeaseInv, QueueAndLease
  <2>3. CASE hand[q] = "ACTING" /\ lease[q].state # "OPEN" /\ ~runner[lease[q].runner].revoked
    <3>1. q # r /\ lease'[q] = lease[q]
      BY <1>3, <2>2, <2>3, AdmitLeaseEffect
    <3>2. lease[q].runner \in Runner /\ runner[lease[q].runner].status = "QUARANTINED"
      BY <1>0, <1>b, <2>3 DEF HandFenced
    <3>3. runner'[lease[q].runner].status = "QUARANTINED"
      BY <2>1, <3>2
    <3>4. ~SameDesk(w, lease[q].runner)
      <4>1. InService(w) /\ InService(lease[q].runner)
        BY <1>3, <2>1, <2>3, <3>2, AdmitLeaseEffect DEF InService
      <4> QED
        BY <2>1, <3>2, <4>1 DEF DeskInv, OneRowInService
    <3>5. \A p \in Run : lease'[p].state = "OPEN" => ~SameDesk(lease'[p].runner, lease[q].runner)
      BY <1>0, <1>3, <2>3, <3>4, AdmitLeaseEffect DEF HandFenced
    <3> QED
      BY <3>1, <3>3, <3>5 DEF HandFenced, SameDesk
  <2>4. CASE hand[q] = "ACTING" /\ lease[q].state # "OPEN" /\ runner[lease[q].runner].revoked
    <3>1. lease'[q] = lease[q] /\ lease[q].runner \in Runner
      BY <1>3, <1>b, <2>2, <2>4, AdmitLeaseEffect
    <3>2. runner'[lease[q].runner].revoked
      BY <1>3, <2>4, <3>1, AdmitLeaseEffect
    <3> QED
      BY <3>1, <3>2 DEF HandFenced
  <2>5. CASE ~(hand[q] = "ACTING" /\ lease[q].state # "OPEN")
    BY <1>3, <2>1, <2>5, AdmitLeaseEffect DEF HandFenced
  <2> QED
    BY <2>3, <2>4, <2>5
<1>4. CASE FenceExpired
  <2>1. /\ hand' = hand /\ lease'[q].runner = lease[q].runner
        /\ \A v \in Runner : runner'[v].revoked = runner[v].revoked
        /\ \A p \in Run : lease'[p].state = "OPEN" =>
              lease[p].state = "OPEN" /\ lease'[p].runner = lease[p].runner
    BY <1>4, FenceExpiredEffect
  <2>2. SUFFICES ASSUME hand[q] = "ACTING" PROVE HandFenced(q)'
    BY <1>a, <2>1
  <2>3. lease[q].runner \in Runner
    BY <2>2, ActingIsLeased
  <2>4. CASE lease'[q].state = lease[q].state
    <3>1. runner[lease[q].runner].status = "QUARANTINED" =>
             runner'[lease[q].runner].status = "QUARANTINED"
      BY <1>4, <2>3, FenceExpiredEffect
    <3> QED
      BY <1>0, <2>1, <2>3, <2>4, <3>1, FenceKept
  <2>5. CASE lease'[q].state # lease[q].state
    <3>1. /\ lease[q].state = "OPEN" /\ lease'[q].state # "OPEN"
          /\ runner'[lease[q].runner].status = "QUARANTINED"
      BY <1>4, <2>3, <2>5, FenceExpiredEffect
    <3> QED
      BY <2>1, <3>1, FenceRaised
  <2> QED
    BY <2>4, <2>5
<1>5. ASSUME runner' = runner,
             \A p \in Run : lease'[p].state = lease[p].state /\ lease'[p].runner = lease[p].runner,
             hand'[q] \in {hand[q], "IDLE", "SETTLED"} \/ lease[q].state = "OPEN"
      PROVE  HandFenced(q)'
  <2>1. CASE lease[q].state = "OPEN"
    BY <1>5, <2>1 DEF HandFenced
  <2>2. CASE lease[q].state # "OPEN"
    BY <1>0, <1>5, <2>2, FenceKept
  <2> QED
    BY <2>1, <2>2
<1>6. ASSUME NEW r \in Run, Housekeeping(r) PROVE HandFenced(q)'
  BY <1>5, <1>6, HousekeepingEffect DEF SameLease
<1>7. ASSUME NEW r \in Run, JournalStep(r) PROVE HandFenced(q)'
  <2>1. runner' = runner /\ lease' = lease /\ (q # r => hand'[q] = hand[q])
        /\ (lease[r].state = "OPEN" \/ hand[r] = "ACTING")
    BY <1>7, JournalStepEffect
  <2>2. CASE q # r
    BY <1>5, <2>1, <2>2
  <2>3. CASE q = r
    BY <1>0, <1>5, <2>1, <2>3 DEF HandFenced, SameDesk
  <2> QED
    BY <2>2, <2>3
<1>8. ASSUME NEW r \in Run, RunStep(r) PROVE HandFenced(q)'
  BY <1>5, <1>8, RunStepRows
<1>9. ASSUME NEW r \in Run, Interruption(r) PROVE HandFenced(q)'
  <2>0. hand' = hand
    BY <1>9, InterruptionRows
  <2>1. CASE UNCHANGED <<runs, runner, lease, actions>>
    BY <1>5, <2>0, <2>1
  <2>2. CASE ~UNCHANGED <<runs, runner, lease, actions>>
    <3>1. /\ \A p \in Run : lease'[p].state = "OPEN" =>
                lease[p].state = "OPEN" /\ lease'[p].runner = lease[p].runner
          /\ lease'[q].runner = lease[q].runner
          /\ q # r => lease'[q] = lease[q]
          /\ lease'[r].state # "OPEN"
          /\ \A v \in Runner : /\ v = lease[r].runner => runner'[v].status = "QUARANTINED"
                               /\ runner'[v].revoked = runner[v].revoked
                               /\ runner[v].status = "QUARANTINED" => runner'[v].status = "QUARANTINED"
      BY <1>9, <2>2, InterruptionRows
    <3>2. SUFFICES ASSUME hand[q] = "ACTING" PROVE HandFenced(q)'
      BY <1>a, <2>0
    <3>3. lease[q].runner \in Runner
      BY <3>2, ActingIsLeased
    <3>4. CASE q = r /\ lease[q].state = "OPEN"
      BY <3>1, <3>3, <3>4, FenceRaised
    <3>5. CASE ~(q = r /\ lease[q].state = "OPEN")
      BY <1>0, <2>0, <3>1, <3>3, <3>5, FenceKept
    <3> QED
      BY <3>4, <3>5
  <2> QED
    BY <2>1, <2>2
<1>10. ASSUME NEW r \in Run, StopStep(r) PROVE HandFenced(q)'
  <2>1. /\ hand' = hand /\ lease[r].state = "OPEN" /\ lease'[r].state = "STOPPED"
        /\ lease'[r].runner = lease[r].runner
        /\ \A p \in Run : p # r => lease'[p] = lease[p]
        /\ runner[lease[r].runner].status # "QUARANTINED" /\ ~Unresolved(r)
    BY <1>10, StopStepEffect
  <2>2. \A v \in Runner : /\ runner'[v].revoked = runner[v].revoked
                          /\ v # lease[r].runner => runner'[v] = runner[v]
    BY <1>10, StopStepEffect, StatusSet DEF RunnerStatus
  <2>3. SUFFICES ASSUME hand[q] = "ACTING" PROVE HandFenced(q)'
    BY <1>a, <2>1
  <2>4. q # r
    <3>1. SUFFICES ASSUME q = r PROVE FALSE
      OBVIOUS
    <3>2. LastIs(q, {"DISPATCHED", "AMBIGUOUS"}) /\ ~LastIs(q, {"AMBIGUOUS"})
      BY <1>0, <2>1, <2>3, <3>1 DEF JournalOf
    <3>3. Count(q) \in Nat
      BY DEF TypeOK, Count
    <3> QED
      BY <2>1, <3>1, <3>2, <3>3 DEF LastIs, LastAction, Unresolved, AwaitsResult
  <2>5. lease[q].runner \in Runner
    BY <2>3, ActingIsLeased
  <2> QED
    BY <1>0, <2>1, <2>2, <2>4, <2>5, FenceKept
<1>11. CASE UNCHANGED vars
  BY <1>5, <1>11 DEF vars
<1>12. CASE Next
  BY <1>1, <1>2, <1>3, <1>4, <1>6, <1>7, <1>8, <1>9, <1>10, <1>12, NextCases DEF StopStep
<1> QED
  BY <1>11, <1>12

\* Every behaviour keeps every desktop fenced.
LEMMA DeskInvariance == Spec => [](TypeOK /\ LeaseInv /\ JournalInv /\ DeskInv)
<1>1. Init => DeskInv
  BY DEF Init, DeskInv, OneRowInService, InService, HandFenced
<1>2. TypeOK /\ LeaseInv /\ JournalInv /\ DeskInv /\ [Next]_vars => DeskInv'
  <2> SUFFICES ASSUME TypeOK, LeaseInv, JournalInv, DeskInv, [Next]_vars PROVE DeskInv'
    OBVIOUS
  <2>1. OneRowInService'
    BY RowsStay DEF DeskInv
  <2>2. \A q \in Run : HandFenced(q)'
    BY HandStep
  <2> QED
    BY <2>1, <2>2 DEF DeskInv
<1> QED
  BY <1>1, <1>2, ControlInvariance, PTL DEF Spec

\* Without retirement every row stays in service.
LEMMA ServiceInvariance == ASSUME NoRetirement PROVE Spec => []AllInService
<1>1. Init => AllInService
  BY DEF Init, AllInService
<1>2. TypeOK /\ LeaseInv /\ AllInService /\ [Next]_vars => AllInService'
  BY NoneRetired
<1> QED
  BY <1>1, <1>2, ControlInvariance, PTL DEF Spec

\* Whatever expires, is cancelled, reset, retired or answered late, one run at a time
\* is leased a physical desktop, and a command that may still land keeps its lease, its
\* quarantine and the desktop to itself, unless its row was retired.
THEOREM DesktopsAreFenced == Spec => []DesktopIsFenced
<1>1. TypeOK /\ LeaseInv /\ DeskInv => DesktopIsFenced
  <2> SUFFICES ASSUME TypeOK, LeaseInv, DeskInv, NEW r \in Run, hand[r] = "ACTING",
                      lease[r].state # "OPEN", ~runner[lease[r].runner].revoked
               PROVE  /\ runner[lease[r].runner].status = "QUARANTINED"
                      /\ OpenOnDesk(lease[r].runner) = {}
    BY DEF DesktopIsFenced, LeaseInv
  <2>1. HandFenced(r)
    BY DEF DeskInv
  <2> QED
    BY <2>1 DEF HandFenced, OpenOnDesk
<1> QED
  BY <1>1, DeskInvariance, PTL

\* INV-10: while a delivered command may still land, no other run is leased that
\* physical desktop.  Retirement breaks it, which a run of the model shows.
THEOREM DesktopExclusion ==
    ASSUME NoRetirement
    PROVE  Spec => []DesktopExclusive
<1>1. LeaseInv /\ DeskInv /\ AllInService => DesktopExclusive
  <2> SUFFICES ASSUME LeaseInv, DeskInv, AllInService, NEW r \in Run, NEW q \in Run, r # q,
                      lease[q].state = "OPEN", lease[r].state # "NONE",
                      SameDesk(lease[r].runner, lease[q].runner)
               PROVE  lease[r].state # "OPEN" /\ hand[r] # "ACTING"
    BY DEF DesktopExclusive
  <2>1. lease[r].state # "OPEN"
    BY DEF LeaseInv, OneLeasePerDesk
  <2>2. HandFenced(r) /\ ~runner[lease[r].runner].revoked
    BY DEF LeaseInv, LeaseNamesRow, DeskInv, AllInService
  <2> QED
    BY <2>1, <2>2 DEF HandFenced, SameDesk
<1> QED
  BY <1>1, DeskInvariance, ServiceInvariance, PTL

\* A command that may still land keeps its lease open or its desktop quarantined.
THEOREM QuarantineOutlivesTheRun ==
    ASSUME NoRetirement
    PROVE  Spec => []ActingIsFenced
<1>1. LeaseInv /\ DeskInv /\ AllInService => ActingIsFenced
  <2> SUFFICES ASSUME LeaseInv, DeskInv, AllInService, NEW r \in Run, hand[r] = "ACTING"
               PROVE  \/ lease[r].state = "OPEN"
                      \/ runner[lease[r].runner].status = "QUARANTINED"
    BY DEF ActingIsFenced
  <2>1. HandFenced(r) /\ ~runner[lease[r].runner].revoked
    BY ActingIsLeased DEF DeskInv, AllInService
  <2> QED
    BY <2>1 DEF HandFenced
<1> QED
  BY <1>1, DeskInvariance, ServiceInvariance, PTL

\* The copies of the epoch in run, lease and row agree, the row of an open lease is
\* BUSY, QUARANTINED or retired, and no row issues one epoch twice.
THEOREM EpochsAgree == Spec => []LeaseAgreement
<1>1. TypeOK /\ LeaseInv => LeaseAgreement
  <2> SUFFICES ASSUME TypeOK, LeaseInv, NEW r \in Run
               PROVE  /\ lease[r].state # "NONE" =>
                            /\ runs[r].epoch = lease[r].epoch
                            /\ lease[r].epoch <= runner[lease[r].runner].epoch
                      /\ lease[r].state = "OPEN" =>
                            /\ runner[lease[r].runner].epoch = lease[r].epoch
                            /\ \/ runner[lease[r].runner].revoked
                               \/ runner[lease[r].runner].status \in {"BUSY", "QUARANTINED"}
                      /\ \A q \in Run \ {r} :
                            (lease[r].state # "NONE" /\ lease[q].runner = lease[r].runner) =>
                                lease[q].epoch # lease[r].epoch
    BY DEF LeaseAgreement
  <2>1. lease[r].state # "NONE" => lease[r].epoch # 0
    BY ControlAssumption DEF LeaseInv, LeaseNamesRow
  <2>2. \A q \in Run : lease[q].state = "NONE" => lease[q].epoch = 0
    BY DEF LeaseInv, QueueAndLease
  <2> QED
    BY <2>1, <2>2 DEF LeaseInv, LeaseNamesRow, EpochsDiffer, OpenIsNewest
<1> QED
  BY <1>1, ControlInvariance, PTL

-----------------------------------------------------------------------------
(* What no step may do.                                                    *)

\* The session's right to act, as NoLateOrRepeatedAction denies it.
Fenced(r) ==
    \/ lease[r].state # "OPEN" \/ CancellationRequested(runs[r])
    \/ runner[lease[r].runner].revoked \/ runner[lease[r].runner].status = "QUARANTINED"

\* One journal goes forward only, and not at all towards a command once fenced.
JournalForward(r) ==
    LET before == actions[r]
        after  == actions'[r]
    IN  /\ Len(after) >= Len(before)
        /\ \A i \in 1..Len(before) :
              /\ before[i].state \notin {"INTENT", "DISPATCHED"} => after[i] = before[i]
              /\ before[i].state = "DISPATCHED" => after[i].state # "INTENT"
        /\ Fenced(r) =>
              /\ Len(after) = Len(before)
              /\ \A i \in 1..Len(before) :
                    after[i].state = "DISPATCHED" => before[i].state = "DISPATCHED"

\* A journal that a step leaves alone goes nowhere.
LEMMA ForwardKept ==
    ASSUME TypeOK, NEW q \in Run, actions'[q] = actions[q]
    PROVE  JournalForward(q)
<1>1. Len(actions[q]) \in Nat
  BY DEF TypeOK
<1> QED
  BY <1>1 DEF JournalForward

\* An unresolved newest entry may become anything but an intent, and DISPATCHED only
\* under an unfenced session.
LEMMA ForwardMarked ==
    ASSUME TypeOK, NEW r \in Run, LastIs(r, {"INTENT", "DISPATCHED"}),
           NEW st \in ActionState \ {"INTENT"}, actions' = LastBecomes(r, st),
           st = "DISPATCHED" => ~Fenced(r)
    PROVE  JournalForward(r)
<1>1. Count(r) \in Nat /\ Count(r) > 0 /\ Count(r) = Len(actions[r])
      /\ actions[r][Count(r)].state \in {"INTENT", "DISPATCHED"}
  BY DEF TypeOK, Count, LastIs, LastAction
<1>2. /\ Len(actions'[r]) = Len(actions[r])
      /\ \A i \in 1..Count(r) : i # Count(r) => actions'[r][i] = actions[r][i]
      /\ actions'[r][Count(r)].state = st
  BY <1>1, JournalChanges
<1> QED
  BY <1>1, <1>2 DEF JournalForward

\* A live session is not fenced.
LEMMA LiveIsNotFenced ==
    ASSUME NEW r \in Run, Live(r)
    PROVE  ~Fenced(r)
BY DEF Live, DispatchReady, Fenced

\* Every journal goes forward at every step.
LEMMA ForwardStep ==
    ASSUME TypeOK, LeaseInv, [Next]_vars, NEW q \in Run
    PROVE  JournalForward(q)
<1>1. CASE actions'[q] = actions[q]
  BY <1>1, ForwardKept
<1>2. ASSUME NEW r \in Run, JournalStep(r) PROVE JournalForward(q)
  <2>1. CASE q # r
    BY <1>1, <1>2, <2>1, JournalStepEffect
  <2>2. CASE q = r /\ (Settle(r) \/ Observe(r) \/ FinalSample(r))
    BY <1>1, <2>2 DEF Settle, Observe, FinalSample
  <2>3. ASSUME NEW b \in BOOLEAN, Intent(r, b), q = r PROVE JournalForward(q)
    <3> DEFINE e == [stop |-> b, state |-> "INTENT"]
    <3>1. e \in Action /\ actions' = Grown(r, e)
      BY <2>3 DEF Action, Intent, Grown
    <3> HIDE DEF e
    <3>a. Count(r) \in Nat /\ Count(r) = Len(actions[r])
      BY DEF Count, TypeOK
    <3>2. /\ Len(actions'[r]) = Count(r) + 1
          /\ \A i \in 1..Count(r) : actions'[r][i] = actions[r][i]
      BY <3>1, JournalGrows
    <3>3. ~Fenced(r)
      BY <2>3, LiveIsNotFenced DEF Intent
    <3> QED
      BY <2>3, <3>a, <3>2, <3>3 DEF JournalForward
  <2>4. ASSUME NEW b \in BOOLEAN, CommitDispatch(r, b), q = r PROVE JournalForward(q)
    <3>1. LastIs(r, {"INTENT", "DISPATCHED"}) /\ actions' = LastBecomes(r, "DISPATCHED")
      BY <2>4 DEF CommitDispatch, LastIs
    <3>2. ~Fenced(r)
      BY <2>4, LiveIsNotFenced DEF CommitDispatch
    <3> QED
      BY <2>4, <3>1, <3>2, ForwardMarked DEF ActionState
  <2>5. ASSUME NEW state \in {"SUCCEEDED", "FAILED"}, CompleteAction(r, state), q = r
        PROVE  JournalForward(q)
    <3>1. LastIs(r, {"INTENT", "DISPATCHED"}) /\ actions' = LastBecomes(r, state)
      BY <2>5 DEF CompleteAction, LastIs
    <3> QED
      BY <2>5, <3>1, ForwardMarked DEF ActionState
  <2> QED
    BY <1>2, <2>1, <2>2, <2>3, <2>4, <2>5 DEF JournalStep
<1>3. ASSUME NEW r \in Run, Interruption(r) PROVE JournalForward(q)
  <2>1. CASE actions'[q] # actions[q]
    <3>1. /\ q = r /\ LastIs(r, {"INTENT", "DISPATCHED"})
          /\ actions' = LastBecomes(r, "AMBIGUOUS")
      BY <1>3, <2>1, InterruptionRows
    <3> QED
      BY <3>1, ForwardMarked DEF ActionState
  <2> QED
    BY <1>1, <2>1
<1>4. CASE UNCHANGED vars
  BY <1>1, <1>4 DEF vars
<1>5. ASSUME NEW r \in Run, Housekeeping(r) \/ RunStep(r) \/ StopStep(r) PROVE JournalForward(q)
  <2>1. actions' = actions
    BY <1>5, HousekeepingEffect, RunStepRows, StopStepEffect
  <2> QED
    BY <1>1, <2>1
<1>6. CASE Next
  <2>1. ASSUME NEW w \in Runner,
               \/ RowStep(w)
               \/ \E proved \in BOOLEAN : Reset(w, proved)
               \/ \E r \in Run : AdmitLease(w, r)
               \/ FenceExpired
        PROVE  JournalForward(q)
    <3>1. actions' = actions
      BY <2>1, RowStepEffect, ResetEffect, AdmitLeaseEffect, FenceExpiredEffect
    <3> QED
      BY <1>1, <3>1
  <2>2. CASE FenceExpired
    BY <1>1, <2>2, FenceExpiredEffect
  <2> QED
    BY <1>2, <1>3, <1>5, <1>6, <2>1, <2>2, NextCases DEF StopStep
<1> QED
  BY <1>4, <1>6

\* INV-09 and INV-13: no journal entry goes back, and a session that was closed,
\* cancelled, retired or quarantined journals and commits nothing more.
THEOREM NoLateAction == Spec => NoLateOrRepeatedAction
<1>1. TypeOK /\ LeaseInv /\ [Next]_vars =>
         [\A r \in DOMAIN runs :
             LET before == actions[r]
                 after  == actions'[r]
             IN  /\ Len(after) >= Len(before)
                 /\ \A i \in 1..Len(before) :
                       /\ before[i].state \notin {"INTENT", "DISPATCHED"} => after[i] = before[i]
                       /\ before[i].state = "DISPATCHED" => after[i].state # "INTENT"
                 /\ (\/ lease[r].state # "OPEN" \/ CancellationRequested(runs[r])
                     \/ runner[lease[r].runner].revoked
                     \/ runner[lease[r].runner].status = "QUARANTINED") =>
                       /\ Len(after) = Len(before)
                       /\ \A i \in 1..Len(before) :
                             after[i].state = "DISPATCHED" => before[i].state = "DISPATCHED"]_vars
  <2> SUFFICES ASSUME TypeOK, LeaseInv, [Next]_vars
               PROVE  \A r \in Run : JournalForward(r)
    BY DEF TypeOK, JournalForward, Fenced
  <2> QED
    BY ForwardStep
<1> QED
  BY <1>1, LeaseInvariance, PTL DEF Spec, NoLateOrRepeatedAction

\* A late timeout or recovery never fences the session that replaced its attempt,
\* as long as the terminalization that compares no epochs is not called.
THEOREM InterruptionStaysLocal ==
    ASSUME ~LibraryCalls
    PROVE  Spec => InterruptionIsLocal
<1>1. TypeOK /\ LeaseInv /\ [Next]_vars =>
         [\A r, q \in Run :
             (r # q /\ runs'[r].status = "INTERRUPTED" /\ runs[r].status # "INTERRUPTED"
                    /\ lease[q].state = "OPEN") =>
                 lease'[q] = lease[q] /\ runner'[lease[q].runner] = runner[lease[q].runner]]_vars
  <2> SUFFICES ASSUME TypeOK, LeaseInv, [Next]_vars, NEW r \in Run, NEW q \in Run, r # q,
                      runs'[r].status = "INTERRUPTED", runs[r].status # "INTERRUPTED",
                      lease[q].state = "OPEN"
               PROVE  lease'[q] = lease[q] /\ runner'[lease[q].runner] = runner[lease[q].runner]
    BY DEF vars
  <2>1. Interruption(r)
    <3>1. ASSUME NEW p \in Run, Interruption(p) PROVE p = r
      BY <3>1, InterruptionRows
    <3>2. ASSUME NEW p \in Run, RunStep(p) PROVE FALSE
      <4>1. p = r
        BY <3>2, RunStepRows
      <4>2. runs'[p].status \in {"RUNNING", "CANCELLED", "COMPLETED", runs[p].status}
        BY <3>2, RunStepFields
      <4> QED
        BY <4>1, <4>2
    <3>3. ASSUME NEW p \in Run, StopStep(p) PROVE FALSE
      <4>1. p = r
        BY <3>3, StopStepEffect
      <4> QED
        BY <3>3, <4>1, StopStepRun
    <3>4. ASSUME NEW w \in Runner, NEW p \in Run, AdmitLease(w, p) PROVE FALSE
      <4>1. p = r
        BY <3>4, AdmitLeaseEffect
      <4>2. PICK e \in Nat : e = runner[w].epoch + 1
        BY RunnerRowOf DEF TypeOK
      <4>3. runs[r] \in RunState /\ runs'[r] = AdmittedToDesktop(runs[r], e)
        BY <3>4, <4>1, <4>2, AdmitLeaseEffect DEF TypeOK
      <4>4. runs'[r].status = "LEASED"
        BY <4>3, AdmittedFields
      <4> QED
        BY <4>4
    <3>5. runs' # runs
      OBVIOUS
    <3>6. Next
      BY <3>5 DEF vars
    <3> QED
      BY <3>1, <3>2, <3>3, <3>4, <3>5, <3>6, NextCases, RowStepEffect, ResetEffect,
         FenceExpiredEffect, HousekeepingEffect, JournalStepEffect DEF StopStep
  <2>2. /\ lease[r].state # "NONE" /\ lease'[q] = lease[q]
        /\ runner[lease[r].runner].epoch = lease[r].epoch
        /\ \A v \in Runner : v # lease[r].runner => runner'[v] = runner[v]
    BY <2>1, InterruptionRows
  <2>3. lease[q].runner \in Runner /\ runner[lease[q].runner].epoch = lease[q].epoch
    BY DEF LeaseInv, LeaseNamesRow, OpenIsNewest
  <2>4. lease[q].runner # lease[r].runner
    BY <2>2, <2>3 DEF LeaseInv, EpochsDiffer
  <2> QED
    BY <2>2, <2>3, <2>4
<1> QED
  BY <1>1, LeaseInvariance, PTL DEF Spec, InterruptionIsLocal

-----------------------------------------------------------------------------
(* Every run row lives the life of RunLifecycle.                           *)

\* The reducer by which a step moved a run row, and its guard.
Moved(r) ==
    \/ \E e \in 1..MaxEpoch :
          /\ runs[r].status = "QUEUED" /\ MayAdmitToDesktop(runs[r], e)
          /\ runs'[r] = AdmittedToDesktop(runs[r], e)
    \/ runs[r].status = "LEASED" /\ MayProgress(runs[r]) /\ runs'[r] = Progressed(runs[r])
    \/ \E t \in Times :
          /\ MayRequestCancellation(runs[r]) /\ ~CancellationRequested(runs[r])
          /\ runs'[r] = CancellationRequestedAt(runs[r], t)
    \/ \E t \in Times, e \in 0..MaxEpoch :
          /\ lease[r].state = "STOPPED" /\ runs[r].stopAt = NoTime
          /\ MayAcknowledgeStop(runs[r], e) /\ runs'[r] = StopAcknowledged(runs[r], t, e)
    \/ \E t \in Times, e \in 0..MaxEpoch :
          /\ lease[r].state = "OPEN" /\ lease'[r].state = "STOPPED"
          /\ runs[r].status = "RUNNING" /\ MayAcknowledgeStop(runs[r], e)
          /\ MayProgress(StopAcknowledged(runs[r], t, e))
          /\ runs'[r] = Progressed(StopAcknowledged(runs[r], t, e))
    \/ MayCancel(runs[r]) /\ runs'[r] = Cancelled(runs[r])
    \/ MayInterrupt(runs[r]) /\ runs'[r] = Interrupted(runs[r])
    \/ \E o \in Outcome : MayComplete(runs[r], o) /\ runs'[r] = Completed(runs[r], o)

\* The leased epochs are within the bound of the lifecycle.
LEMMA LeasedEpoch ==
    ASSUME LeaseInv, NEW r \in Run, lease[r].state # "NONE"
    PROVE  lease[r].epoch \in 0..MaxEpoch
<1>1. lease[r].epoch \in 1..MaxEpoch
  BY DEF LeaseInv, LeaseNamesRow
<1> QED
  BY <1>1, ControlAssumption

\* A row that changes is moved by one reducer.
LEMMA RowsMove ==
    ASSUME TypeOK, LeaseInv, [Next]_vars, NEW q \in Run, runs'[q] # runs[q]
    PROVE  Moved(q)
<1>0. runs \in [Run -> RunState]
  BY DEF TypeOK
<1>1. ASSUME NEW w \in Runner, NEW r \in Run, AdmitLease(w, r) PROVE Moved(q)
  <2>1. q = r
    BY <1>1, AdmitLeaseEffect
  <2>2. PICK e \in 1..MaxEpoch : e = runner[w].epoch + 1
    BY <1>1, AdmitLeaseEffect
  <2>3. /\ runs[r].status = "QUEUED" /\ MayAdmitToDesktop(runs[r], e)
        /\ runs'[r] = AdmittedToDesktop(runs[r], e)
    BY <1>1, <2>2, AdmitLeaseEffect
  <2> QED
    BY <2>1, <2>3 DEF Moved
<1>2. ASSUME NEW r \in Run, RunStep(r) PROVE Moved(q)
  <2>1. q = r
    BY <1>2, RunStepRows
  <2>2. CASE Dispatch(r)
    BY <1>0, <2>1, <2>2 DEF Dispatch, DispatchReady, Moved
  <2>3. CASE TerminalizeCancellation(r)
    BY <1>0, <2>1, <2>3 DEF TerminalizeCancellation, Moved
  <2>4. ASSUME NEW t \in Times, RequestCancel(r, t) PROVE Moved(q)
    BY <1>0, <2>1, <2>4 DEF RequestCancel, Moved
  <2>5. ASSUME NEW t \in Times, AcknowledgeRunStop(r, t) PROVE Moved(q)
    <3>1. lease[r].state = "STOPPED" /\ runs[r].stopAt = NoTime
      BY <2>5 DEF AcknowledgeRunStop
    <3>2. PICK e \in 0..MaxEpoch : e = lease[r].epoch
      BY <3>1, LeasedEpoch
    <3>3. MayAcknowledgeStop(runs[r], e) /\ runs'[r] = StopAcknowledged(runs[r], t, e)
      BY <1>0, <2>5, <3>2 DEF AcknowledgeRunStop
    <3> QED
      BY <2>1, <3>1, <3>3 DEF Moved
  <2>6. ASSUME NEW o \in Evaluated, Finalize(r, o) PROVE Moved(q)
    BY <1>0, <2>1, <2>6 DEF Finalize, Evaluated, Outcome, Moved
  <2> QED
    BY <1>2, <2>2, <2>3, <2>4, <2>5, <2>6 DEF RunStep
<1>3. ASSUME NEW r \in Run, Interruption(r) PROVE Moved(q)
  BY <1>3, InterruptionRows DEF Moved, MayInterrupt
<1>4. ASSUME NEW r \in Run, StopStep(r) PROVE Moved(q)
  <2>1. q = r /\ lease[r].state = "OPEN" /\ lease'[r].state = "STOPPED"
    BY <1>4, StopStepEffect
  <2>2. PICK e \in 0..MaxEpoch : e = lease[r].epoch
    BY <2>1, LeasedEpoch
  <2>3. PICK t \in Times :
           /\ Live(r) /\ MayAcknowledgeStop(runs[r], lease[r].epoch)
           /\ MayProgress(StopAcknowledged(runs[r], t, lease[r].epoch))
           /\ runs'[r] = Progressed(StopAcknowledged(runs[r], t, lease[r].epoch))
    BY <1>4, <2>1, StopStepEffect
  <2>4. runs[r].status = "RUNNING"
    BY <2>3 DEF Live, DispatchReady
  <2>5. /\ MayAcknowledgeStop(runs[r], e) /\ MayProgress(StopAcknowledged(runs[r], t, e))
        /\ runs'[r] = Progressed(StopAcknowledged(runs[r], t, e))
    BY <2>2, <2>3
  <2> QED
    BY <2>1, <2>4, <2>5 DEF Moved
<1>5. Next
  BY DEF vars
<1> QED
  BY <1>1, <1>2, <1>3, <1>4, <1>5, NextCases, RowStepEffect, ResetEffect, FenceExpiredEffect,
     HousekeepingEffect, JournalStepEffect DEF StopStep

\* A step that leaves a run row leaves its stop proof too.
LEMMA LeaseStopsStay ==
    ASSUME TypeOK, LeaseInv, [Next]_vars, NEW q \in Run, lease[q].state = "STOPPED"
    PROVE  lease'[q].state = "STOPPED"
<1>1. ASSUME NEW w \in Runner, NEW r \in Run, AdmitLease(w, r) PROVE lease'[q].state = "STOPPED"
  <2>1. lease[r].state = "NONE"
    BY <1>1, AdmitLeaseEffect DEF LeaseInv, QueueAndLease
  <2> QED
    BY <1>1, <2>1, AdmitLeaseEffect
<1>2. ASSUME NEW r \in Run, Housekeeping(r) \/ JournalStep(r) \/ RunStep(r)
      PROVE  lease'[q].state = "STOPPED"
  BY <1>2, HousekeepingEffect, JournalStepEffect, RunStepRows DEF SameLease
<1>3. ASSUME NEW r \in Run, Interruption(r) PROVE lease'[q].state = "STOPPED"
  BY <1>3, InterruptionRows
<1>4. ASSUME NEW r \in Run, StopStep(r) PROVE lease'[q].state = "STOPPED"
  BY <1>4, StopStepEffect
<1>5. ASSUME NEW w \in Runner, NEW proved \in BOOLEAN, Reset(w, proved)
      PROVE  lease'[q].state = "STOPPED"
  BY <1>5, ResetEffect
<1>6. CASE FenceExpired
  BY <1>6, FenceExpiredEffect
<1>7. ASSUME NEW w \in Runner, RowStep(w) PROVE lease'[q].state = "STOPPED"
  BY <1>7, RowStepEffect
<1>8. CASE UNCHANGED vars
  BY <1>8 DEF vars
<1>9. CASE Next
  BY <1>1, <1>2, <1>3, <1>4, <1>5, <1>6, <1>7, <1>9, NextCases DEF StopStep
<1> QED
  BY <1>8, <1>9

\* The lifecycle's place and the two marks give six transitions at most.
LEMMA BoundedRevision ==
    ASSUME NEW s \in RunState, Bounded(s)
    PROVE  s.revision \in Nat /\ s.revision < 8
<1>1. s.revision \in Nat
  BY DEF RunState
<1>2. Steps(s) \in 0..4
  BY DEF Steps
<1>3. Bit(CancellationRequested(s)) \in 0..1 /\ Bit(s.stopAt # NoTime) \in 0..1
  BY DEF Bit
<1> QED
  BY <1>1, <1>2, <1>3 DEF Bounded

\* A reducer that moves a row on by one place adds one revision.
LEMMA OneMoreStep ==
    ASSUME NEW s \in RunState, NEW u, Bounded(s), u.revision = s.revision + 1,
           u.cancelAt = s.cancelAt, u.stopAt = s.stopAt, Steps(u) > Steps(s)
    PROVE  Bounded(u)
<1>1. s.revision \in Nat /\ Steps(s) \in Nat /\ Steps(u) \in Nat
  BY DEF RunState, Steps
<1>2. /\ Bit(CancellationRequested(u)) = Bit(CancellationRequested(s))
      /\ Bit(u.stopAt # NoTime) = Bit(s.stopAt # NoTime)
      /\ Bit(CancellationRequested(s)) \in 0..1 /\ Bit(s.stopAt # NoTime) \in 0..1
  BY DEF Bit, CancellationRequested
<1> QED
  BY <1>1, <1>2 DEF Bounded

\* The places of the lifecycle.
LEMMA Places ==
    /\ \A s : s.status = "QUEUED" => Steps(s) = 0
    /\ \A s : s.status = "LEASED" => Steps(s) = 1
    /\ \A s : s.status = "RUNNING" => Steps(s) = 2
    /\ \A s : s.status = "FINALIZING" => Steps(s) = 3
    /\ \A s : s.status \in Terminal => Steps(s) = 4
    /\ \A s \in RunState : NonTerminal(s) => Steps(s) \in 0..3
    /\ \A s, u : s.status = u.status => Steps(s) = Steps(u)
<1>1. \A s \in RunState : NonTerminal(s) =>
         s.status \in {"QUEUED", "LEASED", "RUNNING", "FINALIZING"}
  BY DEF RunState, RunStatus, NonTerminal, Terminal
<1> QED
  BY <1>1 DEF Steps, Terminal

\* Every reducer keeps the count: what it does not move on it marks.
LEMMA MovedIsBounded ==
    ASSUME TypeOK, LeaseInv, NEW r \in Run, Bounded(runs[r]), Moved(r),
           runs[r].stopAt # NoTime => lease[r].state = "STOPPED"
    PROVE  Bounded(runs'[r])
<1>0. PICK s, u : s = runs[r] /\ u = runs'[r]
  OBVIOUS
<1>a. s \in RunState /\ Bounded(s) /\ s.revision \in Nat
  BY <1>0 DEF TypeOK, RunState
<1>b. \A t \in Times : t \in Nat /\ t # NoTime
  BY ControlAssumption DEF NoTime
<1>c. \A e \in 0..MaxEpoch : e \in Nat
  BY ControlAssumption
<1>d. Steps(s) \in Nat /\ Steps(u) \in Nat
  BY DEF Steps
<1>1. ASSUME NEW e \in 1..MaxEpoch, s.status = "QUEUED", u = AdmittedToDesktop(s, e)
      PROVE  Bounded(u)
  <2>0. e \in Nat
    BY ControlAssumption
  <2>1. /\ u.revision = s.revision + 1 /\ u.cancelAt = s.cancelAt /\ u.stopAt = s.stopAt
        /\ u.status = "LEASED"
    BY <1>1, <1>a, <2>0, AdmittedFields
  <2> QED
    BY <1>1, <1>a, <2>1, Places, OneMoreStep
<1>2. ASSUME s.status = "LEASED", MayProgress(s), u = Progressed(s)
      PROVE  Bounded(u)
  <2>1. /\ u.revision = s.revision + 1 /\ u.cancelAt = s.cancelAt /\ u.stopAt = s.stopAt
        /\ s.status = "LEASED" => u.status = "RUNNING"
    BY <1>2, <1>a, ProgressedFields
  <2> QED
    BY <1>2, <1>a, <2>1, Places, OneMoreStep
<1>3. ASSUME NEW t \in Times, ~CancellationRequested(s), u = CancellationRequestedAt(s, t)
      PROVE  Bounded(u)
  <2>1. /\ u.revision = s.revision + 1 /\ u.cancelAt = t /\ u.stopAt = s.stopAt
        /\ u.status = s.status
    BY <1>3, <1>a, <1>b, FirstRequestFields
  <2>2. /\ Bit(CancellationRequested(s)) = 0 /\ Bit(CancellationRequested(u)) = 1
        /\ Bit(u.stopAt # NoTime) = Bit(s.stopAt # NoTime) /\ Bit(s.stopAt # NoTime) \in 0..1
    BY <1>3, <1>b, <2>1 DEF Bit, CancellationRequested
  <2>3. Steps(u) = Steps(s)
    BY <2>1, Places
  <2> QED
    BY <1>a, <1>d, <2>1, <2>2, <2>3 DEF Bounded
<1>4. ASSUME NEW t \in Times, NEW e \in 0..MaxEpoch, s.stopAt = NoTime,
             u = StopAcknowledged(s, t, e)
      PROVE  Bounded(u)
  <2>0. u = StopAcknowledged(s, t, e)
    BY <1>4
  <2>1. /\ u.revision = s.revision + 1 /\ u.cancelAt = s.cancelAt /\ u.stopAt = t
        /\ u.status = s.status
    BY ZenonT(60), <2>0, <1>a, <1>b, <1>c, StopAcknowledgedFields
  <2>2. /\ Bit(s.stopAt # NoTime) = 0 /\ Bit(u.stopAt # NoTime) = 1
        /\ Bit(CancellationRequested(u)) = Bit(CancellationRequested(s))
        /\ Bit(CancellationRequested(s)) \in 0..1
    BY <1>4, <1>b, <2>1 DEF Bit, CancellationRequested
  <2>3. Steps(u) = Steps(s)
    BY <2>1, Places
  <2> QED
    BY <1>a, <1>d, <2>1, <2>2, <2>3 DEF Bounded
<1>5. ASSUME NEW t \in Times, NEW e \in 0..MaxEpoch, s.stopAt = NoTime, s.status = "RUNNING",
             MayProgress(StopAcknowledged(s, t, e)), u = Progressed(StopAcknowledged(s, t, e))
      PROVE  Bounded(u)
  <2>1. /\ u.revision = s.revision + 2 /\ u.cancelAt = s.cancelAt /\ u.stopAt = t
        /\ u.status = "FINALIZING"
    BY <1>5, <1>a, <1>b, <1>c, FinishedFields
  <2>2. /\ Bit(s.stopAt # NoTime) = 0 /\ Bit(u.stopAt # NoTime) = 1
        /\ Bit(CancellationRequested(u)) = Bit(CancellationRequested(s))
        /\ Bit(CancellationRequested(s)) \in 0..1
    BY <1>5, <1>b, <2>1 DEF Bit, CancellationRequested
  <2>3. Steps(u) = 3 /\ Steps(s) = 2
    BY <1>5, <2>1, Places
  <2> QED
    BY <1>a, <2>1, <2>2, <2>3 DEF Bounded
<1>6. ASSUME MayCancel(s), u = Cancelled(s) PROVE Bounded(u)
  <2>1. /\ u.revision = s.revision + 1 /\ u.cancelAt = s.cancelAt /\ u.stopAt = s.stopAt
        /\ u.status = "CANCELLED"
    BY <1>6, <1>a, CancelledFields
  <2>2. Steps(u) = 4 /\ Steps(s) \in 0..3
    BY <1>6, <1>a, <2>1, Places DEF MayCancel, Terminal
  <2> QED
    BY <1>a, <2>1, <2>2, OneMoreStep
<1>7. ASSUME MayInterrupt(s), u = Interrupted(s) PROVE Bounded(u)
  <2>1. /\ u.revision = s.revision + 1 /\ u.cancelAt = s.cancelAt /\ u.stopAt = s.stopAt
        /\ u.status = "INTERRUPTED"
    BY <1>7, <1>a, InterruptedFields
  <2>2. Steps(u) = 4 /\ Steps(s) \in 0..3
    BY <1>7, <1>a, <2>1, Places DEF MayInterrupt, Terminal
  <2> QED
    BY <1>a, <2>1, <2>2, OneMoreStep
<1>8. ASSUME NEW o \in Outcome, MayComplete(s, o), u = Completed(s, o) PROVE Bounded(u)
  <2>1. /\ u.revision = s.revision + 1 /\ u.cancelAt = s.cancelAt /\ u.stopAt = s.stopAt
        /\ u.status = "COMPLETED"
    BY <1>8, <1>a, CompletedFields
  <2>2. Steps(u) = 4 /\ Steps(s) = 3
    BY <1>8, <2>1, Places DEF MayComplete, Terminal
  <2> QED
    BY <1>a, <2>1, <2>2, OneMoreStep
<1>9. s.stopAt # NoTime => lease[r].state = "STOPPED"
  BY <1>0
<1> QED
  BY <1>0, <1>1, <1>2, <1>3, <1>4, <1>5, <1>6, <1>7, <1>8, <1>9 DEF Moved

\* Every step keeps the count of revisions, and a stop recorded in a run row has
\* closed the lease.
LEMMA RevisionStep == TypeOK /\ LeaseInv /\ RevisionInv /\ [Next]_vars => RevisionInv'
<1> SUFFICES ASSUME TypeOK, LeaseInv, RevisionInv, [Next]_vars, NEW q \in Run
             PROVE  /\ Bounded(runs'[q])
                    /\ runs'[q].stopAt # NoTime => lease'[q].state = "STOPPED"
  BY DEF RevisionInv, Bounded, CancellationRequested, Steps
<1>0. Bounded(runs[q]) /\ (runs[q].stopAt # NoTime => lease[q].state = "STOPPED")
  BY DEF RevisionInv
<1>1. CASE runs'[q] = runs[q]
  BY <1>0, <1>1, LeaseStopsStay
<1>2. CASE runs'[q] # runs[q]
  <2>1. Moved(q)
    BY <1>2, RowsMove
  <2>2. Bounded(runs'[q])
    BY <1>0, <2>1, MovedIsBounded
  <2>3. CASE lease[q].state = "STOPPED"
    BY <2>2, <2>3, LeaseStopsStay
  <2>4. CASE lease[q].state # "STOPPED"
    <3>0. PICK s, u : s = runs[q] /\ u = runs'[q]
      OBVIOUS
    <3>1. s \in RunState /\ s.stopAt = NoTime
      BY <1>0, <2>4, <3>0 DEF TypeOK
    <3>2. u.stopAt = s.stopAt \/ lease'[q].state = "STOPPED"
      <4>a. \A e \in 1..MaxEpoch : e \in Nat
        BY ControlAssumption
      <4>b. \A t \in Times : t \in Nat
        BY ControlAssumption
      <4>1. ASSUME NEW e \in 1..MaxEpoch, u = AdmittedToDesktop(s, e) PROVE u.stopAt = s.stopAt
        BY <3>1, <4>1, <4>a, AdmittedFields
      <4>2. ASSUME MayProgress(s), u = Progressed(s) PROVE u.stopAt = s.stopAt
        BY <3>1, <4>2, ProgressedFields
      <4>3. ASSUME NEW t \in Times, ~CancellationRequested(s), u = CancellationRequestedAt(s, t)
            PROVE  u.stopAt = s.stopAt
        BY <3>1, <4>3, <4>b, FirstRequestFields
      <4>4. ASSUME u = Cancelled(s) PROVE u.stopAt = s.stopAt
        BY <3>1, <4>4, CancelledFields
      <4>5. ASSUME u = Interrupted(s) PROVE u.stopAt = s.stopAt
        BY <3>1, <4>5, InterruptedFields
      <4>6. ASSUME NEW o \in Outcome, u = Completed(s, o) PROVE u.stopAt = s.stopAt
        BY <3>1, <4>6, CompletedFields
      <4> QED
        BY <2>1, <2>4, <3>0, <4>1, <4>2, <4>3, <4>4, <4>5, <4>6 DEF Moved
    <3> QED
      BY <2>2, <3>0, <3>1, <3>2
  <2> QED
    BY <2>3, <2>4
<1> QED
  BY <1>1, <1>2

\* No run row takes more transitions than the lifecycle has room for.
LEMMA RevisionInvariance == Spec => [](TypeOK /\ LeaseInv /\ RevisionInv)
<1>1. Init => RevisionInv
  <2>1. Steps(NewRun) = 0 /\ NewRun.revision = 0 /\ NewRun.stopAt = NoTime
        /\ ~CancellationRequested(NewRun)
    BY DEF NewRun, Steps, CancellationRequested
  <2>2. Bounded(NewRun)
    BY <2>1 DEF Bounded, Bit
  <2> QED
    BY <2>1, <2>2 DEF Init, RevisionInv
<1> QED
  BY <1>1, RevisionStep, LeaseInvariance, PTL DEF Spec

\* The reducers RunLifecycle is instantiated with are the control plane's own.
LEMMA SameReducers ==
    ASSUME NEW r \in Run, NEW s, NEW e, NEW t, NEW o
    PROVE  /\ Life(r)!MayProgress(s) <=> MayProgress(s)
           /\ Life(r)!Progressed(s) = Progressed(s)
           /\ Life(r)!MayAdmitToDesktop(s, e) <=> MayAdmitToDesktop(s, e)
           /\ Life(r)!AdmittedToDesktop(s, e) = AdmittedToDesktop(s, e)
           /\ Life(r)!MayAcknowledgeStop(s, e) <=> MayAcknowledgeStop(s, e)
           /\ Life(r)!MayRequestCancellation(s) <=> MayRequestCancellation(s)
           /\ Life(r)!CancellationRequestedAt(s, t) = CancellationRequestedAt(s, t)
           /\ Life(r)!StopAcknowledged(s, t, e) = StopAcknowledged(s, t, e)
           /\ Life(r)!MayCancel(s) <=> MayCancel(s)
           /\ Life(r)!Cancelled(s) = Cancelled(s)
           /\ Life(r)!MayInterrupt(s) <=> MayInterrupt(s)
           /\ Life(r)!Interrupted(s) = Interrupted(s)
           /\ Life(r)!MayComplete(s, o) <=> MayComplete(s, o)
           /\ Life(r)!Completed(s, o) = Completed(s, o)
           /\ Life(r)!Outcome = Outcome
<1>a. Life(r)!NonTerminal(s) <=> NonTerminal(s)
  BY DEF Life!NonTerminal, NonTerminal, Life!Terminal, Terminal
<1>b. Life(r)!CancellationRequested(s) <=> CancellationRequested(s)
  BY DEF Life!CancellationRequested, CancellationRequested, Life!NoTime, NoTime
<1>c. \A st : Life(r)!NormalProgression(st) = NormalProgression(st)
  BY DEF Life!NormalProgression, NormalProgression
<1>1. Life(r)!MayProgress(s) <=> MayProgress(s)
  BY <1>a, <1>b, <1>c DEF Life!MayProgress, MayProgress
<1>2. Life(r)!Progressed(s) = Progressed(s)
  BY DEF Life!Progressed, Progressed, Life!NormalProgression, NormalProgression
<1>3. /\ Life(r)!MayAdmitToDesktop(s, e) <=> MayAdmitToDesktop(s, e)
      /\ Life(r)!AdmittedToDesktop(s, e) = AdmittedToDesktop(s, e)
      /\ Life(r)!MayAcknowledgeStop(s, e) <=> MayAcknowledgeStop(s, e)
  BY <1>a, <1>b DEF Life!MayAdmitToDesktop, MayAdmitToDesktop, Life!AdmittedToDesktop,
     AdmittedToDesktop, Life!MayAcknowledgeStop, MayAcknowledgeStop
<1>4. Life(r)!MayRequestCancellation(s) <=> MayRequestCancellation(s)
  BY <1>a DEF Life!MayRequestCancellation, MayRequestCancellation
<1>5. Life(r)!CancellationRequestedAt(s, t) = CancellationRequestedAt(s, t)
  BY <1>b DEF Life!CancellationRequestedAt, CancellationRequestedAt
<1>6. Life(r)!StopAcknowledged(s, t, e) = StopAcknowledged(s, t, e)
  BY DEF Life!StopAcknowledged, StopAcknowledged
<1>7. Life(r)!MayCancel(s) <=> MayCancel(s)
  BY <1>a, <1>b DEF Life!MayCancel, MayCancel, Life!NeverDispatched, NeverDispatched,
     Life!PhysicallyStopped, PhysicallyStopped, Life!StoppedInResponse, StoppedInResponse,
     Life!NoTime, NoTime
<1>8. Life(r)!Cancelled(s) = Cancelled(s)
  BY DEF Life!Cancelled, Cancelled
<1>9. (Life(r)!MayInterrupt(s) <=> MayInterrupt(s)) /\ Life(r)!Interrupted(s) = Interrupted(s)
  BY <1>a DEF Life!MayInterrupt, MayInterrupt, Life!Interrupted, Interrupted
<1>10. /\ Life(r)!MayComplete(s, o) <=> MayComplete(s, o)
       /\ Life(r)!Completed(s, o) = Completed(s, o)
  BY DEF Life!MayComplete, MayComplete, Life!Completed, Completed, Life!AdmissibleOutcomes,
     AdmissibleOutcomes, Life!Evaluated, Evaluated
<1>11. Life(r)!Outcome = Outcome
  BY DEF Life!Outcome, Outcome
<1> QED
  BY <1>1, <1>2, <1>3, <1>4, <1>5, <1>6, <1>7, <1>8, <1>9, <1>10, <1>11

\* A reducer's step on a row with room is a step of RunLifecycle.
LEMMA MovedIsLifecycle ==
    ASSUME TypeOK, NEW r \in Run, Moved(r), Bounded(runs[r])
    PROVE  Life(r)!LifecycleNext
<1>1. runs[r] \in RunState
  BY DEF TypeOK
<1>2. runs[r].revision < 8
  BY <1>1, BoundedRevision
<1>3. Life(r)!Room
  BY <1>2 DEF Life!Room
<1>4. ASSUME NEW e \in 1..MaxEpoch, MayAdmitToDesktop(runs[r], e),
             runs'[r] = AdmittedToDesktop(runs[r], e)
      PROVE  Life(r)!AdmitToDesktop
  BY <1>3, <1>4, SameReducers DEF Life!AdmitToDesktop
<1>5. ASSUME MayProgress(runs[r]), runs'[r] = Progressed(runs[r])
      PROVE  Life(r)!Progress
  BY <1>3, <1>5, SameReducers DEF Life!Progress
<1>6. ASSUME NEW t \in Times, MayRequestCancellation(runs[r]),
             runs'[r] = CancellationRequestedAt(runs[r], t)
      PROVE  Life(r)!RequestCancellation
  BY <1>3, <1>6, SameReducers DEF Life!RequestCancellation
<1>7. ASSUME NEW t \in Times, NEW e \in 0..MaxEpoch, MayAcknowledgeStop(runs[r], e),
             runs'[r] = StopAcknowledged(runs[r], t, e)
      PROVE  Life(r)!AcknowledgeStop
  BY <1>3, <1>7, SameReducers DEF Life!AcknowledgeStop
<1>8. ASSUME NEW t \in Times, NEW e \in 0..MaxEpoch, runs[r].status = "RUNNING",
             MayAcknowledgeStop(runs[r], e), MayProgress(StopAcknowledged(runs[r], t, e)),
             runs'[r] = Progressed(StopAcknowledged(runs[r], t, e))
      PROVE  Life(r)!FinishExecution
  <2>1. Life(r)!StopAcknowledged(runs[r], t, e) = StopAcknowledged(runs[r], t, e)
    BY SameReducers
  <2>2. /\ Life(r)!MayAcknowledgeStop(runs[r], e)
        /\ Life(r)!MayProgress(StopAcknowledged(runs[r], t, e))
        /\ runs'[r] = Life(r)!Progressed(StopAcknowledged(runs[r], t, e))
    BY <1>8, SameReducers
  <2> QED
    BY <1>3, <1>8, <2>1, <2>2 DEF Life!FinishExecution
<1>9. ASSUME MayCancel(runs[r]), runs'[r] = Cancelled(runs[r])
      PROVE  Life(r)!Cancel
  BY <1>3, <1>9, SameReducers DEF Life!Cancel
<1>10. ASSUME MayInterrupt(runs[r]), runs'[r] = Interrupted(runs[r])
       PROVE  Life(r)!Interrupt
  BY <1>3, <1>10, SameReducers DEF Life!Interrupt
<1>11. ASSUME NEW o \in Outcome, MayComplete(runs[r], o), runs'[r] = Completed(runs[r], o)
       PROVE  Life(r)!Complete
  BY <1>3, <1>11, SameReducers DEF Life!Complete
<1> QED
  BY <1>4, <1>5, <1>6, <1>7, <1>8, <1>9, <1>10, <1>11 DEF Moved, Life!LifecycleNext

\* Every transaction moves every run row by one admitted reducer or not at all.
THEOREM LifecycleIsRefined == Spec => LifecycleRefined
<1>1. Init => \A r \in DOMAIN runs : Life(r)!LifecycleInit
  BY DEF Init, Life!LifecycleInit, NewRun, Life!NewRun, NoTime, NoEpoch, Life!NoTime, Life!NoEpoch
<1>2. TypeOK /\ LeaseInv /\ RevisionInv /\ [Next]_vars =>
         [\A r \in DOMAIN runs : runs'[r] # runs[r] => Life(r)!LifecycleNext]_vars
  <2> SUFFICES ASSUME TypeOK, LeaseInv, RevisionInv, [Next]_vars, NEW r \in Run,
                      runs'[r] # runs[r]
               PROVE  Life(r)!LifecycleNext
    BY DEF TypeOK
  <2> QED
    BY RowsMove, MovedIsLifecycle DEF RevisionInv
<1> QED
  BY <1>1, <1>2, RevisionInvariance, PTL DEF Spec, LifecycleRefined

\* The control plane implements RunLifecycle: each run row is one of its behaviours,
\* so whatever that specification proves of a run holds of every run here.
THEOREM ImplementsLifecycle ==
    ASSUME NEW r \in Run
    PROVE  Spec => Life(r)!LifecycleSpec
<1>1. Init => Life(r)!LifecycleInit
  BY DEF Init, Life!LifecycleInit, NewRun, Life!NewRun, NoTime, NoEpoch, Life!NoTime, Life!NoEpoch
<1>2. TypeOK /\ LeaseInv /\ RevisionInv /\ [Next]_vars => [Life(r)!LifecycleNext]_(runs[r])
  <2> SUFFICES ASSUME TypeOK, LeaseInv, RevisionInv, [Next]_vars, runs'[r] # runs[r]
               PROVE  Life(r)!LifecycleNext
    OBVIOUS
  <2> QED
    BY RowsMove, MovedIsLifecycle DEF RevisionInv
<1> QED
  BY <1>1, <1>2, RevisionInvariance, PTL DEF Spec, Life!LifecycleSpec

=============================================================================
