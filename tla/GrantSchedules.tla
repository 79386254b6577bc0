--------------------------- MODULE GrantSchedules ---------------------------
(***************************************************************************)
(* A standing execution grant, the schedule drawn on it, and the           *)
(* occurrences a scheduler admits (grants.py, schedules.py and their       *)
(* routes), with the restore of the database from a backup and its         *)
(* reconciliation (restore.py).                                            *)
(*                                                                         *)
(* admit_occurrence is handed the grant by its caller.  The callers in     *)
(* Locking load it FOR UPDATE in the transaction that admits; the others   *)
(* loaded it earlier and still hold the object.                            *)
(***************************************************************************)
EXTENDS Naturals, FiniteSets

CONSTANTS Admins,        \* people, each making one request at a time
          Schedulers,    \* processes that call admit_occurrence
          DueTimes,      \* the times the schedule is due
          Locking,       \* the schedulers that lock the grant they load
          MaxGrantRevision, MaxScheduleRevision, MaxGrantRestores   \* bounds

ASSUME ScheduleAssumption ==
  /\ Locking \subseteq Schedulers /\ "none" \notin DueTimes
  /\ MaxGrantRevision \in Nat \ {0} /\ MaxScheduleRevision \in Nat \ {0}
  /\ MaxGrantRestores \in Nat

VARIABLES
  grant,      \* execution_grant row
  sched,      \* schedule row
  occ,        \* schedule_occurrence rows
  runs,       \* the runs created for occurrences, by slot
  late,       \* slots due longer ago than MAX_OCCURRENCE_LATENESS
  admin,      \* revisions an administrator read, and the grant the request loaded; of the read,
              \* for the properties: is it of after the last restore, did it show a paused schedule
  caller,     \* the grant object a scheduler holds, and its transaction
  backup,     \* the rows a backup holds
  confirmed,  \* a person has confirmed the grant since the last restore
  seen,       \* history: the highest revisions the two rows had before the last restore
  restores

scheduleVars == <<grant, sched, occ, runs, late, admin, caller, backup, confirmed, seen, restores>>

GrantRow == [revision : 1 .. MaxGrantRevision, revoked : BOOLEAN, reval : BOOLEAN, lapsed : BOOLEAN]

NoGrant == [revision |-> 1, revoked |-> TRUE, reval |-> FALSE, lapsed |-> TRUE]
NoRequest == [pc |-> "idle", grantRevision |-> 0, schedRevision |-> 0, grant |-> NoGrant,
              current |-> FALSE, paused |-> FALSE]

ScheduleTypeOK ==
  /\ grant \in GrantRow
  /\ sched \in [exists : BOOLEAN, revision : 1 .. MaxScheduleRevision,
                grantRevision : 1 .. MaxGrantRevision, paused : BOOLEAN, lapsed : BOOLEAN]
  /\ occ \in [DueTimes -> {"none", "skipped", "admitted"}]
  /\ runs \in [DueTimes -> {"none", "active", "ended"}]
  /\ late \subseteq DueTimes
  /\ admin \in [Admins -> [pc : {"idle", "read", "loaded"}, grantRevision : 0 .. MaxGrantRevision,
                           schedRevision : 0 .. MaxScheduleRevision, grant : GrantRow,
                           current : BOOLEAN, paused : BOOLEAN]]
  /\ caller \in [Schedulers -> [pc : {"idle", "holding", "checked"}, grant : GrantRow,
                                slot : DueTimes \cup {"none"}]]
  /\ confirmed \in BOOLEAN
  /\ seen \in [grant : 0 .. MaxGrantRevision, sched : 0 .. MaxScheduleRevision]
  /\ restores \in 0 .. MaxGrantRestores

Rows == [grant |-> grant, sched |-> sched, occ |-> occ, runs |-> runs]
FirstRows ==
  [grant |-> [revision |-> 1, revoked |-> FALSE, reval |-> FALSE, lapsed |-> FALSE],
   sched |-> [exists |-> FALSE, revision |-> 1, grantRevision |-> 1, paused |-> FALSE,
              lapsed |-> FALSE],
   occ |-> [s \in DueTimes |-> "none"],
   runs |-> [s \in DueTimes |-> "none"]]

ScheduleInit ==
  /\ grant = FirstRows.grant /\ sched = FirstRows.sched
  /\ occ = FirstRows.occ /\ runs = FirstRows.runs
  /\ late = {}
  /\ admin = [a \in Admins |-> NoRequest]
  /\ caller = [w \in Schedulers |-> [pc |-> "idle", grant |-> NoGrant, slot |-> "none"]]
  /\ backup = FirstRows
  /\ confirmed = TRUE
  /\ seen = [grant |-> 0, sched |-> 0]
  /\ restores = 0

-----------------------------------------------------------------------------

\* ExecutionGrant.check_usable, on the object it is called on.
Usable(g) == ~g.revoked /\ ~g.reval /\ ~g.lapsed

ScheduleLocked == \E w \in Schedulers : caller[w].pc = "checked"
GrantLocked == \E w \in Locking : caller[w].pc # "idle"

Answered(a) == admin' = [admin EXCEPT ![a] = NoRequest]

\* GET of the grant and of the schedule: the revisions the person will send as If-Match.
SchedRevision == IF sched.exists THEN sched.revision ELSE 0
ReadBoth(a) ==
  /\ admin[a].pc = "idle"
  /\ admin' = [admin EXCEPT ![a] = [pc |-> "read", grantRevision |-> grant.revision,
                                    schedRevision |-> SchedRevision, grant |-> NoGrant,
                                    current |-> TRUE, paused |-> sched.paused]]
  /\ UNCHANGED <<grant, sched, occ, runs, late, caller, backup, confirmed, seen, restores>>

\* A mutating request on the schedule loads the grant, without a lock, before it does more.
LoadGrant(a) ==
  /\ admin[a].pc = "read"
  /\ admin' = [admin EXCEPT ![a].pc = "loaded", ![a].grant = grant]
  /\ UNCHANGED <<grant, sched, occ, runs, late, caller, backup, confirmed, seen, restores>>

\* create_schedule, bound to the revision of the grant it was given.
CreateSchedule(a) ==
  /\ admin[a].pc = "loaded" /\ ~sched.exists
  /\ Usable(admin[a].grant)
  /\ sched' = [sched EXCEPT !.exists = TRUE, !.grantRevision = admin[a].grant.revision]
  /\ Answered(a)
  /\ UNCHANGED <<grant, occ, runs, late, caller, backup, confirmed, seen, restores>>

\* _lock_at_revision: wait for the row, then compare the revision that was read.
AtRevision(a) ==
  /\ ~ScheduleLocked
  /\ sched.exists /\ sched.revision = admin[a].schedRevision
  /\ sched.revision < MaxScheduleRevision

Pause(a) ==
  /\ admin[a].pc = "read" /\ AtRevision(a)
  /\ sched' = IF sched.paused THEN sched
              ELSE [sched EXCEPT !.paused = TRUE, !.revision = @ + 1]
  /\ Answered(a)
  /\ UNCHANGED <<grant, occ, runs, late, caller, backup, confirmed, seen, restores>>

Resume(a) ==
  /\ admin[a].pc = "read" /\ AtRevision(a)
  /\ sched' = [sched EXCEPT !.paused = FALSE, !.revision = @ + 1]
  /\ Answered(a)
  /\ UNCHANGED <<grant, occ, runs, late, caller, backup, confirmed, seen, restores>>

\* rebind_to_grant: re-approve under the grant as the request loaded it.
RebindToGrant(a) ==
  /\ admin[a].pc = "loaded"
  /\ Usable(admin[a].grant) /\ AtRevision(a)
  /\ sched' = [sched EXCEPT !.grantRevision = admin[a].grant.revision, !.revision = @ + 1,
                            !.paused = FALSE]
  /\ Answered(a)
  /\ UNCHANGED <<grant, occ, runs, late, caller, backup, confirmed, seen, restores>>

\* revoke_grant: revisioned, and a repeat on a revoked grant changes nothing.
RevokeGrant(a) ==
  /\ admin[a].pc = "read" /\ ~GrantLocked
  /\ grant.revision = admin[a].grantRevision
  /\ IF grant.revoked THEN grant' = grant
     ELSE /\ grant.revision < MaxGrantRevision
          /\ grant' = [grant EXCEPT !.revoked = TRUE, !.revision = @ + 1]
  /\ Answered(a)
  /\ UNCHANGED <<sched, occ, runs, late, caller, backup, confirmed, seen, restores>>

\* A mutant: the confirmation is accepted whatever revision was read.
RevalidateUnread(a) ==
  /\ admin[a].pc = "read" /\ ~GrantLocked
  /\ ~grant.revoked /\ grant.reval
  /\ grant.revision < MaxGrantRevision
  /\ grant' = [grant EXCEPT !.reval = FALSE, !.revision = @ + 1]
  /\ confirmed' = TRUE
  /\ Answered(a)
  /\ UNCHANGED <<sched, occ, runs, late, caller, backup, seen, restores>>

\* revalidate_grant: a person, against the revision read, only when it is required.
RevalidateGrant(a) ==
  /\ admin[a].pc = "read" /\ ~GrantLocked
  /\ grant.revision = admin[a].grantRevision
  /\ ~grant.revoked /\ grant.reval
  /\ grant.revision < MaxGrantRevision
  /\ grant' = [grant EXCEPT !.reval = FALSE, !.revision = @ + 1]
  /\ confirmed' = TRUE
  /\ Answered(a)
  /\ UNCHANGED <<sched, occ, runs, late, caller, backup, seen, restores>>

\* A refused request, or one the person gives up.
GiveUp(a) ==
  /\ admin[a].pc # "idle"
  /\ Answered(a)
  /\ UNCHANGED <<grant, sched, occ, runs, late, caller, backup, confirmed, seen, restores>>

-----------------------------------------------------------------------------
(* The scheduler.                                                          *)

HoldGrant(w) ==
  /\ caller[w].pc = "idle" /\ (w \in Locking => ~GrantLocked)
  /\ caller' = [caller EXCEPT ![w].pc = "holding", ![w].grant = grant]
  /\ UNCHANGED <<grant, sched, occ, runs, late, admin, backup, confirmed, seen, restores>>

ActiveOccurrence == \E s \in DueTimes : occ[s] = "admitted" /\ runs[s] = "active"

\* The checks of admit_occurrence, in its order, under the schedule's row lock.
Admissible(w, s) ==
  /\ ~sched.paused /\ ~sched.lapsed
  /\ s \notin late
  /\ ~grant.reval
  /\ Usable(caller[w].grant) /\ caller[w].grant.revision = sched.grantRevision
  /\ ~ActiveOccurrence

\* The row is locked and every check passed: the run is created, not yet committed.
CheckOccurrence(w, s) ==
  /\ caller[w].pc = "holding" /\ sched.exists /\ ~ScheduleLocked
  /\ Admissible(w, s)
  /\ caller' = [caller EXCEPT ![w].pc = "checked", ![w].slot = s]
  /\ UNCHANGED <<grant, sched, occ, runs, late, admin, backup, confirmed, seen, restores>>

Released(w) == caller' = [caller EXCEPT ![w] =
  [pc |-> IF w \in Locking THEN "idle" ELSE "holding", slot |-> "none",
   grant |-> IF w \in Locking THEN NoGrant ELSE caller[w].grant]]

\* A refusal leaves a row, unless the slot already has one.
SkipOccurrence(w, s) ==
  /\ caller[w].pc = "holding" /\ sched.exists /\ ~ScheduleLocked
  /\ ~Admissible(w, s)
  /\ occ' = [occ EXCEPT ![s] = IF @ = "none" THEN "skipped" ELSE @]
  /\ Released(w)
  /\ UNCHANGED <<grant, sched, runs, late, admin, backup, confirmed, seen, restores>>

\* The unique key decides: an insert that conflicts raises, and the run is rolled back.
CommitOccurrence(w) ==
  /\ caller[w].pc = "checked"
  /\ LET s == caller[w].slot IN
       IF occ[s] = "none"
       THEN /\ occ' = [occ EXCEPT ![s] = "admitted"]
            /\ runs' = [runs EXCEPT ![s] = "active"]
       ELSE UNCHANGED <<occ, runs>>
  /\ Released(w)
  /\ UNCHANGED <<grant, sched, late, admin, backup, confirmed, seen, restores>>

\* The scheduler restarts, or its transaction is lost.
SchedulerCrash(w) ==
  /\ caller[w].pc # "idle"
  /\ caller' = [caller EXCEPT ![w] = [pc |-> "idle", grant |-> NoGrant, slot |-> "none"]]
  /\ UNCHANGED <<grant, sched, occ, runs, late, admin, backup, confirmed, seen, restores>>

-----------------------------------------------------------------------------
(* Time, runs, backup and restore.                                         *)

\* Time: a slot becomes late, the schedule lapses, and then the grant, which it never outlives.
TimePasses ==
  \/ /\ \E s \in DueTimes \ late : late' = late \cup {s}
     /\ UNCHANGED <<grant, sched, occ, runs, admin, caller, backup, confirmed, seen, restores>>
  \/ /\ ~sched.lapsed
     /\ sched' = [sched EXCEPT !.lapsed = TRUE]
     /\ UNCHANGED <<grant, occ, runs, late, admin, caller, backup, confirmed, seen, restores>>
  \/ /\ ~grant.lapsed /\ sched.lapsed
     /\ grant' = [grant EXCEPT !.lapsed = TRUE]
     /\ UNCHANGED <<sched, occ, runs, late, admin, caller, backup, confirmed, seen, restores>>

OccurrenceEnds ==
  \E s \in DueTimes :
    /\ runs[s] = "active"
    /\ runs' = [runs EXCEPT ![s] = "ended"]
    /\ UNCHANGED <<grant, sched, occ, late, admin, caller, backup, confirmed, seen, restores>>

TakeBackup ==
  /\ restores < MaxGrantRestores
  /\ backup' = Rows
  /\ UNCHANGED <<grant, sched, occ, runs, late, admin, caller, confirmed, seen, restores>>

\* reconcile: a live grant needs revalidation, and its revision moves.
ReconciledGrant(g) ==
  IF g.revoked THEN g ELSE [g EXCEPT !.reval = TRUE, !.revision = @ + 1]

Higher(a, b) == IF a > b THEN a ELSE b

\* The request's transaction is gone; what was read remains, of a row that may be gone as well.
HeldOver(r) ==
  [pc |-> IF r.pc = "idle" THEN "idle" ELSE "read", grant |-> NoGrant, current |-> FALSE,
   grantRevision |-> r.grantRevision,
   schedRevision |-> IF backup.sched.exists THEN r.schedRevision ELSE 0, paused |-> r.paused]

\* The database is replaced by the backup and reconciled before it is served.  What people
\* and schedulers read earlier is in their hands still; open transactions are gone.
RestoreAndReconcile ==
  /\ restores < MaxGrantRestores
  /\ restores' = restores + 1
  /\ backup.grant.revision < MaxGrantRevision
  /\ grant' = [ReconciledGrant(backup.grant) EXCEPT !.lapsed = grant.lapsed]
  /\ sched' = [backup.sched EXCEPT !.lapsed = sched.lapsed]
  /\ occ' = backup.occ /\ runs' = backup.runs
  /\ caller' = [w \in Schedulers |->
                  IF w \in Locking THEN [pc |-> "idle", grant |-> NoGrant, slot |-> "none"]
                  ELSE IF caller[w].pc = "checked"
                       THEN [caller[w] EXCEPT !.pc = "holding", !.slot = "none"] ELSE caller[w]]
  /\ admin' = [a \in Admins |-> HeldOver(admin[a])]
  /\ confirmed' = FALSE
  /\ seen' = [grant |-> Higher(seen.grant, grant.revision),
              sched |-> Higher(seen.sched, SchedRevision)]
  /\ backup' = IF restores' < MaxGrantRestores THEN backup ELSE FirstRows  \* not read again
  /\ UNCHANGED late

ScheduleNext ==
  \/ \E a \in Admins :
       \/ ReadBoth(a) \/ LoadGrant(a) \/ CreateSchedule(a) \/ Pause(a) \/ Resume(a)
       \/ RebindToGrant(a) \/ RevokeGrant(a) \/ RevalidateGrant(a) \/ GiveUp(a)
  \/ \E w \in Schedulers :
       \/ HoldGrant(w) \/ CommitOccurrence(w) \/ SchedulerCrash(w)
       \/ \E s \in DueTimes : CheckOccurrence(w, s) \/ SkipOccurrence(w, s)
  \/ TimePasses \/ OccurrenceEnds \/ TakeBackup \/ RestoreAndReconcile

ScheduleSpec == ScheduleInit /\ [][ScheduleNext]_scheduleVars

-----------------------------------------------------------------------------

Fires(s) == occ[s] = "none" /\ occ'[s] = "admitted" /\ restores' = restores

\* The grant as the database has it authorizes the schedule as it was approved.
GrantStands == ~grant.revoked /\ ~grant.reval /\ grant.revision = sched.grantRevision

\* A scheduler that locks the grant it loads fires an occurrence only while the schedule is
\* not paused and the grant stands as approved, whatever pauses, revocations, confirmations
\* and restores happen around it.
FiresOnlyAsApproved ==
  [][\A w \in Locking, s \in DueTimes :
       Fires(s) /\ caller[w].pc = "checked" /\ caller'[w].pc = "idle" =>
         ~sched.paused /\ GrantStands]_scheduleVars

Confirms(a) == ~confirmed /\ confirmed' /\ admin'[a] # admin[a]

\* After a restore nothing fires under a grant that came back live until a person has confirmed
\* it, even from a scheduler whose grant object is older than the restore; and that person has
\* read it since, unless it came back with a revision that the row had before the restore, which
\* an older read may hold.
RestoredAuthorityIsConfirmed ==
  /\ [][\A s \in DueTimes : Fires(s) /\ ~grant.revoked => confirmed]_scheduleVars
  /\ [][\A a \in Admins : Confirms(a) =>
          admin[a].current \/ grant.revision <= seen.grant]_scheduleVars

\* restore.py of the revision it moves: "Without that, an operator holding a read from *before*
\* the restore could confirm the grant without re-reading it".  So with it, none could.
ConfirmedAfterReading == [][\A a \in Admins : Confirms(a) => admin[a].current]_scheduleVars

\* A duplicated timer produces one run, a skipped slot none, and no run is left without the
\* occurrence it was created for.
OneRunPerOccurrence == \A s \in DueTimes : (runs[s] # "none") <=> (occ[s] = "admitted")

\* A desktop holds one attempt, so at most one occurrence of the schedule is in progress.
NoBurst == Cardinality({s \in DueTimes : runs[s] = "active"}) <= 1

Unpauses(a) ==
  sched.paused /\ ~sched'.paused /\ restores' = restores /\ admin'[a] # admin[a]

\* A pause is undone only by somebody who saw the schedule paused, whoever else paused, resumed
\* or bound it again in the meantime; what was read before a restore counts only as far as the
\* restored row repeats a revision, for reconciliation does not move a schedule's.
PauseIsNotUndoneUnseen ==
  [][\A a \in Admins : Unpauses(a) =>
       admin[a].paused \/ (~admin[a].current /\ sched.revision <= seen.sched)]_scheduleVars

\* A schedule fires once per slot, one run at a time, and only under the authority that a
\* person approved or, after a restore, confirmed.
SchedulesAreAuthorized ==
  /\ [](ScheduleTypeOK /\ OneRunPerOccurrence /\ NoBurst)
  /\ FiresOnlyAsApproved /\ RestoredAuthorityIsConfirmed /\ PauseIsNotUndoneUnseen
=============================================================================
