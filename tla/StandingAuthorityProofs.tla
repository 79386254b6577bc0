----------------------- MODULE StandingAuthorityProofs -----------------------
(***************************************************************************)
(* Proofs about authority that outlives the request it was given in: a     *)
(* schedule that fires under a standing grant, and a backup that is served *)
(* again.                                                                  *)
(***************************************************************************)
EXTENDS GrantSchedules, RestoreReconcile, FiniteSetTheorems, TLAPS

-----------------------------------------------------------------------------
(* Grants and schedules: the inductive invariant.                          *)

ScheduleRow == [exists : BOOLEAN, revision : 1 .. MaxScheduleRevision,
                grantRevision : 1 .. MaxGrantRevision, paused : BOOLEAN, lapsed : BOOLEAN]
AdminRow == [pc : {"idle", "read", "loaded"}, grantRevision : 0 .. MaxGrantRevision,
             schedRevision : 0 .. MaxScheduleRevision, grant : GrantRow,
             current : BOOLEAN, paused : BOOLEAN]
SeenRow == [grant : 0 .. MaxGrantRevision, sched : 0 .. MaxScheduleRevision]
CallerRow == [pc : {"idle", "holding", "checked"}, grant : GrantRow, slot : DueTimes \cup {"none"}]

\* One run per admitted occurrence, and one run at a time.
Accounted(o, r) ==
  /\ \A s \in DueTimes : r[s] # "none" <=> o[s] = "admitted"
  /\ \A s, t \in DueTimes : r[s] = "active" /\ r[t] = "active" => s = t

\* A backup is a state the database was in.
BackupIsAState ==
  /\ backup \in [grant : GrantRow, sched : ScheduleRow,
                 occ : [DueTimes -> {"none", "skipped", "admitted"}],
                 runs : [DueTimes -> {"none", "active", "ended"}]]
  /\ Accounted(backup.occ, backup.runs)

\* The schedule's row lock keeps what admit_occurrence checked true until it commits; the
\* grant may be revoked meanwhile, but not come back from a restore.
CheckedStands ==
  \A w \in Schedulers :
    caller[w].pc = "checked" =>
      /\ caller[w].slot \in DueTimes /\ sched.exists /\ ~sched.paused /\ ~grant.reval
      /\ ~caller[w].grant.revoked /\ caller[w].grant.revision = sched.grantRevision
      /\ \A s \in DueTimes : runs[s] # "active"
OneChecked ==
  \A v, w \in Schedulers : caller[v].pc = "checked" /\ caller[w].pc = "checked" => v = w

\* A locked grant is the grant that was loaded.
LockedStands ==
  \A w \in Locking :
    caller[w].pc # "idle" =>
      /\ grant.revision = caller[w].grant.revision
      /\ grant.revoked = caller[w].grant.revoked /\ grant.reval = caller[w].grant.reval

\* A grant that a restore brought back waits for its confirmation.
ConfirmedOrFenced == confirmed \/ grant.revoked \/ grant.reval

\* What a person has read since the last restore is no newer than the rows, and of the same
\* revision shows the same pause; what was read before it, a row had before it.
Fits(r) ==
  r.pc # "idle" =>
    IF r.current
    THEN /\ r.grantRevision <= grant.revision /\ r.schedRevision <= SchedRevision
         /\ sched.exists /\ r.schedRevision = sched.revision => r.paused = sched.paused
    ELSE r.grantRevision <= seen.grant /\ r.schedRevision <= seen.sched
ReadingsFit == \A a \in Admins : Fits(admin[a])

ScheduleInv ==
  /\ ScheduleTypeOK /\ Accounted(occ, runs) /\ BackupIsAState /\ ReadingsFit
  /\ CheckedStands /\ OneChecked /\ LockedStands /\ ConfirmedOrFenced

LEMMA ScheduleTypes ==
    ScheduleTypeOK <=>
      /\ grant \in GrantRow /\ sched \in ScheduleRow
      /\ occ \in [DueTimes -> {"none", "skipped", "admitted"}]
      /\ runs \in [DueTimes -> {"none", "active", "ended"}]
      /\ late \subseteq DueTimes
      /\ admin \in [Admins -> AdminRow] /\ caller \in [Schedulers -> CallerRow]
      /\ confirmed \in BOOLEAN /\ seen \in SeenRow /\ restores \in 0 .. MaxGrantRestores
    BY DEF ScheduleTypeOK, ScheduleRow, AdminRow, SeenRow, CallerRow

LEMMA NoGrantIsARow == NoGrant \in GrantRow
    BY ScheduleAssumption DEF NoGrant, GrantRow

LEMMA NoRequestIsARow == NoRequest \in AdminRow /\ NoRequest.pc = "idle"
    BY NoGrantIsARow, ScheduleAssumption DEF NoRequest, AdminRow

LEMMA FirstRowsAreAState ==
    /\ FirstRows \in [grant : GrantRow, sched : ScheduleRow,
                      occ : [DueTimes -> {"none", "skipped", "admitted"}],
                      runs : [DueTimes -> {"none", "active", "ended"}]]
    /\ Accounted(FirstRows.occ, FirstRows.runs)
    BY ScheduleAssumption DEF FirstRows, GrantRow, ScheduleRow, Accounted

LEMMA ScheduleBegins == ScheduleInit => ScheduleInv
<1> SUFFICES ASSUME ScheduleInit PROVE ScheduleInv
    OBVIOUS
<1>1. /\ grant \in GrantRow /\ sched \in ScheduleRow
      /\ occ \in [DueTimes -> {"none", "skipped", "admitted"}]
      /\ runs \in [DueTimes -> {"none", "active", "ended"}] /\ Accounted(occ, runs)
    BY FirstRowsAreAState DEF ScheduleInit
<1>2. admin \in [Admins -> AdminRow] /\ caller \in [Schedulers -> CallerRow]
    BY NoGrantIsARow, NoRequestIsARow DEF ScheduleInit, CallerRow
<1>3. ScheduleTypeOK
    BY <1>1, <1>2, ScheduleTypes, ScheduleAssumption DEF ScheduleInit, SeenRow
<1>4. ReadingsFit
    BY NoRequestIsARow DEF ScheduleInit, ReadingsFit, Fits
<1>5. BackupIsAState
    BY FirstRowsAreAState DEF ScheduleInit, BackupIsAState
<1>6. \A w \in Schedulers : caller[w].pc = "idle"
    BY DEF ScheduleInit
<1>7. CheckedStands /\ OneChecked /\ LockedStands
    BY <1>6, ScheduleAssumption DEF CheckedStands, OneChecked, LockedStands
<1> QED
    BY <1>1, <1>3, <1>4, <1>5, <1>7 DEF ScheduleInv, ConfirmedOrFenced, ScheduleInit

-----------------------------------------------------------------------------
(* What people do.                                                         *)

\* A request of a person leaves the schedulers, the occurrences and the backup alone.
LEMMA AdminStep ==
    ASSUME ScheduleInv, UNCHANGED <<occ, runs, late, caller, backup, seen, restores>>,
           admin' \in [Admins -> AdminRow], grant' \in GrantRow, sched' \in ScheduleRow,
           confirmed' \in BOOLEAN,
           \/ UNCHANGED sched
           \/ ~sched.exists /\ sched'.exists /\ ~ScheduleLocked
           \/ ~ScheduleLocked,
           \/ grant' = grant /\ confirmed' = confirmed
           \/ /\ ~GrantLocked /\ grant'.revoked /\ grant'.reval = grant.reval
              /\ confirmed' = confirmed
           \/ ~GrantLocked /\ ~grant'.reval /\ confirmed',
           ReadingsFit'
    PROVE  ScheduleInv'
<1>1. ScheduleTypeOK'
    BY ScheduleTypes DEF ScheduleInv, ScheduleTypeOK, ScheduleRow, AdminRow, SeenRow, CallerRow
<1>2. Accounted(occ, runs)' /\ BackupIsAState' /\ OneChecked'
    BY DEF ScheduleInv, Accounted, BackupIsAState, OneChecked
<1>3. CheckedStands'
    BY DEF ScheduleInv, CheckedStands, ScheduleLocked
<1>4. LockedStands'
    BY DEF ScheduleInv, LockedStands, GrantLocked
<1>5. ConfirmedOrFenced'
    BY DEF ScheduleInv, ConfirmedOrFenced
<1> QED
    BY <1>1, <1>2, <1>3, <1>4, <1>5 DEF ScheduleInv

LEMMA AnsweredIsARow ==
    ASSUME ScheduleInv, NEW a \in Admins, Answered(a)
    PROVE  /\ admin' \in [Admins -> AdminRow] /\ admin'[a].pc = "idle"
           /\ \A b \in Admins \ {a} : admin'[b] = admin[b]
    BY NoRequestIsARow, ScheduleTypes DEF ScheduleInv, Answered

\* The answer to one person leaves what the others have read no newer than the rows: every change
\* of a grant or a schedule moves its revision up.
LEMMA AnswerFits ==
    ASSUME ScheduleInv, NEW a \in Admins, Answered(a), UNCHANGED seen,
           grant' \in GrantRow, sched' \in ScheduleRow, grant.revision <= grant'.revision,
           sched' = sched \/ (sched'.exists /\ SchedRevision < sched'.revision)
    PROVE  ReadingsFit'
<1>1. /\ grant \in GrantRow /\ sched \in ScheduleRow /\ admin \in [Admins -> AdminRow]
    BY ScheduleTypes DEF ScheduleInv
<1>2. SchedRevision \in Nat /\ SchedRevision' \in Nat /\ SchedRevision <= SchedRevision'
    BY <1>1, ScheduleAssumption DEF SchedRevision, ScheduleRow
<1>3. ASSUME NEW b \in Admins PROVE Fits(admin[b])'
  <2>1. CASE b = a
      BY <2>1, AnsweredIsARow DEF Fits
  <2>2. CASE b # a
    <3>1. admin'[b] = admin[b] /\ Fits(admin[b]) /\ admin[b] \in AdminRow
        BY <1>1, <2>2, AnsweredIsARow DEF ScheduleInv, ReadingsFit
    <3>2. CASE ~admin[b].current
        BY <3>1, <3>2 DEF Fits
    <3>3. CASE admin[b].current /\ admin[b].pc # "idle"
      <4>1. admin[b].grantRevision <= grant'.revision /\ admin[b].schedRevision <= SchedRevision'
          BY <1>1, <1>2, <3>1, <3>3 DEF Fits, GrantRow, AdminRow
      <4>2. sched'.exists /\ admin[b].schedRevision = sched'.revision => admin[b].paused = sched'.paused
          BY <1>1, <1>2, <3>1, <3>3 DEF Fits, ScheduleRow, AdminRow
      <4> QED
          BY <3>1, <3>3, <4>1, <4>2 DEF Fits
    <3> QED
        BY <3>1, <3>2, <3>3 DEF Fits
  <2> QED
      BY <2>1, <2>2
<1> QED
    BY <1>3 DEF ReadingsFit

\* Nobody holds the schedule's lock before there is a schedule.
LEMMA NoScheduleNoLock == ScheduleInv /\ ~sched.exists => ~ScheduleLocked
    BY DEF ScheduleInv, CheckedStands, ScheduleLocked

LEMMA PeopleKeep ==
    ASSUME ScheduleInv, NEW a \in Admins,
           \/ ReadBoth(a) \/ LoadGrant(a) \/ CreateSchedule(a) \/ Pause(a) \/ Resume(a)
           \/ RebindToGrant(a) \/ RevokeGrant(a) \/ RevalidateGrant(a) \/ GiveUp(a)
    PROVE  ScheduleInv'
<1>0. /\ grant \in GrantRow /\ sched \in ScheduleRow /\ admin[a] \in AdminRow
      /\ admin \in [Admins -> AdminRow] /\ confirmed \in BOOLEAN
    BY ScheduleTypes DEF ScheduleInv
<1>r. /\ grant.revision \in 0 .. MaxGrantRevision /\ sched.revision \in 0 .. MaxScheduleRevision
      /\ sched.revision < MaxScheduleRevision => sched.revision + 1 \in 1 .. MaxScheduleRevision
      /\ grant.revision < MaxGrantRevision => grant.revision + 1 \in 1 .. MaxGrantRevision
      /\ admin[a].grant.revision \in 1 .. MaxGrantRevision
    BY <1>0, ScheduleAssumption DEF GrantRow, ScheduleRow, AdminRow
<1>1. CASE ReadBoth(a)
  <2> DEFINE r == [pc |-> "read", grantRevision |-> grant.revision, schedRevision |-> SchedRevision,
                   grant |-> NoGrant, current |-> TRUE, paused |-> sched.paused]
  <2>1. r \in AdminRow /\ Fits(r) /\ admin' = [admin EXCEPT ![a] = r]
      BY <1>0, <1>r, <1>1, NoGrantIsARow, ScheduleAssumption
         DEF ReadBoth, AdminRow, Fits, SchedRevision, GrantRow, ScheduleRow
  <2>2. UNCHANGED <<grant, sched, seen>>
      BY <1>1 DEF ReadBoth
  <2> HIDE DEF r
  <2>3. admin' \in [Admins -> AdminRow] /\ ReadingsFit'
      BY <1>0, <2>1, <2>2 DEF ScheduleInv, ReadingsFit, Fits, SchedRevision
  <2> QED
      BY <1>0, <1>1, <2>3, AdminStep DEF ReadBoth
<1>2. CASE LoadGrant(a)
  <2>1. admin' \in [Admins -> AdminRow]
      BY <1>0, <1>2 DEF LoadGrant, AdminRow
  <2>2. /\ \A b \in Admins : /\ admin'[b].current = admin[b].current
                             /\ admin'[b].paused = admin[b].paused
                             /\ admin'[b].grantRevision = admin[b].grantRevision
                             /\ admin'[b].schedRevision = admin[b].schedRevision
                             /\ admin'[b].pc # "idle" => admin[b].pc # "idle"
        /\ UNCHANGED <<grant, sched, seen>>
      BY <1>0, <1>2 DEF LoadGrant, AdminRow
  <2>3. ReadingsFit'
      BY <2>2 DEF ScheduleInv, ReadingsFit, Fits, SchedRevision
  <2> QED
      BY <1>0, <1>2, <2>1, <2>3, AdminStep DEF LoadGrant
<1>s. ASSUME Answered(a), UNCHANGED <<grant, seen>>, sched' \in ScheduleRow, sched'.exists,
             SchedRevision < sched'.revision
      PROVE  admin' \in [Admins -> AdminRow] /\ ReadingsFit'
    BY <1>0, <1>r, <1>s, AnsweredIsARow, AnswerFits
<1>g. ASSUME Answered(a), UNCHANGED <<sched, seen>>, grant' \in GrantRow,
             grant.revision <= grant'.revision
      PROVE  admin' \in [Admins -> AdminRow] /\ ReadingsFit'
    BY <1>0, <1>g, AnsweredIsARow, AnswerFits
<1>3. CASE CreateSchedule(a)
  <2>0. /\ sched' \in ScheduleRow /\ ~sched.exists /\ sched'.exists
        /\ sched'.revision = sched.revision
      BY <1>0, <1>3 DEF CreateSchedule, ScheduleRow, AdminRow, GrantRow
  <2>1. /\ sched' \in ScheduleRow /\ ~sched.exists /\ sched'.exists
        /\ SchedRevision < sched'.revision
      BY <1>0, <2>0, ScheduleAssumption DEF ScheduleRow, SchedRevision
  <2>2. admin' \in [Admins -> AdminRow] /\ ReadingsFit'
      BY <1>3, <1>s, <2>1 DEF CreateSchedule
  <2> QED
      BY <1>0, <1>3, <2>1, <2>2, NoScheduleNoLock, AdminStep DEF CreateSchedule
<1>a. ASSUME AtRevision(a)
      PROVE  /\ ~ScheduleLocked /\ sched.exists /\ SchedRevision = sched.revision
             /\ SchedRevision < sched.revision + 1
             /\ sched.revision + 1 \in 1 .. MaxScheduleRevision
    BY <1>0, <1>r, <1>a DEF AtRevision, SchedRevision, ScheduleRow
<1>4. CASE Pause(a)
  <2>1. sched' \in ScheduleRow
      BY <1>0, <1>a, <1>4 DEF Pause, ScheduleRow
  <2>2. CASE sched.paused
    <3>1. admin' \in [Admins -> AdminRow] /\ ReadingsFit'
        BY <1>0, <1>r, <1>4, <1>g, <2>2 DEF Pause, GrantRow
    <3> QED
        BY <1>0, <1>a, <1>4, <2>1, <3>1, AdminStep DEF Pause
  <2>3. CASE ~sched.paused
    <3>1. sched'.exists /\ SchedRevision < sched'.revision
        BY <1>0, <1>a, <1>4, <2>3 DEF Pause, ScheduleRow
    <3>2. admin' \in [Admins -> AdminRow] /\ ReadingsFit'
        BY <1>4, <1>s, <2>1, <3>1 DEF Pause
    <3> QED
        BY <1>0, <1>a, <1>4, <2>1, <3>2, AdminStep DEF Pause
  <2> QED
      BY <2>2, <2>3
<1>5. CASE Resume(a)
  <2>1. sched' \in ScheduleRow /\ sched'.exists /\ SchedRevision < sched'.revision
      BY <1>0, <1>a, <1>5 DEF Resume, ScheduleRow
  <2>2. admin' \in [Admins -> AdminRow] /\ ReadingsFit'
      BY <1>5, <1>s, <2>1 DEF Resume
  <2> QED
      BY <1>0, <1>a, <1>5, <2>1, <2>2, AdminStep DEF Resume
<1>6. CASE RebindToGrant(a)
  <2>1. sched' \in ScheduleRow /\ sched'.exists /\ SchedRevision < sched'.revision
      BY <1>0, <1>r, <1>a, <1>6 DEF RebindToGrant, ScheduleRow
  <2>2. admin' \in [Admins -> AdminRow] /\ ReadingsFit'
      BY <1>6, <1>s, <2>1 DEF RebindToGrant
  <2> QED
      BY <1>0, <1>a, <1>6, <2>1, <2>2, AdminStep DEF RebindToGrant
<1>7. CASE RevokeGrant(a)
  <2>1. /\ grant' \in GrantRow /\ grant'.revision \in {grant.revision, grant.revision + 1}
        /\ grant' = grant \/ (grant'.revoked /\ grant'.reval = grant.reval)
      BY <1>0, <1>r, <1>7 DEF RevokeGrant, GrantRow
  <2>2. admin' \in [Admins -> AdminRow] /\ ReadingsFit'
      BY <1>0, <1>r, <1>7, <1>g, <2>1 DEF RevokeGrant, GrantRow
  <2> QED
      BY <1>0, <1>7, <2>1, <2>2, AdminStep DEF RevokeGrant
<1>8. CASE RevalidateGrant(a)
  <2>1. grant' \in GrantRow /\ ~grant'.reval /\ grant'.revision = grant.revision + 1
      BY <1>0, <1>r, <1>8 DEF RevalidateGrant, GrantRow
  <2>2. admin' \in [Admins -> AdminRow] /\ ReadingsFit'
      BY <1>0, <1>r, <1>8, <1>g, <2>1 DEF RevalidateGrant, GrantRow
  <2> QED
      BY <1>0, <1>8, <2>1, <2>2, AdminStep DEF RevalidateGrant
<1>9. CASE GiveUp(a)
  <2>1. admin' \in [Admins -> AdminRow] /\ ReadingsFit'
      BY <1>0, <1>r, <1>9, <1>g DEF GiveUp, GrantRow
  <2> QED
      BY <1>0, <1>9, <2>1, AdminStep DEF GiveUp
<1> QED
    BY <1>1, <1>2, <1>3, <1>4, <1>5, <1>6, <1>7, <1>8, <1>9

-----------------------------------------------------------------------------
(* What schedulers do.                                                     *)

\* A transaction that ends, or only loads the grant, leaves the locks of the others as they were.
LEMMA SchedulerStep ==
    ASSUME ScheduleInv, NEW w \in Schedulers, NEW v \in CallerRow,
           caller' = [caller EXCEPT ![w] = v],
           UNCHANGED <<grant, sched, late, admin, backup, confirmed, seen, restores>>,
           v.pc # "checked", w \in Locking => v.pc = "idle" \/ v.grant = grant,
           occ' \in [DueTimes -> {"none", "skipped", "admitted"}],
           runs' \in [DueTimes -> {"none", "active", "ended"}],
           Accounted(occ', runs'),
           caller[w].pc = "checked" \/ \A s \in DueTimes : runs'[s] = "active" => runs[s] = "active"
    PROVE  ScheduleInv'
<1>1. /\ caller \in [Schedulers -> CallerRow] /\ caller' \in [Schedulers -> CallerRow]
      /\ caller'[w] = v /\ \A u \in Schedulers : u # w => caller'[u] = caller[u]
    BY ScheduleTypes DEF ScheduleInv
<1>2. ScheduleTypeOK'
    BY <1>1, ScheduleTypes DEF ScheduleInv, ScheduleTypeOK, CallerRow
<1>3. OneChecked'
    BY <1>1 DEF ScheduleInv, OneChecked
<1>4. CheckedStands'
    BY <1>1 DEF ScheduleInv, CheckedStands, OneChecked
<1>5. LockedStands'
    BY <1>1, ScheduleAssumption DEF ScheduleInv, LockedStands
<1>6. BackupIsAState' /\ ConfirmedOrFenced' /\ Accounted(occ, runs)' /\ ReadingsFit'
    BY DEF ScheduleInv, BackupIsAState, ConfirmedOrFenced, Accounted, ReadingsFit, Fits, SchedRevision
<1> QED
    BY <1>2, <1>3, <1>4, <1>5, <1>6 DEF ScheduleInv

\* The end of a scheduler's transaction.
LEMMA ReleasedIsUnlocked ==
    ASSUME ScheduleInv, NEW w \in Schedulers, Released(w)
    PROVE  \E v \in CallerRow : /\ caller' = [caller EXCEPT ![w] = v] /\ v.pc # "checked"
                                /\ w \in Locking => v.pc = "idle"
<1> DEFINE v == [pc |-> IF w \in Locking THEN "idle" ELSE "holding", slot |-> "none",
                 grant |-> IF w \in Locking THEN NoGrant ELSE caller[w].grant]
<1>1. caller[w].grant \in GrantRow
    BY ScheduleTypes DEF ScheduleInv, CallerRow
<1>2. v \in CallerRow
    BY <1>1, NoGrantIsARow DEF CallerRow
<1>3. caller' = [caller EXCEPT ![w] = v] /\ v.pc # "checked" /\ (w \in Locking => v.pc = "idle")
    BY DEF Released
<1> QED
    BY <1>2, <1>3

\* The row lock and the checks of admit_occurrence.
LEMMA CheckKeeps ==
    ASSUME ScheduleInv, NEW w \in Schedulers, NEW s \in DueTimes, CheckOccurrence(w, s)
    PROVE  ScheduleInv'
<1>1. /\ caller \in [Schedulers -> CallerRow] /\ caller' \in [Schedulers -> CallerRow]
      /\ caller'[w].pc = "checked" /\ caller'[w].slot = s /\ caller'[w].grant = caller[w].grant
      /\ \A u \in Schedulers : u # w => caller'[u] = caller[u] /\ caller[u].pc # "checked"
      /\ caller[w].pc = "holding"
      /\ UNCHANGED <<grant, sched, occ, runs, late, admin, backup, confirmed, seen, restores>>
    BY ScheduleTypes DEF ScheduleInv, CheckOccurrence, CallerRow, ScheduleLocked
<1>2. ScheduleTypeOK'
    BY <1>1, ScheduleTypes DEF ScheduleInv, ScheduleTypeOK, CallerRow
<1>3. OneChecked'
    BY <1>1 DEF OneChecked
<1>4. \A t \in DueTimes : runs[t] # "active"
    BY DEF ScheduleInv, Accounted, CheckOccurrence, Admissible, ActiveOccurrence
<1>5. /\ sched.exists /\ ~sched.paused /\ ~grant.reval
      /\ ~caller[w].grant.revoked /\ caller[w].grant.revision = sched.grantRevision
    BY DEF CheckOccurrence, Admissible, Usable
<1>6. CheckedStands'
    BY <1>1, <1>4, <1>5 DEF CheckedStands
<1>7. LockedStands'
    BY <1>1, ScheduleAssumption DEF ScheduleInv, LockedStands
<1>8. BackupIsAState' /\ ConfirmedOrFenced' /\ Accounted(occ, runs)' /\ ReadingsFit'
    BY <1>1 DEF ScheduleInv, BackupIsAState, ConfirmedOrFenced, Accounted, ReadingsFit, Fits,
       SchedRevision
<1> QED
    BY <1>2, <1>3, <1>6, <1>7, <1>8 DEF ScheduleInv

\* An occurrence is admitted with its run, while no other run is active.
LEMMA CommitKeeps ==
    ASSUME ScheduleInv, NEW w \in Schedulers, CommitOccurrence(w)
    PROVE  ScheduleInv'
<1> DEFINE s == caller[w].slot
<1>1. /\ caller[w].pc = "checked" /\ s \in DueTimes /\ \A t \in DueTimes : runs[t] # "active"
      /\ occ \in [DueTimes -> {"none", "skipped", "admitted"}]
      /\ runs \in [DueTimes -> {"none", "active", "ended"}]
    BY ScheduleTypes DEF CommitOccurrence, ScheduleInv, CheckedStands
<1>2. PICK v \in CallerRow : /\ caller' = [caller EXCEPT ![w] = v] /\ v.pc # "checked"
                             /\ w \in Locking => v.pc = "idle"
    BY ReleasedIsUnlocked DEF CommitOccurrence
<1>3. UNCHANGED <<grant, sched, late, admin, backup, confirmed, seen, restores>>
    BY DEF CommitOccurrence
<1>4. \/ occ' = [occ EXCEPT ![s] = "admitted"] /\ runs' = [runs EXCEPT ![s] = "active"]
      \/ occ' = occ /\ runs' = runs
    BY DEF CommitOccurrence
<1> HIDE DEF s
<1>5. /\ occ' \in [DueTimes -> {"none", "skipped", "admitted"}]
      /\ runs' \in [DueTimes -> {"none", "active", "ended"}] /\ Accounted(occ', runs')
    BY <1>1, <1>4 DEF ScheduleInv, Accounted
<1> QED
    BY <1>1, <1>2, <1>3, <1>5, SchedulerStep

LEMMA SchedulersKeep ==
    ASSUME ScheduleInv, NEW w \in Schedulers,
           \/ HoldGrant(w) \/ CommitOccurrence(w) \/ SchedulerCrash(w)
           \/ \E s \in DueTimes : CheckOccurrence(w, s) \/ SkipOccurrence(w, s)
    PROVE  ScheduleInv'
<1>0. /\ grant \in GrantRow /\ caller[w] \in CallerRow /\ Accounted(occ, runs)
      /\ occ \in [DueTimes -> {"none", "skipped", "admitted"}]
      /\ runs \in [DueTimes -> {"none", "active", "ended"}]
    BY ScheduleTypes DEF ScheduleInv
<1>1. CASE HoldGrant(w)
  <2> DEFINE v == [caller[w] EXCEPT !.pc = "holding", !.grant = grant]
  <2>1. /\ v \in CallerRow /\ v.pc = "holding" /\ v.grant = grant
        /\ caller' = [caller EXCEPT ![w] = v]
        /\ UNCHANGED <<grant, sched, occ, runs, late, admin, backup, confirmed, seen, restores>>
      BY <1>0, <1>1 DEF HoldGrant, CallerRow
  <2> HIDE DEF v
  <2> QED
      BY <1>0, <2>1, SchedulerStep
<1>2. CASE CommitOccurrence(w)
    BY <1>2, CommitKeeps
<1>3. CASE SchedulerCrash(w)
  <2> DEFINE v == [pc |-> "idle", grant |-> NoGrant, slot |-> "none"]
  <2>1. /\ v \in CallerRow /\ v.pc = "idle" /\ caller' = [caller EXCEPT ![w] = v]
        /\ UNCHANGED <<grant, sched, occ, runs, late, admin, backup, confirmed, seen, restores>>
      BY <1>3, NoGrantIsARow DEF SchedulerCrash, CallerRow
  <2> HIDE DEF v
  <2> QED
      BY <1>0, <2>1, SchedulerStep
<1>4. ASSUME NEW s \in DueTimes, SkipOccurrence(w, s) PROVE ScheduleInv'
  <2>1. PICK v \in CallerRow : /\ caller' = [caller EXCEPT ![w] = v] /\ v.pc # "checked"
                               /\ w \in Locking => v.pc = "idle"
      BY <1>4, ReleasedIsUnlocked DEF SkipOccurrence
  <2>2. /\ UNCHANGED <<grant, sched, runs, late, admin, backup, confirmed, seen, restores>>
        /\ occ' = [occ EXCEPT ![s] = IF @ = "none" THEN "skipped" ELSE @]
      BY <1>4 DEF SkipOccurrence
  <2>3. occ' \in [DueTimes -> {"none", "skipped", "admitted"}] /\ Accounted(occ', runs')
      BY <1>0, <2>2 DEF Accounted
  <2> QED
      BY <1>0, <2>1, <2>2, <2>3, SchedulerStep
<1> QED
    BY <1>1, <1>2, <1>3, <1>4, CheckKeeps

-----------------------------------------------------------------------------
(* Time, backup and restore.                                               *)

LEMMA TimeKeeps == ScheduleInv /\ TimePasses => ScheduleInv'
<1> SUFFICES ASSUME ScheduleInv, TimePasses PROVE ScheduleInv'
    OBVIOUS
<1>1. /\ UNCHANGED <<occ, runs, admin, caller, backup, confirmed, seen, restores>>
      /\ late' \subseteq DueTimes
      /\ \/ UNCHANGED sched \/ sched' = [sched EXCEPT !.lapsed = TRUE]
      /\ \/ UNCHANGED grant \/ grant' = [grant EXCEPT !.lapsed = TRUE]
    BY ScheduleTypes DEF TimePasses, ScheduleInv
<1>2. grant \in GrantRow /\ sched \in ScheduleRow
    BY ScheduleTypes DEF ScheduleInv
<1>3. /\ grant' \in GrantRow /\ sched' \in ScheduleRow
      /\ grant'.revision = grant.revision /\ grant'.revoked = grant.revoked
      /\ grant'.reval = grant.reval /\ sched'.exists = sched.exists
      /\ sched'.paused = sched.paused /\ sched'.grantRevision = sched.grantRevision
      /\ sched'.revision = sched.revision
    BY <1>1, <1>2 DEF GrantRow, ScheduleRow
<1>4. ScheduleTypeOK'
    BY <1>1, <1>3, ScheduleTypes DEF ScheduleInv, ScheduleTypeOK, ScheduleRow
<1>5. CheckedStands' /\ OneChecked'
    BY <1>1, <1>3 DEF ScheduleInv, CheckedStands, OneChecked
<1>6. LockedStands' /\ ConfirmedOrFenced' /\ ReadingsFit'
    BY <1>1, <1>3 DEF ScheduleInv, LockedStands, ConfirmedOrFenced, ReadingsFit, Fits, SchedRevision
<1>7. Accounted(occ, runs)' /\ BackupIsAState'
    BY <1>1 DEF ScheduleInv, Accounted, BackupIsAState
<1> QED
    BY <1>4, <1>5, <1>6, <1>7 DEF ScheduleInv

LEMMA OccurrenceEndsKeeps == ScheduleInv /\ OccurrenceEnds => ScheduleInv'
<1> SUFFICES ASSUME ScheduleInv, NEW s \in DueTimes, runs[s] = "active",
                    runs' = [runs EXCEPT ![s] = "ended"],
                    UNCHANGED <<grant, sched, occ, late, admin, caller, backup, confirmed, seen, restores>>
             PROVE  ScheduleInv'
    BY DEF OccurrenceEnds
<1>1. /\ runs \in [DueTimes -> {"none", "active", "ended"}]
      /\ runs' \in [DueTimes -> {"none", "active", "ended"}]
      /\ \A t \in DueTimes : (runs'[t] = "active" => runs[t] = "active") /\ (runs'[t] # "none" <=> runs[t] # "none")
    BY ScheduleTypes DEF ScheduleInv
<1>2. ScheduleTypeOK'
    BY <1>1, ScheduleTypes DEF ScheduleInv, ScheduleTypeOK
<1>3. Accounted(occ, runs)' /\ BackupIsAState'
    BY <1>1 DEF ScheduleInv, Accounted, BackupIsAState
<1>4. CheckedStands' /\ OneChecked' /\ LockedStands' /\ ConfirmedOrFenced' /\ ReadingsFit'
    BY <1>1 DEF ScheduleInv, CheckedStands, OneChecked, LockedStands, ConfirmedOrFenced,
       ReadingsFit, Fits, SchedRevision
<1> QED
    BY <1>2, <1>3, <1>4 DEF ScheduleInv

LEMMA BackupKeeps == ScheduleInv /\ TakeBackup => ScheduleInv'
<1> SUFFICES ASSUME ScheduleInv, TakeBackup PROVE ScheduleInv'
    OBVIOUS
<1>1. /\ UNCHANGED <<grant, sched, occ, runs, late, admin, caller, confirmed, seen, restores>>
      /\ backup' = [grant |-> grant, sched |-> sched, occ |-> occ, runs |-> runs]
    BY DEF TakeBackup, Rows
<1>2. BackupIsAState'
    BY <1>1, ScheduleTypes DEF ScheduleInv, BackupIsAState, Accounted
<1>3. ScheduleTypeOK' /\ Accounted(occ, runs)'
    BY <1>1 DEF ScheduleInv, ScheduleTypeOK, Accounted
<1>4. CheckedStands' /\ OneChecked' /\ LockedStands' /\ ConfirmedOrFenced' /\ ReadingsFit'
    BY <1>1 DEF ScheduleInv, CheckedStands, OneChecked, LockedStands, ConfirmedOrFenced,
       ReadingsFit, Fits, SchedRevision
<1> QED
    BY <1>2, <1>3, <1>4 DEF ScheduleInv

\* A restore drops the open transactions, and what it brings back live waits for a person.
LEMMA RestoreKeeps == ScheduleInv /\ RestoreAndReconcile => ScheduleInv'
<1> SUFFICES ASSUME ScheduleInv, RestoreAndReconcile PROVE ScheduleInv'
    OBVIOUS
<1>1. /\ backup.grant \in GrantRow /\ backup.sched \in ScheduleRow
      /\ backup.occ \in [DueTimes -> {"none", "skipped", "admitted"}]
      /\ backup.runs \in [DueTimes -> {"none", "active", "ended"}]
      /\ Accounted(backup.occ, backup.runs) /\ grant \in GrantRow /\ sched \in ScheduleRow
    BY ScheduleTypes DEF ScheduleInv, BackupIsAState
<1>2. backup.grant.revision + 1 \in 1 .. MaxGrantRevision
  <2>1. backup.grant.revision < MaxGrantRevision
      BY DEF RestoreAndReconcile
  <2>2. backup.grant.revision \in 1 .. MaxGrantRevision
      BY <1>1 DEF GrantRow
  <2> QED
      BY <2>1, <2>2, ScheduleAssumption
<1>3. ReconciledGrant(backup.grant) \in GrantRow
    BY <1>1, <1>2 DEF ReconciledGrant, GrantRow
<1>4. grant' \in GrantRow /\ sched' \in ScheduleRow /\ (grant'.revoked \/ grant'.reval)
  <2>1. ReconciledGrant(backup.grant).revoked \/ ReconciledGrant(backup.grant).reval
      BY <1>1 DEF ReconciledGrant, GrantRow
  <2> QED
      BY <1>1, <1>3, <2>1 DEF RestoreAndReconcile, GrantRow, ScheduleRow
<1>5. /\ caller' \in [Schedulers -> CallerRow]
      /\ \A w \in Schedulers : caller'[w].pc # "checked" /\ (w \in Locking => caller'[w].pc = "idle")
  <2>1. caller \in [Schedulers -> CallerRow]
      BY ScheduleTypes DEF ScheduleInv
  <2>2. [pc |-> "idle", grant |-> NoGrant, slot |-> "none"] \in CallerRow
      BY NoGrantIsARow DEF CallerRow
  <2>3. \A w \in Schedulers : [caller[w] EXCEPT !.pc = "holding", !.slot = "none"] \in CallerRow
      BY <2>1 DEF CallerRow
  <2> QED
      BY <2>1, <2>2, <2>3 DEF RestoreAndReconcile, CallerRow
<1>6. admin' \in [Admins -> AdminRow] /\ seen' \in SeenRow /\ ReadingsFit'
  <2>1. /\ admin \in [Admins -> AdminRow] /\ seen \in SeenRow /\ ReadingsFit
        /\ SchedRevision \in 0 .. MaxScheduleRevision /\ grant.revision \in 1 .. MaxGrantRevision
      BY <1>1, ScheduleTypes, ScheduleAssumption
         DEF ScheduleInv, SchedRevision, ScheduleRow, GrantRow
  <2>2. /\ seen'.grant = Higher(seen.grant, grant.revision)
        /\ seen'.sched = Higher(seen.sched, SchedRevision) /\ seen' \in SeenRow
    <3>1. seen' = [grant |-> Higher(seen.grant, grant.revision),
                   sched |-> Higher(seen.sched, SchedRevision)]
        BY DEF RestoreAndReconcile
    <3>2. /\ Higher(seen.grant, grant.revision) \in 0 .. MaxGrantRevision
          /\ Higher(seen.sched, SchedRevision) \in 0 .. MaxScheduleRevision
        BY <2>1, ScheduleAssumption DEF SeenRow, Higher
    <3> QED
        BY <3>1, <3>2 DEF SeenRow
  <2>3. /\ seen.grant <= seen'.grant /\ grant.revision <= seen'.grant
        /\ seen.sched <= seen'.sched /\ SchedRevision <= seen'.sched
      BY <2>1, <2>2 DEF SeenRow, Higher
  <2>4. ASSUME NEW r \in AdminRow
        PROVE  /\ HeldOver(r) \in AdminRow /\ ~HeldOver(r).current
               /\ HeldOver(r).pc # "idle" => r.pc # "idle"
               /\ HeldOver(r).grantRevision = r.grantRevision
               /\ HeldOver(r).schedRevision \in {r.schedRevision, 0}
    <3> DEFINE pc == IF r.pc = "idle" THEN "idle" ELSE "read"
               n == IF backup.sched.exists THEN r.schedRevision ELSE 0
    <3>1. HeldOver(r) = [pc |-> pc, grant |-> NoGrant, current |-> FALSE,
                         grantRevision |-> r.grantRevision, schedRevision |-> n,
                         paused |-> r.paused]
        BY DEF HeldOver
    <3>2. n \in 0 .. MaxScheduleRevision
        BY ScheduleAssumption DEF AdminRow
    <3> QED
        BY <3>1, <3>2, NoGrantIsARow DEF AdminRow
  <2>5. admin' = [a \in Admins |-> HeldOver(admin[a])]
      BY DEF RestoreAndReconcile
  <2>6. ASSUME NEW a \in Admins, admin'[a].pc # "idle"
        PROVE  admin'[a].grantRevision <= seen'.grant /\ admin'[a].schedRevision <= seen'.sched
    <3>1. /\ admin[a] \in AdminRow /\ Fits(admin[a]) /\ admin[a].pc # "idle"
          /\ admin'[a].grantRevision = admin[a].grantRevision
          /\ admin'[a].schedRevision \in {admin[a].schedRevision, 0}
        BY <2>1, <2>4, <2>5, <2>6 DEF ReadingsFit
    <3>2. admin[a].grantRevision <= seen'.grant /\ admin[a].schedRevision <= seen'.sched
        BY <2>1, <2>2, <2>3, <3>1 DEF Fits, AdminRow, SeenRow
    <3> QED
        BY <2>2, <3>1, <3>2 DEF SeenRow
  <2>7. ReadingsFit'
    <3>1. ASSUME NEW a \in Admins  PROVE  ~admin'[a].current
        BY <2>1, <2>4, <2>5
    <3> QED
        BY <2>6, <3>1 DEF ReadingsFit, Fits
  <2> QED
      BY <2>1, <2>2, <2>4, <2>5, <2>7
<1>7. restores' \in 0 .. MaxGrantRestores
  <2>1. restores < MaxGrantRestores /\ restores' = restores + 1
      BY DEF RestoreAndReconcile
  <2>2. restores \in 0 .. MaxGrantRestores
      BY ScheduleTypes DEF ScheduleInv
  <2> QED
      BY <2>1, <2>2, ScheduleAssumption
<1>8. /\ occ' = backup.occ /\ runs' = backup.runs /\ late' = late /\ confirmed' = FALSE
      /\ backup' = backup \/ backup' = FirstRows
    BY DEF RestoreAndReconcile
<1>9. ScheduleTypeOK'
  <2>1. late' \subseteq DueTimes /\ confirmed' \in BOOLEAN
      BY <1>8, ScheduleTypes DEF ScheduleInv
  <2>2. /\ occ' \in [DueTimes -> {"none", "skipped", "admitted"}]
        /\ runs' \in [DueTimes -> {"none", "active", "ended"}]
      BY <1>1, <1>8
  <2> QED
      BY <1>4, <1>5, <1>6, <1>7, <2>1, <2>2
         DEF ScheduleTypeOK, ScheduleRow, AdminRow, SeenRow, CallerRow
<1>10. Accounted(occ, runs)' /\ BackupIsAState'
    BY <1>1, <1>8, FirstRowsAreAState DEF ScheduleInv, Accounted, BackupIsAState
<1>11. CheckedStands' /\ OneChecked' /\ LockedStands' /\ ConfirmedOrFenced'
    BY <1>4, <1>5, ScheduleAssumption DEF CheckedStands, OneChecked, LockedStands, ConfirmedOrFenced
<1> QED
    BY <1>6, <1>9, <1>10, <1>11 DEF ScheduleInv

LEMMA ScheduleInvariance == ScheduleInv /\ [ScheduleNext]_scheduleVars => ScheduleInv'
<1> SUFFICES ASSUME ScheduleInv, [ScheduleNext]_scheduleVars PROVE ScheduleInv'
    OBVIOUS
<1>1. CASE UNCHANGED scheduleVars
  <2>1. ScheduleTypeOK' /\ Accounted(occ, runs)' /\ BackupIsAState'
      BY <1>1 DEF scheduleVars, ScheduleInv, ScheduleTypeOK, Accounted, BackupIsAState
  <2>2. CheckedStands' /\ OneChecked' /\ LockedStands' /\ ConfirmedOrFenced'
      BY <1>1 DEF scheduleVars, ScheduleInv, CheckedStands, OneChecked, LockedStands,
         ConfirmedOrFenced
  <2>3. ReadingsFit'
      BY <1>1 DEF scheduleVars, ScheduleInv, ReadingsFit, Fits, SchedRevision
  <2> QED
      BY <2>1, <2>2, <2>3 DEF ScheduleInv
<1> QED
    BY <1>1, PeopleKeep, SchedulersKeep, TimeKeeps, OccurrenceEndsKeeps, BackupKeeps, RestoreKeeps
       DEF ScheduleNext

\* At most one element, however the set is given.
LEMMA AtMostOne ==
    ASSUME NEW S, \A x, y \in S : x = y
    PROVE  Cardinality(S) <= 1
<1>1. CASE S = {}
    BY <1>1, FS_EmptySet
<1>2. CASE S # {}
  <2>1. PICK x : S = {x}
      BY <1>2
  <2> QED
      BY <2>1, FS_Singleton
<1> QED
    BY <1>1, <1>2

\* What an admitted occurrence needs is what the transaction that admits it has checked.
LEMMA FiringStep ==
    ASSUME ScheduleInv, [ScheduleNext]_scheduleVars, NEW s \in DueTimes, Fires(s)
    PROVE  \E w \in Schedulers : CommitOccurrence(w)
<1>1. occ'[s] # occ[s] /\ occ'[s] = "admitted" /\ restores' = restores
    BY DEF Fires
<1>2. ScheduleNext
    BY <1>1 DEF scheduleVars
<1>3. occ \in [DueTimes -> {"none", "skipped", "admitted"}] /\ restores \in 0 .. MaxGrantRestores
    BY ScheduleTypes DEF ScheduleInv
<1>4. ASSUME NEW a \in Admins,
             \/ ReadBoth(a) \/ LoadGrant(a) \/ CreateSchedule(a) \/ Pause(a) \/ Resume(a)
             \/ RebindToGrant(a) \/ RevokeGrant(a) \/ RevalidateGrant(a) \/ GiveUp(a)
      PROVE  FALSE
    BY <1>1, <1>4 DEF ReadBoth, LoadGrant, CreateSchedule, Pause, Resume, RebindToGrant,
       RevokeGrant, RevalidateGrant, GiveUp
<1>5. ASSUME NEW w \in Schedulers,
             \/ HoldGrant(w) \/ SchedulerCrash(w) \/ \E t \in DueTimes : CheckOccurrence(w, t)
      PROVE  FALSE
    BY <1>1, <1>5 DEF HoldGrant, SchedulerCrash, CheckOccurrence
<1>6. ASSUME NEW w \in Schedulers, NEW t \in DueTimes, SkipOccurrence(w, t) PROVE FALSE
    BY <1>1, <1>3, <1>6 DEF SkipOccurrence
<1>7. ~TimePasses /\ ~OccurrenceEnds /\ ~TakeBackup
    BY <1>1 DEF TimePasses, OccurrenceEnds, TakeBackup
<1>8. ~RestoreAndReconcile
  <2>1. RestoreAndReconcile => restores' = restores + 1
      BY DEF RestoreAndReconcile
  <2> QED
      BY <1>1, <1>3, <2>1
<1> QED
    BY <1>2, <1>4, <1>5, <1>6, <1>7, <1>8 DEF ScheduleNext

\* Whoever confirms a restored grant, or undoes a pause, has a reading that fits and that names
\* the revision of the row.
LEMMA ConfirmStep ==
    ASSUME ScheduleInv, [ScheduleNext]_scheduleVars, NEW a \in Admins, Confirms(a)
    PROVE  admin[a].current \/ grant.revision <= seen.grant
<1>0. admin \in [Admins -> AdminRow] /\ confirmed # confirmed' /\ admin'[a] # admin[a]
    BY ScheduleTypes DEF ScheduleInv, Confirms
<1>1. ScheduleNext
    BY <1>0 DEF scheduleVars
<1>2. PICK b \in Admins : RevalidateGrant(b)
  <2>1. ~RestoreAndReconcile
      BY DEF RestoreAndReconcile, Confirms
  <2> QED
      BY <1>0, <1>1, <2>1 DEF ScheduleNext, ReadBoth, LoadGrant, CreateSchedule, Pause, Resume,
         RebindToGrant, RevokeGrant, GiveUp, HoldGrant, CommitOccurrence, SchedulerCrash,
         CheckOccurrence, SkipOccurrence, TimePasses, OccurrenceEnds, TakeBackup
<1>3. a = b
    BY <1>0, <1>2 DEF RevalidateGrant, Answered
<1>4. Fits(admin[a]) /\ admin[a].pc = "read" /\ grant.revision = admin[a].grantRevision
    BY <1>2, <1>3 DEF ScheduleInv, ReadingsFit, RevalidateGrant
<1> QED
    BY <1>4 DEF Fits

LEMMA UnpauseStep ==
    ASSUME ScheduleInv, [ScheduleNext]_scheduleVars, NEW a \in Admins, Unpauses(a)
    PROVE  admin[a].paused \/ (~admin[a].current /\ sched.revision <= seen.sched)
<1>0. /\ sched \in ScheduleRow /\ admin \in [Admins -> AdminRow]
      /\ restores \in 0 .. MaxGrantRestores
      /\ sched.paused /\ ~sched'.paused /\ restores' = restores /\ admin'[a] # admin[a]
    BY ScheduleTypes DEF ScheduleInv, Unpauses
<1>1. ScheduleNext
    BY <1>0 DEF scheduleVars
<1>2. ASSUME NEW b \in Admins, Resume(b) \/ RebindToGrant(b)
      PROVE  admin[a].paused \/ (~admin[a].current /\ sched.revision <= seen.sched)
  <2>1. Answered(b) /\ AtRevision(b) /\ admin[b].pc # "idle"
      BY <1>2 DEF Resume, RebindToGrant
  <2>2. a = b
      BY <1>0, <2>1 DEF Answered
  <2>3. Fits(admin[a]) /\ sched.exists /\ sched.revision = admin[a].schedRevision
      BY <2>1, <2>2 DEF ScheduleInv, ReadingsFit, AtRevision
  <2> QED
      BY <1>0, <2>1, <2>2, <2>3 DEF Fits, AdminRow
<1>3. ASSUME NEW b \in Admins,
             \/ ReadBoth(b) \/ LoadGrant(b) \/ RevokeGrant(b) \/ RevalidateGrant(b) \/ GiveUp(b)
      PROVE  FALSE
    BY <1>0, <1>3 DEF ReadBoth, LoadGrant, RevokeGrant, RevalidateGrant, GiveUp
<1>4. ASSUME NEW b \in Admins, CreateSchedule(b) \/ Pause(b) PROVE FALSE
    BY <1>0, <1>4 DEF CreateSchedule, Pause, ScheduleRow
<1>5. ASSUME NEW w \in Schedulers,
             \/ HoldGrant(w) \/ CommitOccurrence(w) \/ SchedulerCrash(w)
             \/ \E s \in DueTimes : CheckOccurrence(w, s) \/ SkipOccurrence(w, s)
      PROVE  FALSE
    BY <1>0, <1>5 DEF HoldGrant, CommitOccurrence, SchedulerCrash, CheckOccurrence, SkipOccurrence
<1>6. ~OccurrenceEnds /\ ~TakeBackup /\ ~TimePasses
    BY <1>0 DEF OccurrenceEnds, TakeBackup, TimePasses, ScheduleRow
<1>7. ~RestoreAndReconcile
  <2>1. RestoreAndReconcile => restores' = restores + 1
      BY DEF RestoreAndReconcile
  <2> QED
      BY <1>0, <2>1
<1> QED
    BY <1>1, <1>2, <1>3, <1>4, <1>5, <1>6, <1>7 DEF ScheduleNext

\* A schedule fires once per slot and one run at a time, under a locked grant only as it was
\* approved, under a restored grant only once a person has confirmed it.  That person has read the
\* grant since the restore, and whoever undoes a pause has seen it, except that a reading of
\* before the restore passes for a revision which the row had then and repeats
\* (admit_occurrence, grants.py, schedules.py, restore.py).
THEOREM AuthorizedSchedules == ScheduleSpec => SchedulesAreAuthorized
<1>1. ScheduleInv => ScheduleTypeOK /\ OneRunPerOccurrence /\ NoBurst
  <2> SUFFICES ASSUME ScheduleInv PROVE OneRunPerOccurrence /\ NoBurst
      BY DEF ScheduleInv
  <2>1. OneRunPerOccurrence
      BY DEF ScheduleInv, Accounted, OneRunPerOccurrence
  <2>2. NoBurst
      BY AtMostOne DEF ScheduleInv, Accounted, NoBurst
  <2> QED
      BY <2>1, <2>2
<1>2. ScheduleInv /\ [ScheduleNext]_scheduleVars =>
        [\A w \in Locking, s \in DueTimes :
           Fires(s) /\ caller[w].pc = "checked" /\ caller'[w].pc = "idle" =>
             ~sched.paused /\ GrantStands]_scheduleVars
  <2> SUFFICES ASSUME ScheduleInv, [ScheduleNext]_scheduleVars, NEW w \in Locking,
                      NEW s \in DueTimes, caller[w].pc = "checked"
               PROVE  ~sched.paused /\ GrantStands
      OBVIOUS
  <2> QED
      BY ScheduleAssumption DEF ScheduleInv, CheckedStands, LockedStands, GrantStands
<1>3. ScheduleInv /\ [ScheduleNext]_scheduleVars =>
        [\A s \in DueTimes : Fires(s) /\ ~grant.revoked => confirmed]_scheduleVars
  <2> SUFFICES ASSUME ScheduleInv, [ScheduleNext]_scheduleVars, NEW s \in DueTimes, Fires(s),
                      ~grant.revoked
               PROVE  confirmed
      OBVIOUS
  <2>1. PICK w \in Schedulers : CommitOccurrence(w)
      BY FiringStep
  <2> QED
      BY <2>1 DEF CommitOccurrence, ScheduleInv, CheckedStands, ConfirmedOrFenced
<1>4. ScheduleInv /\ [ScheduleNext]_scheduleVars =>
        [\A a \in Admins : Confirms(a) =>
           admin[a].current \/ grant.revision <= seen.grant]_scheduleVars
    BY ConfirmStep
<1>5. ScheduleInv /\ [ScheduleNext]_scheduleVars =>
        [\A a \in Admins : Unpauses(a) =>
           admin[a].paused \/ (~admin[a].current /\ sched.revision <= seen.sched)]_scheduleVars
    BY UnpauseStep
<1> QED
    BY <1>1, <1>2, <1>3, <1>4, <1>5, ScheduleBegins, ScheduleInvariance, PTL
       DEF ScheduleSpec, SchedulesAreAuthorized, FiresOnlyAsApproved,
           RestoredAuthorityIsConfirmed, PauseIsNotUndoneUnseen

-----------------------------------------------------------------------------
(* Backup, restore and reconciliation: the inductive invariant.            *)

Database == [auth : [Kinds -> {"none", "live", "unverified", "revoked"}],
             lease : {"none", "held", "released"}, runner : {"AVAILABLE", "QUARANTINED"},
             run : {"active", "ambiguous", "quarantined"}, job : {"PENDING", "CLAIMED"},
             outbox : {"pending", "published"}, archived : {"RETAINED", "DELETED"},
             markers : SUBSET (1 .. MaxBackups), present : BOOLEAN]
Objects == {"absent", "bytes", "tombstone"}
Archives == [state : {"none", "dumped", "sealed"}, data : Database, object : Objects,
             id : 0 .. MaxBackups, from : Gen]
Scripts == [pc : {"idle", "objects", "database", "reconcile", "done"}, target : Gen, into : Gen]

RestoreTyped ==
  /\ db \in [Gen -> Database] /\ bucket \in [Gen -> Objects] /\ serving \in Gen /\ at \in Gen
  /\ backedUp \in Archives /\ script \in Scripts /\ drivers \subseteq Gen /\ revoked \subseteq Kinds
  /\ announced \in Nat /\ backups \in 0 .. MaxBackups

\* A runner that may be leased is driven by its own lease's supervisor or by none.
OneDriver ==
  /\ \A g, h \in drivers : g = h
  /\ Here.runner = "AVAILABLE" => drivers \subseteq {serving} /\ (serving \in drivers => Here.lease = "held")

\* What was withdrawn is not live here, and what is pending was not announced.
WithdrawnStays ==
  /\ \A k \in revoked \cap Fenced : Here.auth[k] # "live"
  /\ announced <= 1 /\ (Here.outbox = "pending" => announced = 0)

\* What a finished restore may be served with.
Servable(d) ==
  /\ d.present /\ d.runner = "QUARANTINED" /\ d.outbox = "published"
  /\ \A k \in Kinds \cap Fenced : d.auth[k] # "live"

\* A restore fills a database that nobody serves from, and finishes it reconciled.
TargetApart ==
  script.pc # "idle" =>
    /\ script.target # serving /\ backedUp.state = "sealed"
    /\ script.pc = "reconcile" => db[script.target] = backedUp.data
    /\ script.pc = "done" => Servable(db[script.target])

\* The audit rows a database holds are of backups sealed before what it holds was dumped.
MarkersPrecede ==
  /\ \A g \in Gen : db[g].markers \subseteq 1 .. backups
  /\ backedUp.state # "none" => backedUp.data.present
  /\ backedUp.state = "dumped" => backedUp.data.markers \subseteq 1 .. backups /\ backups < MaxBackups
  /\ backedUp.state = "sealed" =>
       /\ backedUp.id \in 1 .. backups
       /\ backedUp.data.markers \subseteq 1 .. backups /\ backedUp.id \notin backedUp.data.markers

RestoreInv ==
  /\ RestoreTyped /\ Here.present /\ OneDriver /\ WithdrawnStays /\ TargetApart /\ MarkersPrecede

LEMMA RestoreBegins == RestoreInit => RestoreInv
<1> SUFFICES ASSUME RestoreInit PROVE RestoreInv
    OBVIOUS
<1>0. 0 \in Gen
    BY RestoreAssumption DEF Gen
<1>1. Absent \in Database /\ [Absent EXCEPT !.present = TRUE] \in Database
    BY DEF Absent, Database
<1>2. /\ db \in [Gen -> Database] /\ Here = [Absent EXCEPT !.present = TRUE]
      /\ \A g \in Gen : db[g].markers = {}
    BY <1>0, <1>1 DEF RestoreInit, Absent, Here
<1>3. backedUp \in Archives /\ script \in Scripts
    BY <1>0, <1>1, RestoreAssumption
       DEF RestoreInit, NoArchive, NoScript, Archives, Scripts, Objects
<1>4. RestoreTyped
  <2>1. bucket \in [Gen -> Objects]
      BY DEF RestoreInit, Objects
  <2>2. serving \in Gen /\ at \in Gen /\ drivers = {} /\ revoked = {} /\ announced = 0 /\ backups = 0
      BY <1>0 DEF RestoreInit
  <2> QED
      BY <1>2, <1>3, <2>1, <2>2, RestoreAssumption DEF RestoreTyped
<1>5. OneDriver /\ WithdrawnStays /\ TargetApart /\ MarkersPrecede
    BY <1>2 DEF RestoreInit, OneDriver, WithdrawnStays, TargetApart, MarkersPrecede, NoArchive, NoScript
<1>6. Here.present
    BY <1>2 DEF Absent
<1> QED
    BY <1>4, <1>5, <1>6 DEF RestoreInv

-----------------------------------------------------------------------------
(* The system in service.                                                  *)

\* A request in service writes the database in service, which no restore touches.
LEMMA ServiceStep ==
    ASSUME RestoreInv, NEW r \in Database, SetHere(r), r.markers = Here.markers, r.present,
           UNCHANGED <<serving, at, backedUp, script, backups>>,
           bucket' \in [Gen -> Objects], drivers' \subseteq Gen, revoked' \subseteq Kinds,
           announced' \in Nat
    PROVE  /\ RestoreTyped' /\ Here' = r /\ TargetApart' /\ MarkersPrecede'
           /\ OneDriver' /\ WithdrawnStays' => RestoreInv'
<1>1. /\ db \in [Gen -> Database] /\ serving \in Gen /\ db' = [db EXCEPT ![serving] = r]
    BY DEF RestoreInv, RestoreTyped, SetHere
<1>2. /\ db' \in [Gen -> Database] /\ db'[serving] = r
      /\ \A g \in Gen : g # serving => db'[g] = db[g]
    BY <1>1
<1>3. RestoreTyped'
    BY <1>2 DEF RestoreInv, RestoreTyped
<1>4. Here' = r
    BY <1>2 DEF Here
<1>5. TargetApart'
    BY <1>2 DEF RestoreInv, RestoreTyped, TargetApart, Scripts
<1>6. MarkersPrecede'
    BY <1>1, <1>2 DEF RestoreInv, MarkersPrecede, Here
<1> QED
    BY <1>3, <1>4, <1>5, <1>6 DEF RestoreInv

LEMMA AuthorityKeeps ==
    ASSUME RestoreInv, NEW k \in Kinds, Issue(k) \/ WithdrawAuthority(k) \/ Revalidate(k)
    PROVE  RestoreInv'
<1>0. /\ Here \in Database /\ Here.present /\ revoked \subseteq Kinds
      /\ bucket \in [Gen -> Objects] /\ drivers \subseteq Gen /\ announced \in Nat
    BY DEF RestoreInv, RestoreTyped, Here
<1>1. PICK s \in {"live", "revoked"} :
        /\ SetHere([Here EXCEPT !.auth[k] = s])
        /\ revoked' = IF s = "live" THEN revoked \ {k} ELSE revoked \cup {k}
        /\ UNCHANGED <<bucket, serving, at, backedUp, script, drivers, announced, backups>>
    BY DEF Issue, WithdrawAuthority, Revalidate
<1> DEFINE r == [Here EXCEPT !.auth[k] = s]
<1>2. /\ r \in Database /\ r.markers = Here.markers /\ r.present /\ r.runner = Here.runner
      /\ r.lease = Here.lease /\ r.outbox = Here.outbox
      /\ r.auth[k] = s /\ \A j \in Kinds : j # k => r.auth[j] = Here.auth[j]
    BY <1>0 DEF Database
<1>3. SetHere(r) /\ revoked' \subseteq Kinds
    BY <1>0, <1>1
<1> HIDE DEF r
<1>4. Here' = r /\ (OneDriver' /\ WithdrawnStays' => RestoreInv')
    BY <1>0, <1>1, <1>2, <1>3, ServiceStep
<1>5. OneDriver'
    BY <1>1, <1>2, <1>4 DEF RestoreInv, OneDriver
<1>6. WithdrawnStays'
    BY <1>0, <1>1, <1>2, <1>4 DEF RestoreInv, WithdrawnStays
<1> QED
    BY <1>4, <1>5, <1>6

LEMMA DesktopKeeps ==
    ASSUME RestoreInv, GrantLease \/ Act \/ (\E g \in Gen : DriverStops(g)) \/ ResetRunner
    PROVE  RestoreInv'
<1>0. /\ Here \in Database /\ Here.present /\ revoked \subseteq Kinds /\ serving \in Gen
      /\ bucket \in [Gen -> Objects] /\ drivers \subseteq Gen /\ announced \in Nat
      /\ db \in [Gen -> Database] /\ Here = db[serving]
    BY DEF RestoreInv, RestoreTyped, Here
<1>1. CASE GrantLease
  <2> DEFINE r == [Here EXCEPT !.lease = "held", !.job = "CLAIMED"]
  <2>1. /\ r \in Database /\ r.markers = Here.markers /\ r.present /\ r.outbox = Here.outbox
        /\ r.auth = Here.auth /\ r.lease = "held"
      BY <1>0 DEF Database
  <2>2. /\ SetHere(r) /\ drivers' = drivers \cup {serving} /\ Here.runner = "AVAILABLE"
        /\ UNCHANGED <<bucket, serving, at, backedUp, script, revoked, announced, backups>>
      BY <1>1 DEF GrantLease
  <2> HIDE DEF r
  <2>3. Here' = r /\ (OneDriver' /\ WithdrawnStays' => RestoreInv')
      BY <1>0, <2>1, <2>2, ServiceStep
  <2>4. OneDriver' /\ WithdrawnStays'
      BY <2>1, <2>2, <2>3 DEF RestoreInv, OneDriver, WithdrawnStays
  <2> QED
      BY <2>3, <2>4
<1>2. CASE Act
  <2> DEFINE r == [Here EXCEPT !.run = IF @ = "active" THEN "ambiguous" ELSE "active"]
  <2>1. /\ r \in Database /\ r.markers = Here.markers /\ r.present /\ r.outbox = Here.outbox
        /\ r.auth = Here.auth /\ r.lease = Here.lease /\ r.runner = Here.runner
      BY SMTT(60), <1>0 DEF Database
  <2>2. /\ SetHere(r)
        /\ UNCHANGED <<bucket, serving, at, backedUp, script, drivers, revoked, announced, backups>>
      BY <1>2 DEF Act
  <2> HIDE DEF r
  <2>3. Here' = r /\ (OneDriver' /\ WithdrawnStays' => RestoreInv')
      BY <1>0, <2>1, <2>2, ServiceStep
  <2>4. OneDriver' /\ WithdrawnStays'
      BY <2>1, <2>2, <2>3 DEF RestoreInv, OneDriver, WithdrawnStays
  <2> QED
      BY <2>3, <2>4
<1>3. ASSUME NEW g \in Gen, DriverStops(g) PROVE RestoreInv'
  <2>1. /\ g \in drivers /\ drivers' = drivers \ {g}
        /\ UNCHANGED <<bucket, serving, at, backedUp, script, revoked, announced, backups>>
      BY <1>3 DEF DriverStops
  <2>2. CASE g = serving /\ Here.lease = "held"
    <3> DEFINE r == [Here EXCEPT !.lease = "released", !.job = "PENDING"]
    <3>1. /\ r \in Database /\ r.markers = Here.markers /\ r.present /\ r.outbox = Here.outbox
          /\ r.auth = Here.auth /\ r.lease = "released"
        BY <1>0 DEF Database
    <3>2. SetHere(r)
        BY <1>0, <1>3, <2>2 DEF DriverStops, SetHere, Here
    <3> HIDE DEF r
    <3>3. Here' = r /\ (OneDriver' /\ WithdrawnStays' => RestoreInv')
        BY <1>0, <2>1, <3>1, <3>2, ServiceStep
    <3>4. drivers' = {}
        BY <2>1 DEF RestoreInv, OneDriver
    <3>5. OneDriver' /\ WithdrawnStays'
        BY <2>1, <3>1, <3>3, <3>4 DEF RestoreInv, OneDriver, WithdrawnStays
    <3> QED
        BY <3>3, <3>5
  <2>3. CASE ~(g = serving /\ Here.lease = "held")
    <3>1. db' = db
        BY <1>3, <2>3 DEF DriverStops
    <3>2. RestoreTyped' /\ Here' = Here /\ TargetApart' /\ MarkersPrecede'
        BY <1>0, <2>1, <3>1 DEF RestoreInv, RestoreTyped, Here, TargetApart, MarkersPrecede
    <3>3. OneDriver' /\ WithdrawnStays'
        BY <2>1, <3>1, <3>2 DEF RestoreInv, OneDriver, WithdrawnStays
    <3> QED
        BY <3>2, <3>3 DEF RestoreInv
  <2> QED
      BY <2>2, <2>3
<1>4. CASE ResetRunner
  <2> DEFINE r == [Here EXCEPT !.runner = "AVAILABLE"]
  <2>1. /\ r \in Database /\ r.markers = Here.markers /\ r.present /\ r.outbox = Here.outbox
        /\ r.auth = Here.auth
      BY <1>0 DEF Database
  <2>2. /\ SetHere(r) /\ drivers' = {}
        /\ UNCHANGED <<bucket, serving, at, backedUp, script, revoked, announced, backups>>
      BY <1>4 DEF ResetRunner
  <2> HIDE DEF r
  <2>3. Here' = r /\ (OneDriver' /\ WithdrawnStays' => RestoreInv')
      BY <1>0, <2>1, <2>2, ServiceStep
  <2>4. OneDriver' /\ WithdrawnStays'
      BY <2>1, <2>2, <2>3 DEF RestoreInv, OneDriver, WithdrawnStays
  <2> QED
      BY <2>3, <2>4
<1> QED
    BY <1>1, <1>2, <1>3, <1>4

LEMMA WorkKeeps ==
    ASSUME RestoreInv, Deliver \/ RetireBytes \/ RetireRow
    PROVE  RestoreInv'
<1>0. /\ Here \in Database /\ Here.present /\ revoked \subseteq Kinds /\ serving \in Gen
      /\ bucket \in [Gen -> Objects] /\ drivers \subseteq Gen /\ announced \in Nat
    BY DEF RestoreInv, RestoreTyped, Here
<1>1. CASE Deliver
  <2> DEFINE r == [Here EXCEPT !.outbox = "published"]
  <2>1. /\ r \in Database /\ r.markers = Here.markers /\ r.present /\ r.outbox = "published"
        /\ r.auth = Here.auth /\ r.lease = Here.lease /\ r.runner = Here.runner
      BY <1>0 DEF Database
  <2>2. /\ SetHere(r) /\ Here.outbox = "pending" /\ announced' = announced + 1
        /\ UNCHANGED <<bucket, serving, at, backedUp, script, drivers, revoked, backups>>
      BY <1>1 DEF Deliver
  <2>3. announced = 0 /\ announced' = 1
      BY <2>2 DEF RestoreInv, WithdrawnStays
  <2> HIDE DEF r
  <2>4. Here' = r /\ (OneDriver' /\ WithdrawnStays' => RestoreInv')
      BY <1>0, <2>1, <2>2, <2>3, ServiceStep
  <2>5. OneDriver' /\ WithdrawnStays'
      BY <2>1, <2>2, <2>3, <2>4 DEF RestoreInv, OneDriver, WithdrawnStays
  <2> QED
      BY <2>4, <2>5
<1>2. CASE RetireBytes
  <2>1. bucket' \in [Gen -> Objects]
      BY <1>0, <1>2 DEF RetireBytes, Objects
  <2>2. UNCHANGED <<db, serving, at, backedUp, script, drivers, revoked, announced, backups>>
      BY <1>2 DEF RetireBytes
  <2> QED
      BY <2>1, <2>2 DEF RestoreInv, RestoreTyped, Here, OneDriver, WithdrawnStays, TargetApart,
         MarkersPrecede
<1>3. CASE RetireRow
  <2> DEFINE r == [Here EXCEPT !.archived = "DELETED"]
  <2>1. /\ r \in Database /\ r.markers = Here.markers /\ r.present /\ r.outbox = Here.outbox
        /\ r.auth = Here.auth /\ r.lease = Here.lease /\ r.runner = Here.runner
      BY <1>0 DEF Database
  <2>2. /\ SetHere(r)
        /\ UNCHANGED <<bucket, serving, at, backedUp, script, drivers, revoked, announced, backups>>
      BY <1>3 DEF RetireRow
  <2> HIDE DEF r
  <2>3. Here' = r /\ (OneDriver' /\ WithdrawnStays' => RestoreInv')
      BY <1>0, <2>1, <2>2, ServiceStep
  <2>4. OneDriver' /\ WithdrawnStays'
      BY <2>1, <2>2, <2>3 DEF RestoreInv, OneDriver, WithdrawnStays
  <2> QED
      BY <2>3, <2>4
<1> QED
    BY <1>1, <1>2, <1>3

-----------------------------------------------------------------------------
(* Backup and restore.                                                     *)

LEMMA BackupStep ==
    ASSUME RestoreInv, DumpPostgres \/ SealBackup
    PROVE  RestoreInv'
<1>0. /\ Here \in Database /\ Here.present /\ backedUp \in Archives /\ backups \in 0 .. MaxBackups
      /\ bucket \in [Gen -> Objects] /\ at \in Gen /\ serving \in Gen /\ Here = db[serving]
      /\ \A g \in Gen : db[g].markers \subseteq 1 .. backups
    BY DEF RestoreInv, RestoreTyped, Here, MarkersPrecede
<1>1. CASE DumpPostgres
  <2>1. /\ script.pc = "idle" /\ backups < MaxBackups
        /\ backedUp' = [NoArchive EXCEPT !.state = "dumped", !.data = Here]
        /\ UNCHANGED <<db, bucket, serving, at, script, drivers, revoked, announced, backups>>
      BY <1>1 DEF DumpPostgres
  <2>2. backedUp'.state = "dumped" /\ backedUp'.data = Here
      BY <2>1 DEF NoArchive
  <2>3. 0 \in Gen /\ 0 \in 0 .. MaxBackups
      BY RestoreAssumption DEF Gen
  <2>4. backedUp' \in Archives
      BY <1>0, <2>1, <2>3 DEF NoArchive, Archives, Objects
  <2>5. RestoreTyped' /\ Here' = Here
      BY <2>1, <2>4 DEF RestoreInv, RestoreTyped, Here
  <2>6. OneDriver' /\ WithdrawnStays'
      BY <2>1, <2>5 DEF RestoreInv, OneDriver, WithdrawnStays
  <2>7. TargetApart'
      BY <2>1 DEF TargetApart
  <2>8. MarkersPrecede'
      BY <1>0, <2>1, <2>2 DEF MarkersPrecede
  <2> QED
      BY <1>0, <2>5, <2>6, <2>7, <2>8 DEF RestoreInv
<1>2. CASE SealBackup
  <2>1. /\ backedUp.state = "dumped" /\ backups' = backups + 1
        /\ backedUp' = [backedUp EXCEPT !.state = "sealed", !.object = bucket[at],
                                      !.id = backups + 1, !.from = at]
        /\ UNCHANGED <<db, bucket, serving, at, script, drivers, revoked, announced>>
      BY <1>2 DEF SealBackup
  <2>2. /\ backedUp.data.present /\ backedUp.data.markers \subseteq 1 .. backups /\ backups < MaxBackups
        /\ script.pc = "idle"
      BY <2>1 DEF RestoreInv, MarkersPrecede, TargetApart
  <2>3. backups + 1 \in 0 .. MaxBackups /\ backups + 1 \in 1 .. backups + 1
        /\ 1 .. backups \subseteq 1 .. (backups + 1) /\ backups + 1 \notin 1 .. backups
      BY <1>0, <2>2, RestoreAssumption
  <2>4. /\ backedUp' \in Archives /\ backedUp'.state = "sealed" /\ backedUp'.data = backedUp.data
        /\ backedUp'.id = backups + 1
      BY <1>0, <2>1, <2>3 DEF Archives
  <2>5. RestoreTyped' /\ Here' = Here
      BY <2>1, <2>3, <2>4 DEF RestoreInv, RestoreTyped, Here
  <2>6. OneDriver' /\ WithdrawnStays'
      BY <2>1, <2>5 DEF RestoreInv, OneDriver, WithdrawnStays
  <2>7. TargetApart'
      BY <2>1, <2>2 DEF TargetApart
  <2>8. MarkersPrecede'
      BY <1>0, <2>1, <2>2, <2>3, <2>4 DEF MarkersPrecede
  <2> QED
      BY <1>0, <2>5, <2>6, <2>7, <2>8 DEF RestoreInv
<1> QED
    BY <1>1, <1>2

\* The script that stops leaves nothing half done that anyone serves from.
LEMMA ScriptStep ==
    ASSUME RestoreInv, script' \in Scripts, bucket' \in [Gen -> Objects],
           UNCHANGED <<db, serving, at, backedUp, drivers, revoked, announced, backups>>,
           script'.pc # "idle" =>
             /\ script'.target # serving /\ backedUp.state = "sealed"
             /\ script'.pc \in {"objects", "database"}
    PROVE  RestoreInv'
<1>1. RestoreTyped' /\ Here' = Here
    BY DEF RestoreInv, RestoreTyped, Here
<1>2. OneDriver' /\ WithdrawnStays' /\ MarkersPrecede'
    BY <1>1 DEF RestoreInv, OneDriver, WithdrawnStays, MarkersPrecede
<1>3. TargetApart'
    BY DEF TargetApart
<1> QED
    BY <1>1, <1>2, <1>3 DEF RestoreInv

\* A restored row that reconciliation has been over may be served.
LEMMA ReconciledIsServable ==
    ASSUME NEW d \in Database, NEW id \in 1 .. MaxBackups, d.present
    PROVE  /\ Reconciled(d, id) \in Database /\ Servable(Reconciled(d, id))
           /\ Reconciled(d, id).markers = d.markers \cup {id}
<1> DEFINE w == ReconciledWork(ReconciledDesktop(d))
<1>1. /\ w \in Database /\ w.present /\ w.runner = "QUARANTINED" /\ w.outbox = "published"
      /\ w.markers = d.markers
    BY DEF ReconciledWork, ReconciledDesktop, Database
<1>2. /\ ReconciledAuthority(d) \in [Kinds -> {"none", "live", "unverified", "revoked"}]
      /\ \A k \in Kinds \cap Fenced : ReconciledAuthority(d)[k] # "live"
    BY DEF ReconciledAuthority, Database, Fenced
<1>3. Reconciled(d, id) = [w EXCEPT !.auth = ReconciledAuthority(d), !.markers = w.markers \cup {id}]
    BY DEF Reconciled
<1> HIDE DEF w
<1>5. w.markers \cup {id} \in SUBSET (1 .. MaxBackups)
    BY <1>1 DEF Database
<1>4. /\ Reconciled(d, id) \in Database
      /\ Reconciled(d, id).present /\ Reconciled(d, id).runner = "QUARANTINED"
      /\ Reconciled(d, id).outbox = "published" /\ Reconciled(d, id).auth = ReconciledAuthority(d)
      /\ Reconciled(d, id).markers = d.markers \cup {id}
    BY ZenonT(60), <1>1, <1>2, <1>3, <1>5 DEF Database
<1> QED
    BY <1>2, <1>4 DEF Servable

LEMMA RestoreSteps ==
    ASSUME RestoreInv,
           \/ \E g, b \in Gen : StartRestore(g, b)
           \/ RestoreObjects \/ RestorePostgres \/ Reconcile \/ LeaveUnreconciled \/ Serve
    PROVE  RestoreInv'
<1>0. /\ backedUp \in Archives /\ script \in Scripts /\ backups \in 0 .. MaxBackups
      /\ bucket \in [Gen -> Objects] /\ serving \in Gen /\ db \in [Gen -> Database]
      /\ NoScript \in Scripts /\ NoScript.pc = "idle"
    BY RestoreAssumption DEF RestoreInv, RestoreTyped, NoScript, Scripts, Gen
<1>1. ASSUME NEW g \in Gen, NEW b \in Gen, StartRestore(g, b) PROVE RestoreInv'
  <2>1. script' \in Scripts
      BY <1>1 DEF StartRestore, Scripts
  <2> QED
      BY <1>0, <1>1, <2>1, ScriptStep DEF StartRestore, ArchiveVerified
<1>2. CASE RestoreObjects
  <2>1. bucket' \in [Gen -> Objects]
      BY <1>0, <1>2 DEF RestoreObjects, Archives
  <2>2. script.target # serving /\ backedUp.state = "sealed"
      BY <1>2 DEF RestoreObjects, RestoreInv, TargetApart
  <2>3. /\ script' = [script EXCEPT !.pc = "database"] \/ script' = NoScript
        /\ UNCHANGED <<db, serving, at, backedUp, drivers, revoked, announced, backups>>
      BY <1>2 DEF RestoreObjects, EndScript
  <2>4. script' \in Scripts
      BY <1>0, <2>3 DEF Scripts
  <2>5. script'.pc # "idle" => script'.target = script.target /\ script'.pc = "database"
      BY <1>0, <2>3 DEF Scripts
  <2> QED
      BY <2>1, <2>2, <2>3, <2>4, <2>5, ScriptStep
<1>3. CASE RestorePostgres
  <2> DEFINE g == script.target
  <2>1. /\ g \in Gen /\ g # serving /\ backedUp.state = "sealed" /\ backedUp.data \in Database
        /\ backedUp.data.markers \subseteq 1 .. backups
      BY <1>0, <1>3 DEF RestorePostgres, RestoreInv, TargetApart, MarkersPrecede, Scripts, Archives
  <2>2. /\ db' = [db EXCEPT ![g] = backedUp.data]
        /\ script' = NoScript \/ script' = [script EXCEPT !.pc = "reconcile"]
        /\ UNCHANGED <<bucket, serving, at, backedUp, drivers, revoked, announced, backups>>
      BY <1>3 DEF RestorePostgres
  <2>3. script' \in Scripts /\ (script'.pc # "idle" => script'.target = g /\ script'.pc = "reconcile")
      BY <1>0, <2>2 DEF Scripts
  <2> HIDE DEF g
  <2>4. /\ db' \in [Gen -> Database] /\ db'[g] = backedUp.data /\ db'[serving] = db[serving]
        /\ \A h \in Gen : db'[h].markers \subseteq 1 .. backups
      BY <1>0, <2>1, <2>2 DEF RestoreInv, MarkersPrecede
  <2>5. RestoreTyped' /\ Here' = Here
      BY <2>2, <2>3, <2>4 DEF RestoreInv, RestoreTyped, Here
  <2>6. OneDriver' /\ WithdrawnStays'
      BY <2>2, <2>5 DEF RestoreInv, OneDriver, WithdrawnStays
  <2>7. TargetApart' /\ MarkersPrecede'
      BY <2>1, <2>2, <2>3, <2>4 DEF RestoreInv, TargetApart, MarkersPrecede
  <2> QED
      BY <2>5, <2>6, <2>7 DEF RestoreInv
<1>4. CASE Reconcile
  <2>1. CASE UNCHANGED db /\ script' = NoScript
      BY <1>0, <1>4, <2>1, ScriptStep DEF Reconcile
  <2>2. CASE /\ db' = [db EXCEPT ![script.target] = Reconciled(@, backedUp.id)]
             /\ script' = [script EXCEPT !.pc = "done"]
    <3> DEFINE g == script.target
    <3>1. /\ g \in Gen /\ g # serving /\ backedUp.state = "sealed" /\ db[g] \in Database
          /\ backedUp.id \in 1 .. backups /\ db[g] = backedUp.data /\ backedUp.data.present
        BY <1>0, <1>4 DEF Reconcile, RestoreInv, TargetApart, MarkersPrecede, Scripts
    <3>2. /\ db' = [db EXCEPT ![g] = Reconciled(db[g], backedUp.id)]
          /\ UNCHANGED <<bucket, serving, at, backedUp, drivers, revoked, announced, backups>>
        BY <1>0, <1>4, <2>2, <3>1 DEF Reconcile
    <3>3. script' \in Scripts /\ script'.target = g /\ script'.pc = "done"
        BY <1>0, <2>2 DEF Scripts
    <3>4. backedUp.id \in 1 .. MaxBackups
        BY <1>0, <3>1, RestoreAssumption
    <3> HIDE DEF g
    <3>5. /\ Reconciled(db[g], backedUp.id) \in Database /\ Servable(Reconciled(db[g], backedUp.id))
          /\ Reconciled(db[g], backedUp.id).markers = db[g].markers \cup {backedUp.id}
        BY <3>1, <3>4, ReconciledIsServable
    <3>6. /\ db' \in [Gen -> Database] /\ Servable(db'[g]) /\ db'[serving] = db[serving]
          /\ \A h \in Gen : db'[h].markers \subseteq 1 .. backups
        BY <1>0, <3>1, <3>2, <3>5 DEF RestoreInv, MarkersPrecede
    <3>7. RestoreTyped' /\ Here' = Here
        BY <3>2, <3>3, <3>6 DEF RestoreInv, RestoreTyped, Here
    <3>8. OneDriver' /\ WithdrawnStays'
        BY <3>2, <3>7 DEF RestoreInv, OneDriver, WithdrawnStays
    <3>9. TargetApart' /\ MarkersPrecede'
        BY <3>1, <3>2, <3>3, <3>6 DEF RestoreInv, TargetApart, MarkersPrecede
    <3> QED
        BY <3>7, <3>8, <3>9 DEF RestoreInv
  <2> QED
      BY <1>4, <2>1, <2>2 DEF Reconcile, EndScript
<1>5. CASE LeaveUnreconciled
    BY <1>0, <1>5, ScriptStep DEF LeaveUnreconciled, EndScript
<1>6. CASE Serve
  <2>1. /\ script.target \in Gen /\ script.into \in Gen /\ script.target # serving
        /\ Servable(db[script.target])
      BY <1>0, <1>6 DEF Serve, RestoreInv, TargetApart, Scripts
  <2>2. /\ serving' = script.target /\ at' = script.into /\ script' = NoScript
        /\ UNCHANGED <<db, bucket, backedUp, drivers, revoked, announced, backups>>
      BY <1>6 DEF Serve, EndScript
  <2>3. Servable(Here') /\ RestoreTyped'
      BY <1>0, <2>1, <2>2 DEF Here, RestoreInv, RestoreTyped
  <2>4. OneDriver' /\ WithdrawnStays' /\ Here'.present
      BY <2>2, <2>3 DEF Servable, OneDriver, WithdrawnStays, RestoreInv, RestoreTyped
  <2>5. TargetApart' /\ MarkersPrecede'
      BY <1>0, <2>2 DEF RestoreInv, TargetApart, MarkersPrecede
  <2> QED
      BY <2>3, <2>4, <2>5 DEF RestoreInv
<1> QED
    BY <1>1, <1>2, <1>3, <1>4, <1>5, <1>6

LEMMA RestoreInvariance == RestoreInv /\ [RestoreNext]_restoreVars => RestoreInv'
<1> SUFFICES ASSUME RestoreInv, [RestoreNext]_restoreVars PROVE RestoreInv'
    OBVIOUS
<1>1. CASE UNCHANGED restoreVars
    BY <1>1 DEF restoreVars, RestoreInv, RestoreTyped, Here, OneDriver, WithdrawnStays, TargetApart,
       MarkersPrecede
<1>2. CASE RestoreStep
    BY <1>2, AuthorityKeeps, DesktopKeeps, WorkKeeps, BackupStep, RestoreSteps DEF RestoreStep
<1> QED
    BY <1>1, <1>2 DEF RestoreNext

\* A tombstone is written over by nothing.
LEMMA TombstoneStep ==
    ASSUME RestoreInv, [RestoreNext]_restoreVars, NEW g \in Gen, bucket[g] = "tombstone"
    PROVE  bucket'[g] = "tombstone"
<1>0. bucket \in [Gen -> Objects] /\ script \in Scripts /\ at \in Gen
    BY DEF RestoreInv, RestoreTyped
<1>1. CASE RetireBytes
    BY <1>0, <1>1 DEF RetireBytes
<1>2. CASE RestoreObjects
  <2>1. CASE MayWrite(script.into)
    <3>1. bucket' = [bucket EXCEPT ![script.into] = backedUp.object]
        BY <1>2, <2>1 DEF RestoreObjects
    <3>2. script.into = g => backedUp.object = "tombstone"
        BY <2>1 DEF MayWrite
    <3> QED
        BY <1>0, <3>1, <3>2
  <2>2. CASE ~MayWrite(script.into)
      BY <1>2, <2>2 DEF RestoreObjects
  <2> QED
      BY <2>1, <2>2
<1>3. CASE UNCHANGED bucket
    BY <1>3
<1>4. ASSUME ~RetireBytes, ~RestoreObjects PROVE UNCHANGED bucket
  <2>1. CASE UNCHANGED restoreVars
      BY <2>1 DEF restoreVars
  <2>2. CASE \E k \in Kinds : Issue(k) \/ WithdrawAuthority(k) \/ Revalidate(k)
      BY <2>2 DEF Issue, WithdrawAuthority, Revalidate
  <2>3. CASE GrantLease \/ Act \/ (\E h \in Gen : DriverStops(h)) \/ ResetRunner
      BY <2>3 DEF GrantLease, Act, DriverStops, ResetRunner
  <2>4. CASE Deliver \/ RetireRow \/ DumpPostgres \/ SealBackup
      BY <2>4 DEF Deliver, RetireRow, DumpPostgres, SealBackup
  <2>5. CASE (\E h, b \in Gen : StartRestore(h, b)) \/ RestorePostgres \/ Reconcile
      BY <2>5 DEF StartRestore, RestorePostgres, Reconcile
  <2>6. CASE LeaveUnreconciled \/ Serve
      BY <2>6 DEF LeaveUnreconciled, Serve
  <2> QED
      BY <1>4, <2>1, <2>2, <2>3, <2>4, <2>5, <2>6 DEF RestoreNext, RestoreStep
<1> QED
    BY <1>1, <1>2, <1>3, <1>4

\* Whatever is backed up, restored and served, in whatever order: one supervisor at most drives
\* the desktop, withdrawn authority of the kinds reconciliation covers stays unusable until a
\* person confirms it, nothing is announced twice, no audit row blocks a later restore and no
\* retired object comes back (reconcile, restore_object_bytes, retire_expired_candidate).
THEOREM SafeRestore == RestoreSpec => RestoreIsSafe
<1>1. RestoreInv => RestoreTypeOK /\ RestoredWorldIsFenced /\ MarkerNeverBlocks
  <2> SUFFICES ASSUME RestoreInv
               PROVE  RestoreTypeOK /\ RestoredWorldIsFenced /\ MarkerNeverBlocks
      OBVIOUS
  <2>1. RestoreTypeOK
      BY DEF RestoreInv, RestoreTyped, Database, Objects, Scripts, RestoreTypeOK, Here
  <2>2. RestoredWorldIsFenced
      BY AtMostOne DEF RestoreInv, OneDriver, WithdrawnStays, RestoredWorldIsFenced
  <2>3. MarkerNeverBlocks
      BY DEF RestoreInv, TargetApart, MarkersPrecede, MarkerNeverBlocks, AlreadyReconciled
  <2> QED
      BY <2>1, <2>2, <2>3
<1>2. RestoreInv /\ [RestoreNext]_restoreVars =>
        [\A g \in Gen : bucket[g] = "tombstone" => bucket'[g] = "tombstone"]_restoreVars
    BY TombstoneStep
<1> QED
    BY <1>1, <1>2, RestoreBegins, RestoreInvariance, PTL DEF RestoreSpec, RestoreIsSafe, RetirementIsFinal

=============================================================================
