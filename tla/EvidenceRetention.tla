-------------------------- MODULE EvidenceRetention --------------------------
(***************************************************************************)
(* The artifacts of one stopped run, from the operator who retains them to *)
(* the owner who deletes them.  Rows live in the database, bytes in the    *)
(* object store, and no transaction spans both.  A retainer plans its rows *)
(* before it writes an object; a finalizer reads rows and bytes under the  *)
(* rows' locks; a deletion commits its record first and removes the bytes  *)
(* afterwards, in batches that several purgers may run at once.            *)
(*                                                                         *)
(* A request to the store may fail before or after it took effect, and a   *)
(* put that timed out may still land later.  Contents are left out: a key  *)
(* is content addressed, so a stored object is the planned one.            *)
(***************************************************************************)
EXTENDS Naturals, FiniteSets

CONSTANTS
    Kinds,        \* the artifact kinds this run requires
    Classes,      \* retention classes
    ClassOf,      \* the class of each kind
    Deletions,    \* deletion requests
    PurgeWorker,  \* the purge worker; the other purgers answer one request
    BatchSize,    \* keys one purge transaction takes
    MaxFaults     \* puts left unanswered and processes that die (a bound)

ASSUME ClassAssumption == ClassOf \in [Kinds -> Classes]
ASSUME WorkerAssumption == PurgeWorker \notin Deletions
ASSUME FaultAssumption == MaxFaults \in Nat

VARIABLES
    row,          \* evidence_artifact
    cleared,      \* classes whose canonical event payloads were replaced
    store,        \* keys the object store holds
    late,         \* keys whose put may still land
    doubt,        \* history: keys some put of which was never answered
    enqueued,     \* evidence_object_purge: the keys each deletion promised
    queue,        \* the pairs of it that are not yet purged
    report,       \* what each deletion's caller was last told
    evaluated,    \* the run is COMPLETED with its evaluation
    retainer,     \* the operator retaining the bundle
    finalizer,    \* the finalizer's transaction
    purger,       \* the purge of each deletion, and the worker's
    faults

rowVars == <<row, cleared, evaluated>>
storeVars == <<store, late, doubt>>
queueVars == <<enqueued, queue, report, purger>>
retentionVars == <<rowVars, storeVars, queueVars, retainer, finalizer, faults>>

Purgers == Deletions \cup {PurgeWorker}
NoRow == [state |-> "NONE", retention |-> "RETAINED"]
IdlePurge == [pc |-> "idle", held |-> {}, done |-> {}, failed |-> {}]

RetentionInit ==
    /\ row = [k \in Kinds |-> NoRow] /\ cleared = {} /\ evaluated = FALSE
    /\ store = {} /\ late = {} /\ doubt = {}
    /\ enqueued = [d \in Deletions |-> {}] /\ queue = {}
    /\ report = [d \in Deletions |-> "none"]
    /\ retainer = [pc |-> "idle", todo |-> {}, at |-> {}]
    /\ finalizer = "idle"
    /\ purger = [p \in Purgers |-> IdlePurge]
    /\ faults = 0

Exists(k) == row[k].state # "NONE"
Retained(k) == Exists(k) /\ row[k].retention = "RETAINED"

\* The run's row lock is one for the retainer and the finalizer.
RunFree == finalizer = "idle" /\ retainer.pc \in {"idle", "next"}
\* The artifact rows a deletion locks are those the two may hold.
RowsFree == RunFree

-----------------------------------------------------------------------------
(* Retaining the bundle.                                                    *)

\* The bundle is rebuilt from the event chain, whose payloads must still match
\* their digests.
SourcesIntact == cleared = {}

\* One transaction plans every artifact: a new row, or the very row it left.
PlanBundle ==
    /\ retainer.pc = "idle" /\ RunFree /\ ~evaluated /\ SourcesIntact
    /\ \A k \in Kinds : Exists(k) => Retained(k)
    /\ row' = [k \in Kinds |-> IF Exists(k) THEN row[k] ELSE [NoRow EXCEPT !.state = "QUARANTINED"]]
    /\ retainer' = [retainer EXCEPT !.pc = "next", !.todo = Kinds]
    /\ UNCHANGED <<cleared, evaluated, storeVars, queueVars, finalizer, faults>>

GiveUp == [pc |-> "idle", todo |-> {}, at |-> {}]

\* Mutant: what was planned is written without looking at the row again.
Planned(k) == TRUE
\* The row is read again under its lock before its object is written.
Writable(k) == Retained(k)

LockArtifact(k) ==
    /\ retainer.pc = "next" /\ k \in retainer.todo /\ RunFree
    /\ retainer' = IF ~evaluated /\ Writable(k)
                   THEN [retainer EXCEPT !.pc = "write", !.at = {k}] ELSE GiveUp
    /\ UNCHANGED <<rowVars, storeVars, queueVars, finalizer, faults>>

\* An object that is there is not written again; a promoted one that is gone
\* is not written at all.  A put whose answer never came (or whose caller died
\* waiting for it) may still land.
WriteObject(k) ==
    /\ retainer.pc = "write" /\ retainer.at = {k}
    /\ \/ /\ k \in store \/ row[k].state # "PROMOTED"
          /\ store' = store \cup {k}
          /\ retainer' = [retainer EXCEPT !.pc = "promote"]
          /\ UNCHANGED <<late, doubt, faults>>
       \/ /\ k \notin store /\ retainer' = GiveUp
          /\ UNCHANGED <<storeVars, faults>>
       \/ /\ k \notin store /\ row[k].state # "PROMOTED" /\ faults < MaxFaults
          /\ late' = late \cup {k} /\ doubt' = doubt \cup {k} /\ faults' = faults + 1
          /\ retainer' = GiveUp
          /\ UNCHANGED store
    /\ UNCHANGED <<rowVars, queueVars, finalizer>>

\* The bytes are read back before the row becomes evidence.
Promote(k) ==
    /\ retainer.pc = "promote" /\ retainer.at = {k}
    /\ \/ /\ k \in store
          /\ row' = [row EXCEPT ![k].state = "PROMOTED"]
          /\ retainer' = LET left == retainer.todo \ {k}
                         IN  IF left = {} THEN GiveUp
                             ELSE [pc |-> "next", todo |-> left, at |-> {}]
       \/ retainer' = GiveUp /\ UNCHANGED row
    /\ UNCHANGED <<cleared, evaluated, storeVars, queueVars, finalizer, faults>>

CrashRetainer ==
    /\ retainer.pc # "idle" /\ faults < MaxFaults
    /\ faults' = faults + 1 /\ retainer' = GiveUp
    /\ UNCHANGED <<rowVars, storeVars, queueVars, finalizer>>

LatePutLands(k) ==
    /\ k \in late
    /\ late' = late \ {k} /\ store' \in {store, store \cup {k}}
    /\ UNCHANGED <<rowVars, doubt, queueVars, retainer, finalizer, faults>>

-----------------------------------------------------------------------------
(* Deciding the run.                                                        *)

BeginFinalize ==
    /\ finalizer = "idle" /\ ~evaluated /\ RunFree
    /\ \A k \in Kinds : row[k].state = "PROMOTED" /\ row[k].retention = "RETAINED"
    /\ SourcesIntact /\ Kinds \subseteq store
    /\ finalizer' = "decide"
    /\ UNCHANGED <<rowVars, storeVars, queueVars, retainer, faults>>

CommitFinalize ==
    /\ finalizer = "decide"
    /\ finalizer' = "idle" /\ evaluated' \in {TRUE, FALSE}
    /\ UNCHANGED <<row, cleared, storeVars, queueVars, retainer, faults>>

-----------------------------------------------------------------------------
(* Deleting classes of evidence.                                            *)

\* Every artifact of a named class that is not yet deleted; each kind has one.
Marked(cs) == {k \in Kinds : Exists(k) /\ row[k].retention # "DELETED" /\ ClassOf[k] \in cs}

\* Phase one: mark, clear, record and enqueue, in one transaction that waits
\* for the rows.  Phase two begins once it committed.
RecordDeletion(d, cs) ==
    LET marked == Marked(cs)
    IN  /\ purger[d].pc = "idle" /\ report[d] = "none" /\ RowsFree
        /\ row' = [k \in Kinds |-> IF k \in marked THEN [row[k] EXCEPT !.retention = "DELETED"]
                                   ELSE row[k]]
        /\ cleared' = cleared \cup cs
        /\ enqueued' = [enqueued EXCEPT ![d] = marked]
        /\ queue' = queue \cup ({d} \X marked)
        /\ report' = [report EXCEPT ![d] = "recorded"]
        /\ purger' = [purger EXCEPT ![d] = [IdlePurge EXCEPT !.pc = "claim"]]
        /\ UNCHANGED <<evaluated, storeVars, retainer, finalizer, faults>>

\* Mutant: the worker looks for promises of its own.
OwnScope(p) == {q \in queue : q[1] = p}
\* What a purge may take: a request the keys of its deletion, the worker all.
Scope(p) == IF p = PurgeWorker THEN queue ELSE {q \in queue : q[1] = p}
Claimed == UNION {purger[p].held : p \in Purgers}

\* The retry route and the worker's tick.
StartPurge(p) ==
    /\ purger[p].pc = "idle"
    /\ IF p = PurgeWorker THEN queue # {} ELSE report[p] # "none" /\ Scope(p) # {}
    /\ purger' = [purger EXCEPT ![p] = [IdlePurge EXCEPT !.pc = "claim"]]
    /\ UNCHANGED <<rowVars, storeVars, enqueued, queue, report, retainer, finalizer,
                   faults>>

\* FOR UPDATE SKIP LOCKED: a batch of what nobody else holds.
ClaimBatch(p) ==
    LET free == Scope(p) \ Claimed
    IN  /\ purger[p].pc = "claim"
        /\ \E b \in SUBSET free :
             /\ Cardinality(b) = IF Cardinality(free) < BatchSize THEN Cardinality(free)
                                 ELSE BatchSize
             /\ purger' = [purger EXCEPT ![p] = [pc |-> "delete", held |-> b, done |-> {},
                                                 failed |-> {}]]
        /\ UNCHANGED <<rowVars, storeVars, enqueued, queue, report, retainer, finalizer,
                       faults>>

ReleaseBytes(p, q) ==
    /\ purger[p].pc = "delete" /\ q \in purger[p].held \ (purger[p].done \cup purger[p].failed)
    /\ store' = store \ {q[2]}
    /\ purger' = [purger EXCEPT ![p].done = @ \cup {q}]
    /\ UNCHANGED <<rowVars, late, doubt, enqueued, queue, report, retainer, finalizer,
                   faults>>

FailureRecorded(p, q) == [purger EXCEPT ![p].failed = @ \cup {q}]

StoreRefuses(p, q) ==
    /\ purger[p].pc = "delete" /\ q \in purger[p].held \ (purger[p].done \cup purger[p].failed)
    /\ store' \in {store, store \ {q[2]}}
    /\ purger' = FailureRecorded(p, q)
    /\ UNCHANGED <<rowVars, late, doubt, enqueued, queue, report, retainer, finalizer,
                   faults>>

\* A batch that released something is followed by another.
CommitBatch(p) ==
    LET s == purger[p]
    IN  /\ s.pc = "delete" /\ s.held = s.done \cup s.failed
        /\ queue' = queue \ s.done
        /\ purger' = [purger EXCEPT ![p] =
                        [IdlePurge EXCEPT !.pc = IF s.done = {} THEN "count" ELSE "claim"]]
        /\ UNCHANGED <<rowVars, storeVars, enqueued, report, retainer, finalizer,
                       faults>>

\* Counted from the committed queue, and answered.
CountPending(p) ==
    /\ purger[p].pc = "count"
    /\ report' = IF p = PurgeWorker THEN report
                 ELSE [report EXCEPT ![p] = IF Scope(p) = {} THEN "gone" ELSE "pending"]
    /\ purger' = [purger EXCEPT ![p] = IdlePurge]
    /\ UNCHANGED <<rowVars, storeVars, enqueued, queue, retainer, finalizer, faults>>

\* The batch rolls back; what the store released stays released.
CrashPurger(p) ==
    /\ purger[p].pc # "idle" /\ faults < MaxFaults
    /\ faults' = faults + 1
    /\ purger' = [purger EXCEPT ![p] = IdlePurge]
    /\ UNCHANGED <<rowVars, storeVars, enqueued, queue, report, retainer, finalizer>>

-----------------------------------------------------------------------------

RetainStep ==
    PlanBundle \/ CrashRetainer
    \/ \E k \in Kinds : LockArtifact(k) \/ WriteObject(k) \/ Promote(k) \/ LatePutLands(k)

PurgeStep ==
    \E p \in Purgers :
        \/ StartPurge(p) \/ ClaimBatch(p) \/ CommitBatch(p) \/ CountPending(p) \/ CrashPurger(p)
        \/ \E q \in queue : ReleaseBytes(p, q) \/ StoreRefuses(p, q)

RetentionNext ==
    \/ RetainStep \/ PurgeStep
    \/ \E d \in Deletions : \E cs \in SUBSET Classes \ {{}} : RecordDeletion(d, cs)
    \/ BeginFinalize \/ CommitFinalize

\* The worker ticks for ever, a transaction that began goes on, and a store
\* that is asked again and again releases a key at last.
PurgeGoesOn(p) ==
    ClaimBatch(p) \/ CommitBatch(p) \/ CountPending(p)
    \/ \E q \in queue : ReleaseBytes(p, q) \/ StoreRefuses(p, q)
RetentionFairness ==
    /\ \A p \in Purgers : WF_retentionVars(PurgeGoesOn(p))
    /\ SF_retentionVars(\E p \in Purgers : \E q \in queue : ReleaseBytes(p, q))
    /\ WF_retentionVars(StartPurge(PurgeWorker))

RetentionSpec == RetentionInit /\ [][RetentionNext]_retentionVars /\ RetentionFairness

-----------------------------------------------------------------------------

\* Every table, every process and the store have their types.
RetentionTypeOK ==
    /\ row \in [Kinds -> [state : {"NONE", "QUARANTINED", "PROMOTED"},
                          retention : {"RETAINED", "DELETED"}]]
    /\ cleared \subseteq Classes /\ evaluated \in BOOLEAN
    /\ store \subseteq Kinds /\ late \subseteq Kinds
    /\ enqueued \in [Deletions -> SUBSET Kinds] /\ queue \subseteq Deletions \X Kinds
    /\ report \in [Deletions -> {"none", "recorded", "gone", "pending"}]
    /\ retainer \in [pc : {"idle", "next", "write", "promote"}, todo : SUBSET Kinds,
                     at : SUBSET Kinds]
    /\ finalizer \in {"idle", "decide"}
    /\ \A p \in Purgers :
         /\ purger[p].pc \in {"idle", "claim", "delete", "count"}
         /\ purger[p].done \cup purger[p].failed \subseteq purger[p].held
         /\ purger[p].held \subseteq queue
    /\ faults \in 0..MaxFaults

\* Evidence recorded as deleted is either gone or still promised: whatever
\* crashes, races or retries happened, no object survives outside the queue,
\* except one whose put was never answered.  What a caller was told is gone is.
DeletionIsHonest ==
    /\ \A k \in Kinds : row[k].retention = "DELETED" /\ k \in store =>
         k \in doubt \/ \E d \in Deletions : <<d, k>> \in queue
    /\ \A d \in Deletions : report[d] = "gone" => enqueued[d] \cap store \subseteq doubt

\* A run is decided only while its whole bundle is retained and stored and its
\* event payloads are intact, even when an owner deletes evidence meanwhile.
VerdictRestsOnEvidence ==
    [][evaluated' # evaluated =>
        /\ cleared = {} /\ Kinds \subseteq store
        /\ \A k \in Kinds : row[k] = [state |-> "PROMOTED", retention |-> "RETAINED"]]_retentionVars

\* Keys promised for deletion are released in the end, whoever crashed.
PromisesAreKept == (queue # {}) ~> (queue = {})

\* Deleted evidence is gone or still promised, and no verdict rests on any of it.
RetentionIsHonest == [](RetentionTypeOK /\ DeletionIsHonest) /\ VerdictRestsOnEvidence
=============================================================================
