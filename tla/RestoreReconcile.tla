--------------------------- MODULE RestoreReconcile ---------------------------
(***************************************************************************)
(* Backup, restore and reconciliation.  A backup dumps the database and    *)
(* then copies the objects, while the system goes on.  A restore writes    *)
(* the objects, then the database, into a target of its own, and must      *)
(* reconcile it before anyone serves from it: what the snapshot holds was  *)
(* true then, and the world has moved.                                     *)
(*                                                                         *)
(* Databases are numbered in the order of the restores; restore n fills    *)
(* database n.  One desktop, one run, one message and one archived object  *)
(* stand for all of theirs, and an authority is followed by its kind.  No  *)
(* statement of the code relates one of these to another, so a behaviour   *)
(* follows one of them and leaves the others as they began.                *)
(***************************************************************************)
EXTENDS Naturals, FiniteSets

CONSTANTS
    Kinds,         \* the kinds of authority followed
    MaxRestores,   \* restores begun (a bound)
    MaxBackups     \* backups taken (a bound)

ASSUME RestoreAssumption == MaxRestores \in Nat /\ MaxBackups \in Nat

VARIABLES
    subject,       \* what this behaviour follows
    db,            \* the databases
    bucket,        \* the archived object in each bucket
    serving,       \* the database in service
    at,            \* the bucket in service
    backedUp,      \* the sealed backup at hand
    script,        \* the restore script
    drivers,       \* databases whose supervisor still drives the desktop
    revoked,       \* history: kinds whose last decision by a person withdrew it
    announced,     \* history: times the message was delivered
    backups        \* sealed so far; a backup's number is its stream id

restoreVars == <<subject, db, bucket, serving, at, backedUp, script, drivers, revoked, announced, backups>>

Gen == 0..MaxRestores

\* What reconciliation does to each kind that it does not leave alone.
Revokes == {"session", "enrollmentToken", "supervisorTicket", "runEffects", "githubPublish",
            "buildClaim", "regressionClaim", "endpoint"}
Suspends == {"executionGrant"}
Fenced == Revokes \cup Suspends

Absent == [auth |-> [k \in Kinds |-> "none"], lease |-> "none", runner |-> "AVAILABLE",
           run |-> "active", job |-> "PENDING", outbox |-> "pending", archived |-> "RETAINED",
           markers |-> {}, present |-> FALSE]
NoArchive == [state |-> "none", data |-> Absent, object |-> "absent", id |-> 0, from |-> 0]
NoScript == [pc |-> "idle", target |-> 0, into |-> 0]

RestoreInit ==
    /\ subject \in Kinds \cup {"desktop", "message", "object"}
    /\ db = [g \in Gen |-> IF g = 0 THEN [Absent EXCEPT !.present = TRUE] ELSE Absent]
    /\ bucket = [g \in Gen |-> IF g = 0 THEN "bytes" ELSE "absent"]
    /\ serving = 0 /\ at = 0 /\ backedUp = NoArchive /\ script = NoScript
    /\ drivers = {} /\ revoked = {} /\ announced = 0 /\ backups = 0

Here == db[serving]
SetHere(r) == db' = [db EXCEPT ![serving] = r]

-----------------------------------------------------------------------------
(* The system in service.                                                   *)

Issue(k) ==
    /\ subject = k /\ Here.auth[k] = "none"
    /\ SetHere([Here EXCEPT !.auth[k] = "live"])
    /\ revoked' = revoked \ {k}
    /\ UNCHANGED <<bucket, serving, at, backedUp, script, drivers, announced, backups>>

WithdrawAuthority(k) ==
    /\ Here.auth[k] \in {"live", "unverified"}
    /\ SetHere([Here EXCEPT !.auth[k] = "revoked"])
    /\ revoked' = revoked \cup {k}
    /\ UNCHANGED <<bucket, serving, at, backedUp, script, drivers, announced, backups>>

\* A person looks at the restored grant and confirms it anew.
Revalidate(k) ==
    /\ Here.auth[k] = "unverified"
    /\ SetHere([Here EXCEPT !.auth[k] = "live"])
    /\ revoked' = revoked \ {k}
    /\ UNCHANGED <<bucket, serving, at, backedUp, script, drivers, announced, backups>>

GrantLease ==
    /\ subject = "desktop" /\ Here.runner = "AVAILABLE" /\ Here.lease # "held" /\ Here.run = "active"
    /\ SetHere([Here EXCEPT !.lease = "held", !.job = "CLAIMED"])
    /\ drivers' = drivers \cup {serving}
    /\ UNCHANGED <<bucket, serving, at, backedUp, script, revoked, announced, backups>>

\* The supervisor dispatches an action, and learns its result.
Act ==
    /\ serving \in drivers /\ Here.lease = "held" /\ Here.run \in {"active", "ambiguous"}
    /\ SetHere([Here EXCEPT !.run = IF @ = "active" THEN "ambiguous" ELSE "active"])
    /\ UNCHANGED <<bucket, serving, at, backedUp, script, drivers, revoked, announced, backups>>

\* A supervisor ends; only the one of the database in service can say so.
DriverStops(g) ==
    /\ g \in drivers
    /\ drivers' = drivers \ {g}
    /\ db' = IF g = serving /\ Here.lease = "held"
             THEN [db EXCEPT ![g].lease = "released", ![g].job = "PENDING"] ELSE db
    /\ UNCHANGED <<bucket, serving, at, backedUp, script, revoked, announced, backups>>

\* The trusted reset at the machine, with the preflight that follows it.
ResetRunner ==
    /\ Here.runner = "QUARANTINED" /\ Here.lease # "held"
    /\ SetHere([Here EXCEPT !.runner = "AVAILABLE"])
    /\ drivers' = {}
    /\ UNCHANGED <<bucket, serving, at, backedUp, script, revoked, announced, backups>>

Deliver ==
    /\ subject = "message" /\ Here.outbox = "pending"
    /\ SetHere([Here EXCEPT !.outbox = "published"])
    /\ announced' = announced + 1
    /\ UNCHANGED <<bucket, serving, at, backedUp, script, drivers, revoked, backups>>

\* The tombstone first, the row afterwards.
RetireBytes ==
    /\ subject = "object" /\ Here.archived = "RETAINED" /\ bucket[at] = "bytes"
    /\ bucket' = [bucket EXCEPT ![at] = "tombstone"]
    /\ UNCHANGED <<db, serving, at, backedUp, script, drivers, revoked, announced, backups>>
RetireRow ==
    /\ Here.archived = "RETAINED" /\ bucket[at] = "tombstone"
    /\ SetHere([Here EXCEPT !.archived = "DELETED"])
    /\ UNCHANGED <<bucket, serving, at, backedUp, script, drivers, revoked, announced, backups>>

-----------------------------------------------------------------------------
(* Backup.                                                                  *)

\* The dump is consistent in itself; the objects are enumerated after it.
DumpPostgres ==
    /\ backedUp.state # "dumped" /\ backups < MaxBackups /\ script.pc = "idle"
    /\ backedUp' = [NoArchive EXCEPT !.state = "dumped", !.data = Here]
    /\ UNCHANGED <<db, bucket, serving, at, script, drivers, revoked, announced, backups>>

SealBackup ==
    /\ backedUp.state = "dumped"
    /\ backups' = backups + 1
    /\ backedUp' = [backedUp EXCEPT !.state = "sealed", !.object = bucket[at],
                                  !.id = backups + 1, !.from = at]
    /\ UNCHANGED <<db, bucket, serving, at, script, drivers, revoked, announced>>

-----------------------------------------------------------------------------
(* Restore.                                                                 *)

TargetIsEmpty(g) == ~db[g].present
\* Decrypted, every member listed and every digest right.
ArchiveVerified == backedUp.state = "sealed"

\* Never over the source database; over its bucket only when told to.
StartRestore(g, b) ==
    /\ script.pc = "idle" /\ ArchiveVerified /\ g # serving /\ TargetIsEmpty(g)
    /\ b \in {g, backedUp.from}
    /\ script' = [pc |-> "objects", target |-> g, into |-> b]
    /\ UNCHANGED <<db, bucket, serving, at, backedUp, drivers, revoked, announced, backups>>

EndScript == script' = NoScript

\* Archived objects are created, never replaced: what is there must be the same.
MayWrite(b) == bucket[b] \in {"absent", backedUp.object}

RestoreObjects ==
    /\ script.pc = "objects"
    /\ IF MayWrite(script.into)
       THEN /\ bucket' = [bucket EXCEPT ![script.into] = backedUp.object]
            /\ script' = [script EXCEPT !.pc = "database"]
       ELSE EndScript /\ UNCHANGED bucket
    /\ UNCHANGED <<db, serving, at, backedUp, drivers, revoked, announced, backups>>

\* pg_restore, then the migrations; a schema ahead of this tree is refused with
\* the data already in place.
RestorePostgres ==
    /\ script.pc = "database"
    /\ db' = [db EXCEPT ![script.target] = backedUp.data]
    /\ script' \in {NoScript, [script EXCEPT !.pc = "reconcile"]}
    /\ UNCHANGED <<bucket, serving, at, backedUp, drivers, revoked, announced, backups>>

\* The restored object must be what the restored row says it is.
LocationsVerified ==
    bucket[script.into] = IF backedUp.data.archived = "RETAINED" THEN "bytes" ELSE "tombstone"

AlreadyReconciled(d, id) == id \in d.markers

ReconciledAuthority(d) ==
    [k \in Kinds |-> IF d.auth[k] \in {"live", "unverified"} /\ k \in Revokes THEN "revoked"
                     ELSE IF d.auth[k] \in {"live", "unverified"} /\ k \in Suspends
                          THEN "unverified"
                     ELSE d.auth[k]]

\* Mutant: leases are released and their runners stay in service.
ReleasedOnly(d) == [d EXCEPT !.lease = IF @ = "held" THEN "released" ELSE @]
\* No lease is handed on: every runner waits for a trusted reset.
ReconciledDesktop(d) ==
    [d EXCEPT !.lease = IF @ = "held" THEN "released" ELSE @, !.runner = "QUARANTINED"]

\* Ambiguous attempts are quarantined, claims released, announcements dropped.
ReconciledWork(d) ==
    [d EXCEPT !.run = IF @ = "ambiguous" THEN "quarantined" ELSE @, !.job = "PENDING",
              !.outbox = "published"]

Reconciled(d, id) ==
    [ReconciledWork(ReconciledDesktop(d)) EXCEPT !.auth = ReconciledAuthority(d),
                                                 !.markers = @ \cup {id}]

\* One transaction: where the objects went, every fence and the audit row.
Reconcile ==
    LET g == script.target
    IN  /\ script.pc = "reconcile"
        /\ IF LocationsVerified /\ ~AlreadyReconciled(db[g], backedUp.id)
           THEN /\ db' = [db EXCEPT ![g] = Reconciled(@, backedUp.id)]
                /\ script' = [script EXCEPT !.pc = "done"]
           ELSE EndScript /\ UNCHANGED db
        /\ UNCHANGED <<bucket, serving, at, backedUp, drivers, revoked, announced, backups>>

\* --no-reconcile, or the process dies: the target stays as it is.
LeaveUnreconciled ==
    /\ script.pc \in {"objects", "database", "reconcile"}
    /\ EndScript
    /\ UNCHANGED <<db, bucket, serving, at, backedUp, drivers, revoked, announced, backups>>

\* The operator serves what a restore finished.
Serve ==
    /\ script.pc = "done"
    /\ serving' = script.target /\ at' = script.into
    /\ EndScript
    /\ UNCHANGED <<db, bucket, backedUp, drivers, revoked, announced, backups>>

-----------------------------------------------------------------------------

RestoreStep ==
    \/ \E k \in Kinds : Issue(k) \/ WithdrawAuthority(k) \/ Revalidate(k)
    \/ GrantLease \/ Act \/ (\E g \in Gen : DriverStops(g)) \/ ResetRunner
    \/ Deliver \/ RetireBytes \/ RetireRow
    \/ DumpPostgres \/ SealBackup
    \/ \E g, b \in Gen : StartRestore(g, b)
    \/ RestoreObjects \/ RestorePostgres \/ Reconcile \/ LeaveUnreconciled \/ Serve

RestoreNext == RestoreStep /\ UNCHANGED subject

RestoreSpec == RestoreInit /\ [][RestoreNext]_restoreVars

-----------------------------------------------------------------------------

\* Databases, buckets, the archive and the script have their types.
RestoreTypeOK ==
    /\ \A g \in Gen : /\ db[g].auth \in [Kinds -> {"none", "live", "unverified", "revoked"}]
                      /\ db[g].lease \in {"none", "held", "released"}
                      /\ db[g].runner \in {"AVAILABLE", "QUARANTINED"}
                      /\ db[g].run \in {"active", "ambiguous", "quarantined"}
                      /\ db[g].markers \subseteq 1..MaxBackups
                      /\ bucket[g] \in {"absent", "bytes", "tombstone"}
    /\ serving \in Gen /\ at \in Gen /\ db[serving].present
    /\ script.pc \in {"idle", "objects", "database", "reconcile", "done"}
    /\ drivers \subseteq Gen /\ revoked \subseteq Kinds
    /\ announced \in Nat /\ backups \in 0..MaxBackups

\* Whatever was backed up, restored and served, in whatever order: two
\* supervisors never drive the desktop, authority a person withdrew is not
\* usable again unless a person confirmed it, and nothing is announced twice.
RestoredWorldIsFenced ==
    /\ Cardinality(drivers) <= 1
    /\ \A k \in revoked \cap Fenced : Here.auth[k] # "live"
    /\ announced <= 1

\* The audit row of a reconciliation travels in every later backup, and never
\* stands in the way of a restore, however often this data was restored before.
MarkerNeverBlocks ==
    script.pc = "reconcile" => ~AlreadyReconciled(db[script.target], backedUp.id)

\* A retired archive stays retired in its bucket, even one restored into.
RetirementIsFinal ==
    [][\A g \in Gen : bucket[g] = "tombstone" => bucket'[g] = "tombstone"]_restoreVars

\* A restored installation is fenced, and so is the one it was restored from.
RestoreIsSafe == [](RestoreTypeOK /\ RestoredWorldIsFenced /\ MarkerNeverBlocks) /\ RetirementIsFinal
=============================================================================
