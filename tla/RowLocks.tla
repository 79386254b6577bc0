------------------------------ MODULE RowLocks ------------------------------
(***************************************************************************)
(* The row locks of the transactions around a desktop run: which rows each *)
(* of them locks, in which order, and whom that makes wait for whom.       *)
(*                                                                         *)
(* A transaction takes its locks one statement at a time and gives all of  *)
(* them back when it ends, which it may do after any of them: a refusal, an *)
(* early return, a timeout of its own, SKIP LOCKED.  Locking a row again is *)
(* no step.  Rows that are only locked while the row of their run is held  *)
(* and that nobody goes on from (fixtures, streams, permits, consents) are *)
(* left out, as are rows outside a run and what foreign keys lock.         *)
(***************************************************************************)
EXTENDS Naturals, Sequences

CONSTANTS
    Run, Runner,
    Txn,        \* transactions that are open at a time
    Desktop,    \* the runner a run's lease and ticket name
    Bound       \* runs of an original baseline, bound to its trial

VARIABLES
    doing,      \* what each open transaction does
    locked      \* how many of its rows it has locked

locksVars == <<doing, locked>>

ASSUME LocksAssumption == Desktop \in [Run -> Runner] /\ Bound \subseteq Run

-----------------------------------------------------------------------------
(* The rows each transaction locks, in the order of its statements.         *)

\* The desktop: preflight and retirement; reset; admission of an ordinary run; what a person
\* is shown before the reader is started.
DeskLocks == <<"runner">>
ResetLocks == <<"runner", "lease">>
AdmitLocks == <<"runner", "run">>
StartupLocks == <<"runner", "run", "seal">>

\* Admission of a baseline's reader: its trial is read before the desktop is.
AdmitBoundLocks == <<"run", "approval", "seal", "build", "archive", "regression", "endpoint",
                     "runner">>

\* The handoff: controller and receiver, and the two ends of a lost one.
DispatchLocks == <<"runner", "run", "approval", "seal", "build", "archive", "regression",
                   "endpoint">>
AcceptLocks == <<"runner", "run", "approval", "ticket", "seal", "build", "archive", "regression",
                 "endpoint">>
InterruptLocks == <<"runner", "run", "ticket", "lease">>
RecoverRunFirst == <<"run", "runner", "lease", "ticket">>   \* mutant
RecoverLocks == <<"runner", "run", "lease", "ticket">>

\* The session: its requests, the navigator's view of it, the verdict.
RequestLocks == <<"runner", "run", "lease", "approval", "ticket", "seal", "build", "archive",
                  "regression", "endpoint", "action">>
ProjectLocks == <<"runner", "run", "lease", "approval", "seal", "build", "archive", "regression",
                  "endpoint", "ticket">>
FinalizeLocks == <<"runner", "run", "lease", "ticket">>

\* The run and its authority: cancellation, fixture setup, consent to model calls, approval.
CancelLocks == <<"run">>
SetupLocks == <<"run", "approval", "seal">>
ConsentLocks == <<"run", "seal", "approval">>
ApproveLocks == <<"seal">>
WithdrawLocks == <<"seal", "approval">>

\* The baseline: build, archive and its end, trial, a failed trial, what containers report.
BuildLocks == <<"run", "build", "approval", "seal">>
KeepLocks == <<"run", "build", "approval", "seal", "archive">>
RetireLocks == <<"run", "build", "archive">>
TrialLocks == <<"run", "approval", "seal", "build", "archive", "regression", "endpoint">>
FailLocks == <<"run", "regression">>
FactLocks == <<"regression", "endpoint">>

\* Operations of the library that no service calls: heartbeat and cancellation of a lease,
\* its expiry and its stop, an ambiguous action.
HeartbeatLocks == <<"lease">>
SweepLocks == <<"lease", "runner">>
AmbiguousLocks == <<"action", "lease", "runner", "run">>

Scripts ==
  [ desk |-> DeskLocks, reset |-> ResetLocks, admit |-> AdmitLocks, startup |-> StartupLocks,
    admitBound |-> AdmitBoundLocks, dispatch |-> DispatchLocks, accept |-> AcceptLocks,
    interrupt |-> InterruptLocks, recover |-> RecoverLocks, request |-> RequestLocks,
    project |-> ProjectLocks, finalize |-> FinalizeLocks, cancel |-> CancelLocks,
    setup |-> SetupLocks, consent |-> ConsentLocks, approve |-> ApproveLocks,
    withdraw |-> WithdrawLocks, build |-> BuildLocks, keep |-> KeepLocks,
    retire |-> RetireLocks, trial |-> TrialLocks, fail |-> FailLocks, fact |-> FactLocks,
    heartbeat |-> HeartbeatLocks, sweep |-> SweepLocks, ambiguous |-> AmbiguousLocks ]

OfBaseline == {"admitBound", "build", "keep", "retire", "trial", "fail", "fact"}
NamesItsRunner == {"admit", "admitBound", "startup"}

\* A transaction's work.  Whoever does not name a runner finds the one of the run's lease.
Work ==
  {d \in [op : DOMAIN Scripts, run : Run, runner : Runner] :
      /\ d.op \in OfBaseline => d.run \in Bound
      /\ d.op = "admit" => d.run \notin Bound
      /\ d.op \notin NamesItsRunner => d.runner = Desktop[d.run]}
Idle == [op |-> "idle"]

\* Rows an ordinary run does not have: a SELECT for them locks nothing.
OfTrial == {"build", "archive", "regression", "endpoint"}

\* FOR SHARE.
Shared(op, kind) ==
  \/ kind = "approval" /\ op # "withdraw"
  \/ kind = "archive" /\ op \notin {"keep", "retire"}
  \/ kind = "ticket" /\ op \in {"project", "finalize"}

\* Two pieces of work lock one row of this kind, and not both to share it.
Conflict(d, e, kind) ==
  /\ IF kind = "runner" THEN d.runner = e.runner ELSE d.run = e.run
  /\ kind \in OfTrial => d.run \in Bound
  /\ ~(Shared(d.op, kind) /\ Shared(e.op, kind))

Script(t) == Scripts[doing[t].op]
Goes(t) == doing[t] # Idle /\ locked[t] < Len(Script(t))
Wanted(t) == Script(t)[locked[t] + 1]
Holds(t, kind) == doing[t] # Idle /\ \E i \in 1..locked[t] : Script(t)[i] = kind

\* The next statement of t has to wait until u ends.
WaitsFor(t, u) ==
  t # u /\ Goes(t) /\ Holds(u, Wanted(t)) /\ Conflict(doing[t], doing[u], Wanted(t))

-----------------------------------------------------------------------------

LocksInit == doing = [t \in Txn |-> Idle] /\ locked = [t \in Txn |-> 0]

Open(t) ==
  /\ doing[t] = Idle
  /\ \E d \in Work : doing' = [doing EXCEPT ![t] = d]
  /\ UNCHANGED locked

Lock(t) ==
  /\ Goes(t) /\ \A u \in Txn : ~WaitsFor(t, u)
  /\ locked' = [locked EXCEPT ![t] = @ + 1]
  /\ UNCHANGED doing

\* Commit or rollback.
End(t) ==
  /\ doing[t] # Idle
  /\ doing' = [doing EXCEPT ![t] = Idle]
  /\ locked' = [locked EXCEPT ![t] = 0]

LocksNext == \E t \in Txn : Open(t) \/ Lock(t) \/ End(t)

LocksSpec == LocksInit /\ [][LocksNext]_locksVars

-----------------------------------------------------------------------------
(* Properties.                                                              *)

LocksTypeOK ==
  /\ doing \in [Txn -> Work \cup {Idle}]
  /\ locked \in [Txn -> Nat]
  /\ \A t \in Txn : IF doing[t] = Idle THEN locked[t] = 0 ELSE locked[t] <= Len(Script(t))

\* Each of them waits for another of them: the database has to end one.
Deadlocked(T) == T # {} /\ \A t \in T : \E u \in T : WaitsFor(t, u)

\* Work that goes on from a row to one that others lock before it.
Inverted == {"admitBound", "withdraw", "sweep", "ambiguous"}

\* However many transactions are open, on whatever runs and desktops, they only wait for each
\* other in a circle when one of them is the admission of a baseline's reader, the withdrawal
\* of an approval or an operation of the library that locks a lease before its runner.
OthersNeverDeadlock ==
  \A T \in SUBSET Txn : Deadlocked(T) => \E t \in T : doing[t].op \in Inverted

=============================================================================
