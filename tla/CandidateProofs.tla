--------------------------- MODULE CandidateProofs ---------------------------
(***************************************************************************)
(* A repair on its way: how the candidate is built and exercised, and how  *)
(* the run's check reaches GitHub.                                         *)
(*                                                                         *)
(* The build.  What a worker's place says of its attempt, its container    *)
(* and its archive (WorkerInv), and that a patch is opened for one         *)
(* verification and concluded together with it (PatchInv), give            *)
(* BuildIsTrustworthy for any workers, openers and callers.                *)
(*                                                                         *)
(* The session.  The containers and their rows agree (BoxInv), the gateway *)
(* listens only while the callback runs (GateInv), and the request on its  *)
(* way is that of a consumed permission nobody has reported on             *)
(* (EffectInv): what an ending says it cleaned up, it did (EndInv).        *)
(*                                                                         *)
(* The publication, for any owners, bindings, previews, operator processes *)
(* and webhook deliveries: the slot is the only way to the create call     *)
(* (SlotInv), and a preview that is dead stays so (Dead).                  *)
(***************************************************************************)
EXTENDS CandidateBuild, CandidateSession, GithubPublication, FiniteSetTheorems, SequenceTheorems, TLAPS

-----------------------------------------------------------------------------
(* Building a candidate.                                                   *)

\* What a worker's place says about its attempt, its container and its archive.
WorkerInv(w) ==
  /\ worker[w].pc \in {"idle", "prepared"} => attempt[w].state = "none"
  /\ worker[w].pc \in {"idle", "prepared", "claimed", "dispatched"} => container[w] = "none"
  /\ worker[w].pc \notin {"idle", "prepared", "stopped"} => attempt[w].state # "none"
  /\ worker[w].pc \in {"failing", "captured", "intent", "uploaded", "built"} => container[w] = "removed"
  /\ worker[w].pc \in {"intent", "uploaded"} => attempt[w].receipt /\ archive[w].state # "none"
  /\ worker[w].pc = "uploaded" => archive[w].object # "absent"
  /\ container[w] # "none" => attempt[w].state # "none"
  /\ attempt[w].state # "none" => verif[w].state # "none"
  /\ archive[w].object = "tombstone" => archive[w].retirement # "none"
  /\ attempt[w].state = "FAILED" => worker[w].pc = "stopped" /\ container[w] = "removed"
  /\ attempt[w].state = "BUILT" =>
       /\ worker[w].pc = "built" /\ attempt[w].receipt
       /\ archive[w].state \in {"RETAINED", "DELETED"}
       /\ archive[w].retirement = "none" => archive[w].object = "bytes"

\* One verification is opened, by leaving APPROVED; it and the patch are concluded together.
PatchInv ==
  /\ patch.status \in {"PROPOSED", "APPROVED", "REJECTED", "BUILDING", "VERIFIED", "FAILED"}
  /\ patch.status \in {"PROPOSED", "APPROVED", "REJECTED"} => \A o \in Openers : verif[o].state = "none"
  /\ \A o, p \in Openers : verif[o].state # "none" /\ verif[p].state # "none" => o = p
  /\ \A o \in Openers : verif[o].state = "BUILDING" => patch.status \in {"BUILDING", "FAILED"}
  /\ \A o \in Openers : verif[o].bound => o \in Workers /\ attempt[o].state = "BUILT"
  /\ \A c \in Callers : call[c].op = "concluding" =>
       call[c].on \in Openers /\ verif[call[c].on].state # "none"

BuildInv ==
  /\ BuildTypeOK /\ (\A w \in Workers : WorkerInv(w)) /\ PatchInv
  /\ ConclusionMatchesPatch
  /\ patch.status = "FAILED" =>
       \/ \E o \in Openers : verif[o].state = "CONCLUDED"
       \/ \E w \in Workers : attempt[w].state = "FAILED"

\* The property follows from the invariant.
LEMMA BuildInvGives ==
    BuildInv => /\ SingleExecution /\ RejectedNeverRuns /\ BuiltIsRetained
                /\ ConclusionMatchesPatch /\ FailureIsConfirmed
<1> SUFFICES ASSUME BuildInv
             PROVE  /\ SingleExecution /\ RejectedNeverRuns /\ BuiltIsRetained
                    /\ ConclusionMatchesPatch /\ FailureIsConfirmed
    OBVIOUS
<1>1. \A w \in Workers : container[w] # "none" => verif[w].state # "none"
    BY DEF BuildInv, WorkerInv
<1>2. Cardinality({o \in Openers : verif[o].state # "none"}) <= 1
  <2> DEFINE Opened == {o \in Openers : verif[o].state # "none"}
  <2>1. CASE Opened = {}
      BY <2>1, FS_EmptySet
  <2>2. CASE Opened # {}
    <3>1. PICK o \in Opened : TRUE
        BY <2>2
    <3>2. Opened = {o}
        BY <3>1 DEF BuildInv, PatchInv
    <3> QED
        BY <3>2, FS_Singleton
  <2> QED
      BY <2>1, <2>2
<1>3. RejectedNeverRuns
    BY <1>1 DEF RejectedNeverRuns, BuildInv, PatchInv, Openers
<1>4. BuiltIsRetained /\ FailureIsConfirmed
    BY DEF BuiltIsRetained, FailureIsConfirmed, BuildInv, WorkerInv
<1> QED
    BY <1>1, <1>2, <1>3, <1>4 DEF SingleExecution, BuildInv

\* Nothing is built yet.
LEMMA BuildBegins == BuildInit => BuildInv
<1> SUFFICES ASSUME BuildInit PROVE BuildInv
    OBVIOUS
<1>1. BuildTypeOK
  <2>1. patch \in [status : PatchStatus, revision : Nat] /\ approval \in [state : {"none", "live", "ended"}, revision : Nat]
      BY DEF BuildInit, PatchStatus
  <2>2. surface \in 0 .. MaxSurface
      BY BuildAssumption DEF BuildInit
  <2>3. verif \in [Openers -> [state : {"none", "BUILDING", "CONCLUDED"},
                      conclusion : {"none", "VERIFIED", "NOT_ESTABLISHED", "INCONCLUSIVE"},
                      revision : Nat, bound : BOOLEAN]]
      BY DEF BuildInit, NoVerification
  <2>4. attempt \in [Workers -> [state : AttemptState, leased : BOOLEAN, approved : Nat,
                              building : Nat, surface : Nat, receipt : BOOLEAN,
                              published : BOOLEAN]]
      BY DEF BuildInit, NoAttempt, AttemptState
  <2> QED
      BY <2>1, <2>2, <2>3, <2>4 DEF BuildInit, BuildTypeOK
<1>2. \A w \in Workers : WorkerInv(w)
    BY DEF BuildInit, WorkerInv, NoAttempt
<1>3. PatchInv /\ ConclusionMatchesPatch
    BY DEF BuildInit, PatchInv, ConclusionMatchesPatch, NoVerification
<1> QED
    BY <1>1, <1>2, <1>3 DEF BuildInv, BuildInit

AttemptRows == [state : AttemptState, leased : BOOLEAN, approved : Nat, building : Nat, surface : Nat,
                receipt : BOOLEAN, published : BOOLEAN]
ArchiveRows == [state : {"none", "QUARANTINED", "RETAINED", "DELETED"},
                retirement : {"none", "intended", "completed"},
                object : {"absent", "bytes", "tombstone"}, fresh : BOOLEAN]
WorkerRows == [pc : {"idle", "prepared", "claimed", "dispatched", "created", "started", "captured",
                     "intent", "uploaded", "built", "failing", "failingUnclean", "stopped"},
               revision : Nat, surface : Nat]
ContainerStates == {"none", "created", "running", "removed"}

\* A row that another process fences, or leaves alone.
FencedOrKept(v) ==
  \/ attempt'[v] = attempt[v]
  \/ /\ attempt[v].state \in {"CLAIMED", "DISPATCHED"}
     /\ attempt'[v] = [attempt[v] EXCEPT !.state = "UNKNOWN"]

\* The rows of an attempt and of an archive, with one field changed, are rows.
LEMMA BuildRows ==
    BuildInv => /\ attempt \in [Workers -> AttemptRows] /\ archive \in [Workers -> ArchiveRows]
                /\ worker \in [Workers -> WorkerRows] /\ container \in [Workers -> ContainerStates]
                /\ surface \in Nat
    BY BuildAssumption DEF BuildInv, BuildTypeOK, AttemptRows, ArchiveRows, WorkerRows, ContainerStates

\* What a move of one worker leaves to the others.
LEMMA WorkerMoves ==
    ASSUME BuildInv, NEW w \in Workers, NEW q, worker' = [worker EXCEPT ![w].pc = q],
           q \in {"prepared", "claimed", "dispatched", "created", "started", "captured", "intent",
                  "uploaded", "built", "failing", "failingUnclean", "stopped"}
    PROVE  /\ worker' \in [Workers -> WorkerRows] /\ worker'[w].pc = q
           /\ \A v \in Workers : v # w => worker'[v] = worker[v]
<1>1. worker \in [Workers -> WorkerRows]
    BY BuildRows
<1>2. [worker[w] EXCEPT !.pc = q] \in WorkerRows /\ [worker[w] EXCEPT !.pc = q].pc = q
    BY <1>1 DEF WorkerRows
<1>3. worker' = [worker EXCEPT ![w] = [worker[w] EXCEPT !.pc = q]]
    BY <1>1
<1> QED
    BY <1>1, <1>2, <1>3

\* What a change of one attempt leaves to the others.
LEMMA AttemptMoves ==
    ASSUME BuildInv, NEW w \in Workers, NEW q \in AttemptState, attempt' = [attempt EXCEPT ![w].state = q]
    PROVE  /\ attempt' \in [Workers -> AttemptRows] /\ attempt'[w].state = q
           /\ attempt'[w].receipt = attempt[w].receipt
           /\ \A v \in Workers : v # w => attempt'[v] = attempt[v]
<1>1. attempt \in [Workers -> AttemptRows]
    BY BuildRows
<1>2. /\ [attempt[w] EXCEPT !.state = q] \in AttemptRows /\ [attempt[w] EXCEPT !.state = q].state = q
      /\ [attempt[w] EXCEPT !.state = q].receipt = attempt[w].receipt
    BY <1>1 DEF AttemptRows
<1>3. attempt' = [attempt EXCEPT ![w] = [attempt[w] EXCEPT !.state = q]]
    BY <1>1
<1> QED
    BY <1>1, <1>2, <1>3

\* A worker whose own place and rows do not move keeps what they say.
LEMMA BystanderStands ==
    ASSUME BuildInv, NEW v \in Workers, FencedOrKept(v), worker'[v] = worker[v],
           container'[v] = container[v], archive'[v] = archive[v],
           verif[v].state # "none" => verif'[v].state # "none"
    PROVE  WorkerInv(v)' /\ (attempt[v].state \in {"BUILT", "FAILED"} => attempt'[v] = attempt[v])
<1>1. attempt[v] \in AttemptRows
    BY BuildRows
<1>2. /\ attempt'[v].receipt = attempt[v].receipt
      /\ \/ attempt'[v].state = attempt[v].state
         \/ attempt[v].state \in {"CLAIMED", "DISPATCHED"} /\ attempt'[v].state = "UNKNOWN"
    BY <1>1 DEF FencedOrKept, AttemptRows
<1>3. WorkerInv(v)
    BY DEF BuildInv
<1> QED
    BY <1>2, <1>3 DEF WorkerInv, FencedOrKept

\* A step that leaves the patch and its verifications alone.
LEMMA WorkerStepKeeps ==
    ASSUME BuildInv, NEW w \in Workers, UNCHANGED <<patch, approval, surface, verif, call>>,
           attempt' \in [Workers -> AttemptRows], archive' \in [Workers -> ArchiveRows],
           worker' \in [Workers -> WorkerRows], container' \in [Workers -> ContainerStates],
           \A v \in Workers : v # w => /\ FencedOrKept(v) /\ worker'[v] = worker[v]
                                       /\ container'[v] = container[v] /\ archive'[v] = archive[v],
           WorkerInv(w)',
           attempt[w].state \in {"BUILT", "FAILED"} => attempt'[w].state = attempt[w].state
    PROVE  BuildInv'
<1>1. BuildTypeOK'
    BY DEF BuildInv, BuildTypeOK, AttemptRows, ArchiveRows, WorkerRows, ContainerStates
<1>2. \A v \in Workers : /\ WorkerInv(v)'
                         /\ attempt[v].state \in {"BUILT", "FAILED"} => attempt'[v].state = attempt[v].state
    BY BystanderStands
<1>3. PatchInv'
    BY <1>2 DEF BuildInv, PatchInv
<1>4. ConclusionMatchesPatch'
    BY <1>2 DEF BuildInv, ConclusionMatchesPatch
<1>5. patch'.status = "FAILED" =>
       \/ \E o \in Openers : verif'[o].state = "CONCLUDED"
       \/ \E v \in Workers : attempt'[v].state = "FAILED"
    BY <1>2 DEF BuildInv
<1> QED
    BY <1>1, <1>2, <1>3, <1>4, <1>5 DEF BuildInv

\* The coordinator's own steps: preparing, dispatching, the container, its failure and its crash.
LEMMA CoordinatorKeeps ==
    ASSUME BuildInv, NEW w \in Workers,
           \/ Prepare(w) \/ AuthorizeDispatch(w) \/ CreateContainer(w) \/ StartContainer(w)
           \/ BuildEnds(w) \/ Crash(w)
    PROVE  BuildInv'
<1>0. /\ attempt \in [Workers -> AttemptRows] /\ archive \in [Workers -> ArchiveRows]
      /\ worker \in [Workers -> WorkerRows] /\ container \in [Workers -> ContainerStates]
      /\ surface \in Nat /\ patch.revision \in Nat /\ WorkerInv(w)
    BY BuildRows DEF BuildInv, BuildTypeOK
<1>1. CASE Prepare(w)
  <2>1. UNCHANGED <<patch, approval, surface, verif, call, attempt, archive, container>>
      BY <1>1 DEF Prepare
  <2>2. worker' \in [Workers -> WorkerRows] /\ worker'[w].pc = "prepared" /\ worker[w].pc = "idle"
        /\ \A v \in Workers : v # w => worker'[v] = worker[v]
      BY <1>0, <1>1 DEF Prepare, WorkerRows
  <2>3. WorkerInv(w)'
      BY <1>0, <2>1, <2>2 DEF WorkerInv
  <2> QED
      BY <1>0, <2>1, <2>2, <2>3, WorkerStepKeeps DEF FencedOrKept
<1>2. CASE AuthorizeDispatch(w)
  <2>1. UNCHANGED <<patch, approval, surface, verif, call, archive, container>>
      BY <1>2 DEF AuthorizeDispatch
  <2>2. /\ worker' \in [Workers -> WorkerRows] /\ worker[w].pc = "claimed"
        /\ \A v \in Workers : v # w => worker'[v] = worker[v]
        /\ attempt' \in [Workers -> AttemptRows]
        /\ \A v \in Workers : v # w => attempt'[v] = attempt[v]
        /\ attempt'[w].receipt = attempt[w].receipt
        /\ \/ worker'[w].pc = "dispatched" /\ attempt[w].state = "CLAIMED" /\ attempt'[w].state = "DISPATCHED"
           \/ worker'[w].pc = "stopped" /\ attempt'[w].state = attempt[w].state
    <3>1. /\ worker[w].pc = "claimed"
          /\ \/ /\ attempt[w].state = "CLAIMED"
                /\ attempt' = [attempt EXCEPT ![w].state = "DISPATCHED"]
                /\ worker' = [worker EXCEPT ![w].pc = "dispatched"]
             \/ attempt' = attempt /\ worker' = [worker EXCEPT ![w].pc = "stopped"]
        BY <1>2 DEF AuthorizeDispatch, Owned, Stop
    <3>2. "DISPATCHED" \in AttemptState
        BY DEF AttemptState
    <3>3. CASE attempt' = attempt /\ worker' = [worker EXCEPT ![w].pc = "stopped"]
        BY <1>0, <3>1, <3>3, WorkerMoves
    <3>4. CASE /\ attempt[w].state = "CLAIMED"
               /\ attempt' = [attempt EXCEPT ![w].state = "DISPATCHED"]
               /\ worker' = [worker EXCEPT ![w].pc = "dispatched"]
      <4>1. /\ worker' \in [Workers -> WorkerRows] /\ worker'[w].pc = "dispatched"
            /\ \A v \in Workers : v # w => worker'[v] = worker[v]
          BY <1>0, <3>4, WorkerMoves
      <4>2. /\ attempt' \in [Workers -> AttemptRows] /\ attempt'[w].state = "DISPATCHED"
            /\ attempt'[w].receipt = attempt[w].receipt
            /\ \A v \in Workers : v # w => attempt'[v] = attempt[v]
          BY <1>0, <3>2, <3>4, AttemptMoves
      <4> QED
          BY <3>1, <3>4, <4>1, <4>2
    <3> QED
        BY <3>1, <3>3, <3>4
  <2>3. WorkerInv(w)' /\ (attempt[w].state \in {"BUILT", "FAILED"} => attempt'[w].state = attempt[w].state)
      BY <1>0, <2>1, <2>2 DEF WorkerInv
  <2> QED
      BY <1>0, <2>1, <2>2, <2>3, WorkerStepKeeps DEF FencedOrKept
<1>3. CASE CreateContainer(w)
  <2>1. UNCHANGED <<patch, approval, surface, verif, call, attempt, archive>>
      BY <1>3 DEF CreateContainer
  <2>2. /\ worker' \in [Workers -> WorkerRows] /\ worker[w].pc = "dispatched"
        /\ \A v \in Workers : v # w => worker'[v] = worker[v]
        /\ container' \in [Workers -> ContainerStates]
        /\ \A v \in Workers : v # w => container'[v] = container[v]
        /\ worker'[w].pc \in {"created", "failingUnclean"}
      BY <1>0, <1>3 DEF CreateContainer, WorkerRows, ContainerStates
  <2>3. WorkerInv(w)'
      BY <1>0, <2>1, <2>2 DEF WorkerInv
  <2> QED
      BY <1>0, <2>1, <2>2, <2>3, WorkerStepKeeps DEF FencedOrKept
<1>4. CASE StartContainer(w)
  <2>1. UNCHANGED <<patch, approval, surface, verif, call, archive>>
      BY <1>4 DEF StartContainer
  <2>2. /\ worker' \in [Workers -> WorkerRows] /\ worker[w].pc = "created"
        /\ \A v \in Workers : v # w => worker'[v] = worker[v]
        /\ container' \in [Workers -> ContainerStates]
        /\ \A v \in Workers : v # w => container'[v] = container[v]
        /\ attempt' \in [Workers -> AttemptRows] /\ attempt'[w].state = attempt[w].state
        /\ \A v \in Workers : v # w => attempt'[v] = attempt[v]
        /\ \/ worker'[w].pc = "started"
           \/ worker'[w].pc = "failing" /\ container'[w] = "removed"
           \/ worker'[w].pc = "failingUnclean"
    <3>1. worker[w].pc = "created"
        BY <1>4 DEF StartContainer
    <3>2. CASE Owned(w, "DISPATCHED")
      <4>1. /\ worker' = [worker EXCEPT ![w].pc = "started"]
            /\ attempt' = [attempt EXCEPT ![w].receipt = TRUE]
            /\ container' = [container EXCEPT ![w] = "running"]
          BY <1>4, <3>2 DEF StartContainer
      <4>2. /\ attempt' \in [Workers -> AttemptRows] /\ attempt'[w].state = attempt[w].state
            /\ \A v \in Workers : v # w => attempt'[v] = attempt[v]
          BY <1>0, <4>1 DEF AttemptRows
      <4>3. container' \in [Workers -> ContainerStates] /\ \A v \in Workers : v # w => container'[v] = container[v]
          BY <1>0, <4>1 DEF ContainerStates
      <4> QED
          BY <3>1, <4>1, <4>2, <4>3, WorkerMoves
    <3>3. CASE ~Owned(w, "DISPATCHED")
      <4>1. /\ attempt' = attempt
            /\ \/ /\ container' = [container EXCEPT ![w] = "removed"]
                  /\ worker' = [worker EXCEPT ![w].pc = "failing"]
               \/ worker' = [worker EXCEPT ![w].pc = "failingUnclean"] /\ container' = container
          BY <1>4, <3>3 DEF StartContainer
      <4>2. container' \in [Workers -> ContainerStates] /\ \A v \in Workers : v # w => container'[v] = container[v]
          BY <1>0, <4>1 DEF ContainerStates
      <4>3. CASE worker' = [worker EXCEPT ![w].pc = "failing"] /\ container' = [container EXCEPT ![w] = "removed"]
          BY <1>0, <3>1, <4>1, <4>2, <4>3, WorkerMoves
      <4>4. CASE worker' = [worker EXCEPT ![w].pc = "failingUnclean"]
          BY <1>0, <3>1, <4>1, <4>2, <4>4, WorkerMoves
      <4> QED
          BY <4>1, <4>3, <4>4
    <3> QED
        BY <3>2, <3>3
  <2>3. WorkerInv(w)'
      BY <1>0, <2>1, <2>2 DEF WorkerInv
  <2> QED
      BY <1>0, <2>1, <2>2, <2>3, WorkerStepKeeps DEF FencedOrKept
<1>5. CASE BuildEnds(w)
  <2>1. UNCHANGED <<patch, approval, surface, verif, call, attempt, archive>>
      BY <1>5 DEF BuildEnds
  <2>2. /\ worker' \in [Workers -> WorkerRows] /\ worker[w].pc = "started"
        /\ \A v \in Workers : v # w => worker'[v] = worker[v]
        /\ container' \in [Workers -> ContainerStates]
        /\ \A v \in Workers : v # w => container'[v] = container[v]
        /\ \/ worker'[w].pc \in {"captured", "failing"} /\ container'[w] = "removed"
           \/ worker'[w].pc = "failingUnclean"
      BY <1>0, <1>5 DEF BuildEnds, WorkerRows, ContainerStates
  <2>3. WorkerInv(w)'
      BY <1>0, <2>1, <2>2 DEF WorkerInv
  <2> QED
      BY <1>0, <2>1, <2>2, <2>3, WorkerStepKeeps DEF FencedOrKept
<1>6. CASE Crash(w)
  <2>1. UNCHANGED <<patch, approval, surface, verif, call, attempt, archive, container>>
      BY <1>6 DEF Crash
  <2>2. /\ worker' \in [Workers -> WorkerRows] /\ worker[w].pc \notin {"idle", "built", "stopped"}
        /\ \A v \in Workers : v # w => worker'[v] = worker[v]
        /\ worker'[w].pc = "stopped"
      BY <1>0, <1>6 DEF Crash, Stop, WorkerRows
  <2>3. WorkerInv(w)'
      BY <1>0, <2>1, <2>2 DEF WorkerInv
  <2> QED
      BY <1>0, <2>1, <2>2, <2>3, WorkerStepKeeps DEF FencedOrKept
<1> QED
    BY <1>1, <1>2, <1>3, <1>4, <1>5, <1>6

\* A fence closes an attempt that is not settled yet.
LEMMA FencingKeeps ==
    ASSUME BuildInv, attempt' = FencedAttempts(attempt)
    PROVE  attempt' \in [Workers -> AttemptRows] /\ \A v \in Workers : FencedOrKept(v)
<1>1. \A v \in Workers : attempt[v] \in AttemptRows
    BY BuildRows
<1>2. \A v \in Workers : [attempt[v] EXCEPT !.state = "UNKNOWN"] \in AttemptRows
    BY <1>1 DEF AttemptRows, AttemptState
<1>3. /\ DOMAIN attempt' = Workers /\ attempt' = [v \in Workers |-> attempt'[v]]
      /\ \A v \in Workers :
           attempt'[v] = IF attempt[v].state \in {"CLAIMED", "DISPATCHED"} /\ ~attempt[v].leased
                         THEN [attempt[v] EXCEPT !.state = "UNKNOWN"] ELSE attempt[v]
    BY DEF FencedAttempts
<1> QED
    BY <1>1, <1>2, <1>3 DEF FencedOrKept

\* The expiry sweep fences like any other.
LEMMA FenceExpiredKeeps == BuildInv /\ FenceExpired => BuildInv'
<1> SUFFICES ASSUME BuildInv, FenceExpired PROVE BuildInv'
    OBVIOUS
<1>1. /\ UNCHANGED <<patch, approval, surface, verif, call, archive, worker, container>>
      /\ attempt' \in [Workers -> AttemptRows] /\ \A v \in Workers : FencedOrKept(v)
    BY FencingKeeps DEF FenceExpired
<1>2. \A v \in Workers : WorkerInv(v)' /\ (attempt[v].state \in {"BUILT", "FAILED"} => attempt'[v] = attempt[v])
    BY <1>1, BystanderStands
<1>3. BuildTypeOK'
    BY <1>1 DEF BuildInv, BuildTypeOK, AttemptRows
<1>4. PatchInv' /\ ConclusionMatchesPatch'
    BY <1>1, <1>2 DEF BuildInv, PatchInv, ConclusionMatchesPatch
<1> QED
    BY <1>1, <1>2, <1>3, <1>4 DEF BuildInv

\* A worker that gives up keeps what its rows say.
LEMMA StoppedStands ==
    ASSUME BuildInv, NEW w \in Workers, FencedOrKept(w), worker'[w].pc = "stopped",
           worker[w].pc \notin {"idle", "prepared", "built"},
           container'[w] = container[w], archive'[w] = archive[w], verif'[w] = verif[w]
    PROVE  WorkerInv(w)' /\ (attempt[w].state \in {"BUILT", "FAILED"} => attempt'[w].state = attempt[w].state)
<1>1. attempt[w] \in AttemptRows
    BY BuildRows
<1>2. /\ attempt'[w].receipt = attempt[w].receipt
      /\ \/ attempt'[w].state = attempt[w].state
         \/ attempt[w].state \in {"CLAIMED", "DISPATCHED"} /\ attempt'[w].state = "UNKNOWN"
    BY <1>1 DEF FencedOrKept, AttemptRows
<1>3. WorkerInv(w)
    BY DEF BuildInv
<1> QED
    BY <1>2, <1>3 DEF WorkerInv

\* A recorded failure concludes the attempt and its patch together.
LEMMA RecordFailureKeeps == ASSUME BuildInv, NEW w \in Workers, RecordFailure(w) PROVE BuildInv'
<1>0. /\ attempt \in [Workers -> AttemptRows] /\ archive \in [Workers -> ArchiveRows]
      /\ container \in [Workers -> ContainerStates] /\ WorkerInv(w)
    BY BuildRows DEF BuildInv
<1>1. /\ UNCHANGED <<approval, surface, verif, call, archive, container>>
      /\ worker' = [worker EXCEPT ![w].pc = "stopped"]
      /\ worker[w].pc \in {"failing", "failingUnclean"}
    BY DEF RecordFailure, Stop
<1>2. /\ worker' \in [Workers -> WorkerRows] /\ worker'[w].pc = "stopped"
      /\ \A v \in Workers : v # w => worker'[v] = worker[v]
    BY <1>1, WorkerMoves
<1>3. CASE ~Owned(w, "DISPATCHED")
  <2>1. attempt' = FencedAttempts(attempt) /\ UNCHANGED patch
      BY <1>3 DEF RecordFailure
  <2>2. attempt' \in [Workers -> AttemptRows] /\ \A v \in Workers : FencedOrKept(v)
      BY <2>1, FencingKeeps
  <2>3. WorkerInv(w)' /\ (attempt[w].state \in {"BUILT", "FAILED"} => attempt'[w].state = attempt[w].state)
      BY <1>1, <1>2, <2>2, StoppedStands
  <2> QED
      BY <1>0, <1>1, <1>2, <2>1, <2>2, <2>3, WorkerStepKeeps
<1>4. CASE Owned(w, "DISPATCHED")
  <2>1. PICK q \in {"FAILED", "UNKNOWN"} :
          /\ attempt' = [attempt EXCEPT ![w].state = q]
          /\ q = "FAILED" => worker[w].pc = "failing"
          /\ \/ patch' = patch
             \/ q = "FAILED" /\ PatchStillBuilding(w) /\ patch' = Moved("FAILED")
      BY <1>4 DEF RecordFailure, CleanupConfirmed
  <2>2. /\ attempt' \in [Workers -> AttemptRows] /\ attempt'[w].state = q
        /\ attempt'[w].receipt = attempt[w].receipt
        /\ \A v \in Workers : v # w => attempt'[v] = attempt[v]
      BY <2>1, AttemptMoves DEF AttemptState
  <2>3. attempt[w].state = "DISPATCHED"
      BY <1>4 DEF Owned
  <2>4. WorkerInv(w)'
      BY <1>0, <1>1, <1>2, <2>1, <2>2, <2>3 DEF WorkerInv
  <2>5. CASE patch' = patch
      BY <1>0, <1>1, <1>2, <2>2, <2>3, <2>4, <2>5, WorkerStepKeeps DEF FencedOrKept
  <2>6. CASE q = "FAILED" /\ PatchStillBuilding(w) /\ patch' = Moved("FAILED")
    <3>1. /\ patch.status = "BUILDING" /\ patch'.status = "FAILED"
          /\ patch' \in [status : PatchStatus, revision : Nat]
        BY <2>6 DEF PatchStillBuilding, Moved, BuildInv, BuildTypeOK, PatchStatus
    <3>2. \A v \in Workers : /\ WorkerInv(v)'
                             /\ attempt[v].state = "BUILT" => attempt'[v].state = "BUILT"
      <4>1. \A v \in Workers : v # w => WorkerInv(v)'
          BY <1>1, <1>2, <2>2, BystanderStands DEF FencedOrKept
      <4> QED
          BY <2>2, <2>3, <2>4, <4>1
    <3>3. BuildTypeOK'
        BY <1>1, <1>2, <2>2, <3>1 DEF BuildInv, BuildTypeOK, AttemptRows, WorkerRows
    <3>4. PatchInv'
        BY <1>1, <3>1, <3>2 DEF BuildInv, PatchInv
    <3>5. ConclusionMatchesPatch'
        BY <1>1, <3>1 DEF BuildInv, ConclusionMatchesPatch
    <3> QED
        BY <2>2, <2>6, <3>2, <3>3, <3>4, <3>5 DEF BuildInv
  <2> QED
      BY <2>1, <2>5, <2>6
<1> QED
    BY <1>3, <1>4

-----------------------------------------------------------------------------
(* The archive.                                                            *)

\* The archive: its intent, its upload and the promotion that binds it.
LEMMA ArchiveKeeps ==
    ASSUME BuildInv, NEW w \in Workers,
           RetainArtifactIntent(w) \/ Upload(w) \/ Promote(w) \/ PublishMaterialization(w)
    PROVE  BuildInv'
<1>0. /\ attempt \in [Workers -> AttemptRows] /\ archive \in [Workers -> ArchiveRows]
      /\ worker \in [Workers -> WorkerRows] /\ container \in [Workers -> ContainerStates]
      /\ WorkerInv(w)
    BY BuildRows DEF BuildInv
\* Whoever gives up changes nothing else.
<1>1. ASSUME Stop(w), worker[w].pc \notin {"idle", "prepared", "built"},
             UNCHANGED <<patch, approval, surface, verif, call, attempt, archive, container>>
      PROVE  BuildInv'
  <2>1. /\ worker' \in [Workers -> WorkerRows] /\ worker'[w].pc = "stopped"
        /\ \A v \in Workers : v # w => worker'[v] = worker[v]
      BY <1>1, WorkerMoves DEF Stop
  <2>2. WorkerInv(w)'
      BY <1>1, <2>1, StoppedStands DEF FencedOrKept
  <2> QED
      BY <1>0, <1>1, <2>1, <2>2, WorkerStepKeeps DEF FencedOrKept
<1>2. CASE RetainArtifactIntent(w)
  <2>1. CASE Owned(w, "DISPATCHED") /\ attempt[w].receipt /\ archive[w].state = "none"
    <3>1. /\ worker[w].pc = "captured" /\ worker' = [worker EXCEPT ![w].pc = "intent"]
          /\ archive' = [archive EXCEPT ![w].state = "QUARANTINED"]
          /\ UNCHANGED <<patch, approval, surface, verif, call, attempt, container>>
        BY <1>2, <2>1 DEF RetainArtifactIntent
    <3>2. /\ worker' \in [Workers -> WorkerRows] /\ worker'[w].pc = "intent"
          /\ \A v \in Workers : v # w => worker'[v] = worker[v]
        BY <3>1, WorkerMoves
    <3>3. /\ archive' \in [Workers -> ArchiveRows] /\ archive'[w].state = "QUARANTINED"
          /\ archive'[w].object = archive[w].object /\ archive'[w].retirement = archive[w].retirement
          /\ \A v \in Workers : v # w => archive'[v] = archive[v]
        BY <1>0, <3>1 DEF ArchiveRows
    <3>4. WorkerInv(w)'
        BY <1>0, <2>1, <3>1, <3>2, <3>3 DEF WorkerInv, Owned
    <3> QED
        BY <1>0, <3>1, <3>2, <3>3, <3>4, WorkerStepKeeps DEF FencedOrKept
  <2> QED
      BY <1>1, <1>2, <2>1 DEF RetainArtifactIntent
<1>3. CASE Upload(w)
  <2>1. CASE CreateOnly(w)
    <3>1. /\ worker[w].pc = "intent" /\ worker' = [worker EXCEPT ![w].pc = "uploaded"]
          /\ archive' = [archive EXCEPT ![w].object = "bytes"]
          /\ UNCHANGED <<patch, approval, surface, verif, call, attempt, container>>
        BY <1>3, <2>1 DEF Upload
    <3>2. /\ worker' \in [Workers -> WorkerRows] /\ worker'[w].pc = "uploaded"
          /\ \A v \in Workers : v # w => worker'[v] = worker[v]
        BY <3>1, WorkerMoves
    <3>3. /\ archive' \in [Workers -> ArchiveRows] /\ archive'[w].object = "bytes"
          /\ archive'[w].state = archive[w].state /\ archive'[w].retirement = archive[w].retirement
          /\ \A v \in Workers : v # w => archive'[v] = archive[v]
        BY <1>0, <3>1 DEF ArchiveRows
    <3>4. WorkerInv(w)'
        BY <1>0, <3>1, <3>2, <3>3 DEF WorkerInv
    <3> QED
        BY <1>0, <3>1, <3>2, <3>3, <3>4, WorkerStepKeeps DEF FencedOrKept
  <2> QED
      BY <1>1, <1>3, <2>1 DEF Upload
<1>4. CASE Promote(w)
  <2>1. CASE Promotable(w)
    <3>1. /\ worker[w].pc = "uploaded" /\ worker' = [worker EXCEPT ![w].pc = "built"]
          /\ archive' = [archive EXCEPT ![w].state = "RETAINED"]
          /\ attempt' = [attempt EXCEPT ![w].state = "BUILT"]
          /\ attempt[w].state = "DISPATCHED" /\ archive[w].retirement = "none"
          /\ UNCHANGED <<patch, approval, surface, verif, call, container>>
        BY <1>4, <2>1 DEF Promote, Promotable, Owned
    <3>2. /\ worker' \in [Workers -> WorkerRows] /\ worker'[w].pc = "built"
          /\ \A v \in Workers : v # w => worker'[v] = worker[v]
        BY <3>1, WorkerMoves
    <3>3. /\ archive' \in [Workers -> ArchiveRows] /\ archive'[w].state = "RETAINED"
          /\ archive'[w].object = archive[w].object /\ archive'[w].retirement = archive[w].retirement
          /\ \A v \in Workers : v # w => archive'[v] = archive[v]
        BY <1>0, <3>1 DEF ArchiveRows
    <3>4. /\ attempt' \in [Workers -> AttemptRows] /\ attempt'[w].state = "BUILT"
          /\ attempt'[w].receipt = attempt[w].receipt
          /\ \A v \in Workers : v # w => attempt'[v] = attempt[v]
        BY <3>1, AttemptMoves DEF AttemptState
    <3>5. archive[w].object = "bytes"
        BY <1>0, <3>1 DEF WorkerInv, ArchiveRows
    <3>6. WorkerInv(w)'
        BY <1>0, <3>1, <3>2, <3>3, <3>4, <3>5 DEF WorkerInv
    <3> QED
        BY <1>0, <3>1, <3>2, <3>3, <3>4, <3>6, WorkerStepKeeps DEF FencedOrKept
  <2> QED
      BY <1>1, <1>4, <2>1 DEF Promote
<1>5. CASE PublishMaterialization(w)
  <2>1. /\ attempt' = [attempt EXCEPT ![w].published = TRUE]
        /\ UNCHANGED <<patch, approval, surface, verif, call, archive, worker, container>>
      BY <1>5 DEF PublishMaterialization
  <2>2. /\ attempt' \in [Workers -> AttemptRows] /\ attempt'[w].state = attempt[w].state
        /\ attempt'[w].receipt = attempt[w].receipt
        /\ \A v \in Workers : v # w => attempt'[v] = attempt[v]
      BY <1>0, <2>1 DEF AttemptRows
  <2>3. WorkerInv(w)'
      BY <1>0, <2>1, <2>2 DEF WorkerInv
  <2> QED
      BY <1>0, <2>1, <2>2, <2>3, WorkerStepKeeps DEF FencedOrKept
<1> QED
    BY <1>2, <1>3, <1>4, <1>5

\* The retirement of an archive: the tombstone comes after the decision.
LEMMA RetirementKeeps == ASSUME BuildInv, NEW w \in Workers, RetentionStep(w) PROVE BuildInv'
<1>0. /\ attempt \in [Workers -> AttemptRows] /\ archive \in [Workers -> ArchiveRows]
      /\ worker \in [Workers -> WorkerRows] /\ container \in [Workers -> ContainerStates]
      /\ WorkerInv(w)
    BY BuildRows DEF BuildInv
<1>1. UNCHANGED <<patch, approval, surface, verif, call, worker, container>>
    BY DEF RetentionStep, LeaseLapses, RetentionElapses, RetireIntent, RetireObject, RetireCompletes
<1>2. CASE LeaseLapses(w)
  <2>1. attempt' = [attempt EXCEPT ![w].leased = FALSE] /\ UNCHANGED archive
      BY <1>2 DEF LeaseLapses
  <2>2. /\ attempt' \in [Workers -> AttemptRows] /\ attempt'[w].state = attempt[w].state
        /\ attempt'[w].receipt = attempt[w].receipt
        /\ \A v \in Workers : v # w => attempt'[v] = attempt[v]
      BY <1>0, <2>1 DEF AttemptRows
  <2>3. WorkerInv(w)'
      BY <1>0, <1>1, <2>1, <2>2 DEF WorkerInv
  <2> QED
      BY <1>0, <1>1, <2>1, <2>2, <2>3, WorkerStepKeeps DEF FencedOrKept
<1>3. CASE RetentionElapses(w)
  <2>1. archive' = [archive EXCEPT ![w].fresh = FALSE] /\ UNCHANGED attempt
      BY <1>3 DEF RetentionElapses
  <2>2. /\ archive' \in [Workers -> ArchiveRows] /\ archive'[w].state = archive[w].state
        /\ archive'[w].object = archive[w].object /\ archive'[w].retirement = archive[w].retirement
        /\ \A v \in Workers : v # w => archive'[v] = archive[v]
      BY <1>0, <2>1 DEF ArchiveRows
  <2>3. WorkerInv(w)'
      BY <1>0, <1>1, <2>1, <2>2 DEF WorkerInv
  <2> QED
      BY <1>0, <1>1, <2>1, <2>2, <2>3, WorkerStepKeeps DEF FencedOrKept
<1>4. CASE RetireIntent(w)
  <2> DEFINE q == IF attempt[w].state \in {"CLAIMED", "DISPATCHED"} THEN "UNKNOWN" ELSE attempt[w].state
  <2>1. /\ archive' = [archive EXCEPT ![w].retirement = "intended"] /\ archive[w].state # "none"
        /\ attempt' = [attempt EXCEPT ![w].state = q]
      BY <1>4 DEF RetireIntent
  <2>2. /\ archive' \in [Workers -> ArchiveRows] /\ archive'[w].state = archive[w].state
        /\ archive'[w].object = archive[w].object /\ archive'[w].retirement = "intended"
        /\ \A v \in Workers : v # w => archive'[v] = archive[v]
      BY <1>0, <2>1 DEF ArchiveRows
  <2>3. q \in AttemptState
      BY <1>0 DEF AttemptRows, AttemptState
  <2>4. /\ attempt' \in [Workers -> AttemptRows] /\ attempt'[w].state = q
        /\ attempt'[w].receipt = attempt[w].receipt
        /\ \A v \in Workers : v # w => attempt'[v] = attempt[v]
      BY <2>1, <2>3, AttemptMoves
  <2>5. WorkerInv(w)' /\ (attempt[w].state \in {"BUILT", "FAILED"} => attempt'[w].state = attempt[w].state)
      BY <1>0, <1>1, <2>1, <2>2, <2>4 DEF WorkerInv
  <2> HIDE DEF q
  <2> QED
      BY <1>0, <1>1, <2>2, <2>4, <2>5, WorkerStepKeeps DEF FencedOrKept
<1>5. CASE RetireObject(w)
  <2>1. /\ archive' = [archive EXCEPT ![w].object = "tombstone"] /\ UNCHANGED attempt
        /\ archive[w].retirement = "intended"
      BY <1>5 DEF RetireObject
  <2>2. /\ archive' \in [Workers -> ArchiveRows] /\ archive'[w].state = archive[w].state
        /\ archive'[w].object = "tombstone" /\ archive'[w].retirement = "intended"
        /\ \A v \in Workers : v # w => archive'[v] = archive[v]
      BY <1>0, <2>1 DEF ArchiveRows
  <2>3. WorkerInv(w)'
      BY <1>0, <1>1, <2>1, <2>2 DEF WorkerInv
  <2> QED
      BY <1>0, <1>1, <2>1, <2>2, <2>3, WorkerStepKeeps DEF FencedOrKept
<1>6. CASE RetireCompletes(w)
  <2>1. /\ archive' = [archive EXCEPT ![w].retirement = "completed", ![w].state = "DELETED"] /\ UNCHANGED attempt
      BY <1>6 DEF RetireCompletes
  <2>2. /\ archive' \in [Workers -> ArchiveRows] /\ archive'[w].state = "DELETED"
        /\ archive'[w].object = archive[w].object /\ archive'[w].retirement = "completed"
        /\ \A v \in Workers : v # w => archive'[v] = archive[v]
      BY <1>0, <2>1 DEF ArchiveRows
  <2>3. WorkerInv(w)'
      BY <1>0, <1>1, <2>1, <2>2 DEF WorkerInv
  <2> QED
      BY <1>0, <1>1, <2>1, <2>2, <2>3, WorkerStepKeeps DEF FencedOrKept
<1> QED
    BY <1>2, <1>3, <1>4, <1>5, <1>6 DEF RetentionStep

-----------------------------------------------------------------------------
(* Reviewers, verifications and conclusions.                               *)

Verifications == [state : {"none", "BUILDING", "CONCLUDED"},
                  conclusion : {"none", "VERIFIED", "NOT_ESTABLISHED", "INCONCLUSIVE"},
                  revision : Nat, bound : BOOLEAN]
CallRows == [op : {"idle", "read", "opening", "concluding", "done"}, revision : Nat,
          on : Openers \cup {"none"}]

\* Steps that touch no worker, attempt, container or archive keep the workers in order.
LEMMA WorkersStand ==
    ASSUME BuildInv, UNCHANGED <<attempt, archive, worker, container>>,
           \A v \in Workers : verif[v].state # "none" => verif'[v].state # "none"
    PROVE  \A v \in Workers : WorkerInv(v)'
    BY BystanderStands DEF FencedOrKept

\* A step in which no verification changes and the patch stays where it was opened or not.
LEMMA ReviewKeeps ==
    ASSUME BuildInv, UNCHANGED <<verif, attempt, archive, worker, container>>,
           patch' \in [status : PatchStatus, revision : Nat],
           \/ patch' = patch
           \/ /\ patch.status \in {"PROPOSED", "APPROVED"} /\ patch'.status \in {"APPROVED", "REJECTED"},
           approval' \in [state : {"none", "live", "ended"}, revision : Nat], surface' \in 0 .. MaxSurface,
           call' \in [Callers -> CallRows],
           \A c \in Callers : call'[c].op = "concluding" =>
             call'[c].on \in Openers /\ verif[call'[c].on].state # "none"
    PROVE  BuildInv'
<1>1. BuildTypeOK'
    BY DEF BuildInv, BuildTypeOK, CallRows
<1>2. PatchInv' /\ ConclusionMatchesPatch'
    BY DEF BuildInv, PatchInv, ConclusionMatchesPatch
<1>3. \A v \in Workers : WorkerInv(v)'
    BY WorkersStand
<1> QED
    BY <1>1, <1>2, <1>3 DEF BuildInv

\* A review and the steps of the callers before they write.
LEMMA ReviewersKeep ==
    ASSUME BuildInv,
           \/ \E c \in Callers : \/ ReadPatch(c) \/ ApprovePatch(c) \/ RejectPatch(c)
                                 \/ OpenVerificationReads(c) \/ \E o \in Openers : ConcludeReads(c, o)
           \/ ApprovalEnds \/ ConfigureRepairSurface
    PROVE  BuildInv'
<1>0. /\ patch \in [status : PatchStatus, revision : Nat] /\ call \in [Callers -> CallRows]
      /\ approval \in [state : {"none", "live", "ended"}, revision : Nat] /\ surface \in 0 .. MaxSurface
      /\ \A o \in Openers : verif[o].revision \in Nat
      /\ \A c \in Callers : call[c].op = "concluding" =>
           call[c].on \in Openers /\ verif[call[c].on].state # "none"
    BY DEF BuildInv, BuildTypeOK, CallRows, PatchInv
<1>1. ASSUME NEW c \in Callers, ReadPatch(c) PROVE BuildInv'
  <2>1. /\ call' = [call EXCEPT ![c] = [call[c] EXCEPT !.op = "read", !.revision = patch.revision]]
        /\ UNCHANGED <<patch, approval, surface, verif, attempt, archive, worker, container>>
      BY <1>0, <1>1 DEF ReadPatch
  <2>2. /\ [call[c] EXCEPT !.op = "read", !.revision = patch.revision] \in CallRows
        /\ [call[c] EXCEPT !.op = "read", !.revision = patch.revision].op = "read"
      BY <1>0 DEF CallRows
  <2> QED
      BY <1>0, <2>1, <2>2, ReviewKeeps
<1>2. ASSUME NEW c \in Callers, ApprovePatch(c) \/ RejectPatch(c) PROVE BuildInv'
  <2>1. /\ call' = [call EXCEPT ![c] = [call[c] EXCEPT !.op = "done"]]
        /\ approval' = approval \/ approval' = [state |-> "live", revision |-> patch.revision + 1]
        /\ UNCHANGED <<surface, verif, attempt, archive, worker, container>>
      BY <1>0, <1>2 DEF ApprovePatch, RejectPatch
  <2>2. /\ [call[c] EXCEPT !.op = "done"] \in CallRows /\ [call[c] EXCEPT !.op = "done"].op = "done"
      BY <1>0 DEF CallRows
  <2>3. PICK to \in {"APPROVED", "REJECTED"} : patch' = Moved(to) /\ to \in ALLOWED_TRANSITIONS[patch.status]
      BY <1>2 DEF ApprovePatch, RejectPatch, TransitionAllowed
  <2>4. patch.status \in {"PROPOSED", "APPROVED"}
      BY <1>0, <2>3 DEF ALLOWED_TRANSITIONS, PatchStatus
  <2>5. patch' \in [status : PatchStatus, revision : Nat] /\ patch'.status \in {"APPROVED", "REJECTED"}
      BY <1>0, <2>3 DEF Moved, PatchStatus
  <2>6. approval' \in [state : {"none", "live", "ended"}, revision : Nat]
      BY <1>0, <2>1
  <2>7. call' \in [Callers -> CallRows] /\ \A b \in Callers : b # c => call'[b] = call[b]
      BY <1>0, <2>1, <2>2
  <2>8. call'[c].op = "done"
      BY <1>0, <2>1, <2>2
  <2> QED
      BY <1>0, <2>1, <2>4, <2>5, <2>6, <2>7, <2>8, ReviewKeeps
<1>3. ASSUME NEW c \in Callers, OpenVerificationReads(c) PROVE BuildInv'
  <2>1. /\ call' = [call EXCEPT ![c] = [call[c] EXCEPT !.op = "opening"]]
        /\ UNCHANGED <<patch, approval, surface, verif, attempt, archive, worker, container>>
      BY <1>0, <1>3 DEF OpenVerificationReads
  <2>2. /\ [call[c] EXCEPT !.op = "opening"] \in CallRows /\ [call[c] EXCEPT !.op = "opening"].op = "opening"
      BY <1>0 DEF CallRows
  <2> QED
      BY <1>0, <2>1, <2>2, ReviewKeeps
<1>4. ASSUME NEW c \in Callers, NEW o \in Openers, ConcludeReads(c, o) PROVE BuildInv'
  <2>1. /\ call' = [call EXCEPT ![c] = [op |-> "concluding", revision |-> verif[o].revision, on |-> o]]
        /\ verif[o].state = "BUILDING"
        /\ UNCHANGED <<patch, approval, surface, verif, attempt, archive, worker, container>>
      BY <1>4 DEF ConcludeReads
  <2>2. [op |-> "concluding", revision |-> verif[o].revision, on |-> o] \in CallRows
      BY <1>0 DEF CallRows
  <2>3. call' \in [Callers -> CallRows] /\ call'[c].on = o /\ \A b \in Callers : b # c => call'[b] = call[b]
      BY <1>0, <2>1, <2>2
  <2> QED
      BY <1>0, <2>1, <2>3, ReviewKeeps
<1>5. CASE ApprovalEnds
  <2>1. /\ approval' = [approval EXCEPT !.state = "ended"]
        /\ UNCHANGED <<patch, surface, verif, call, attempt, archive, worker, container>>
      BY <1>5 DEF ApprovalEnds
  <2>2. approval' \in [state : {"none", "live", "ended"}, revision : Nat]
      BY <1>0, <2>1
  <2> QED
      BY <1>0, <2>1, <2>2, ReviewKeeps
<1>6. CASE ConfigureRepairSurface
  <2>1. /\ surface' = surface + 1 /\ surface < MaxSurface
        /\ UNCHANGED <<patch, approval, verif, call, attempt, archive, worker, container>>
      BY <1>6 DEF ConfigureRepairSurface
  <2>2. surface' \in 0 .. MaxSurface
      BY <1>0, <2>1, BuildAssumption
  <2> QED
      BY <1>0, <2>1, <2>2, ReviewKeeps
<1> QED
    BY <1>1, <1>2, <1>3, <1>4, <1>5, <1>6

\* No verification was ever opened for a patch that may still be opened.
LEMMA FreshRows ==
    /\ LET r == [NoVerification EXCEPT !.state = "BUILDING"]
       IN  r \in Verifications /\ r.state = "BUILDING" /\ ~r.bound
    /\ \A n, m, k \in Nat :
         LET r == [NoAttempt EXCEPT !.state = "CLAIMED", !.leased = TRUE, !.approved = n,
                                    !.building = m, !.surface = k]
         IN  r \in AttemptRows /\ r.state = "CLAIMED"
<1>1. NoVerification \in Verifications /\ ~NoVerification.bound
    BY DEF NoVerification, Verifications
<1>2. \A r \in Verifications : /\ [r EXCEPT !.state = "BUILDING"] \in Verifications
                               /\ [r EXCEPT !.state = "BUILDING"].state = "BUILDING"
                               /\ [r EXCEPT !.state = "BUILDING"].bound = r.bound
    BY DEF Verifications
<1>3. NoAttempt \in AttemptRows
    BY DEF NoAttempt, AttemptRows, AttemptState
<1>4. \A r \in AttemptRows : \A n, m, k \in Nat :
        /\ [r EXCEPT !.state = "CLAIMED", !.leased = TRUE, !.approved = n, !.building = m, !.surface = k] \in AttemptRows
        /\ [r EXCEPT !.state = "CLAIMED", !.leased = TRUE, !.approved = n, !.building = m, !.surface = k].state = "CLAIMED"
    BY DEF AttemptRows, AttemptState
<1> QED
    BY <1>1, <1>2, <1>3, <1>4

\* Leaving APPROVED opens the one verification there will be.
LEMMA OpeningKeeps ==
    ASSUME BuildInv, NEW o \in Openers, patch.status = "APPROVED",
           patch' = Moved("BUILDING"),
           verif' = [verif EXCEPT ![o] = [NoVerification EXCEPT !.state = "BUILDING"]]
    PROVE  /\ patch' \in [status : PatchStatus, revision : Nat] /\ verif' \in [Openers -> Verifications]
           /\ patch'.status = "BUILDING"
           /\ verif'[o].state = "BUILDING" /\ ~verif'[o].bound
           /\ \A p \in Openers : p # o => verif'[p] = verif[p] /\ verif[p].state = "none"
           /\ verif[o].state = "none"
<1>1. patch' \in [status : PatchStatus, revision : Nat] /\ patch'.status = "BUILDING"
  <2>1. patch.revision \in Nat
      BY DEF BuildInv, BuildTypeOK
  <2> QED
      BY <2>1 DEF Moved, PatchStatus
<1> DEFINE r == [NoVerification EXCEPT !.state = "BUILDING"]
<1>2. r \in Verifications /\ r.state = "BUILDING" /\ ~r.bound
    BY FreshRows
<1>3. verif' = [verif EXCEPT ![o] = r]
    OBVIOUS
<1> HIDE DEF r
<1>4. verif \in [Openers -> Verifications]
    BY DEF BuildInv, BuildTypeOK, Verifications
<1>5. \A p \in Openers : verif[p].state = "none"
    BY DEF BuildInv, PatchInv
<1> QED
    BY <1>1, <1>2, <1>3, <1>4, <1>5

\* Opening by the API: the patch leaves APPROVED under its revision.
LEMMA OpenKeeps == ASSUME BuildInv, NEW c \in Callers, OpenVerificationCommits(c) PROVE BuildInv'
<1>0. /\ call' = [call EXCEPT ![c].op = "done"]
      /\ UNCHANGED <<approval, surface, attempt, archive, worker, container>>
    BY DEF OpenVerificationCommits
<1>1. /\ call' \in [Callers -> CallRows] /\ call'[c].op = "done"
      /\ \A b \in Callers : b # c => call'[b] = call[b]
  <2>1. call \in [Callers -> CallRows]
      BY DEF BuildInv, BuildTypeOK, CallRows
  <2>2. [call[c] EXCEPT !.op = "done"] \in CallRows /\ [call[c] EXCEPT !.op = "done"].op = "done"
      BY <2>1 DEF CallRows
  <2>3. call' = [call EXCEPT ![c] = [call[c] EXCEPT !.op = "done"]]
      BY <1>0, <2>1
  <2> QED
      BY <2>1, <2>2, <2>3
<1>2. \A b \in Callers : call'[b].op = "concluding" =>
        call'[b].on \in Openers /\ verif[call'[b].on].state # "none"
    BY <1>1 DEF BuildInv, PatchInv
<1>3. CASE UNCHANGED <<patch, verif>>
    BY <1>0, <1>1, <1>2, <1>3, ReviewKeeps DEF BuildInv, BuildTypeOK
<1>4. CASE ~UNCHANGED <<patch, verif>>
  <2>1. /\ patch.status = "APPROVED" /\ patch' = Moved("BUILDING") /\ c \in Openers
        /\ verif' = [verif EXCEPT ![c] = [NoVerification EXCEPT !.state = "BUILDING"]]
    <3>1. /\ "BUILDING" \in ALLOWED_TRANSITIONS[patch.status] /\ patch' = Moved("BUILDING")
          /\ verif' = [verif EXCEPT ![c] = [NoVerification EXCEPT !.state = "BUILDING"]]
        BY <1>4 DEF OpenVerificationCommits, TransitionAllowed
    <3>2. patch.status \in PatchStatus
        BY DEF BuildInv, BuildTypeOK
    <3> QED
        BY <3>1, <3>2 DEF ALLOWED_TRANSITIONS, PatchStatus, Openers
  <2>2. /\ patch' \in [status : PatchStatus, revision : Nat] /\ verif' \in [Openers -> Verifications]
        /\ patch'.status = "BUILDING"
        /\ verif'[c].state = "BUILDING" /\ ~verif'[c].bound
        /\ \A p \in Openers : p # c => verif'[p] = verif[p] /\ verif[p].state = "none"
        /\ verif[c].state = "none"
      BY <2>1, OpeningKeeps
  <2>3. \A v \in Workers : WorkerInv(v)'
      BY <1>0, <2>2, WorkersStand DEF Openers
  <2>4. BuildTypeOK'
      BY <1>0, <1>1, <2>2 DEF BuildInv, BuildTypeOK, Verifications, CallRows
  <2>5. PatchInv'
      BY <1>0, <1>1, <1>2, <2>1, <2>2 DEF BuildInv, PatchInv
  <2>6. ConclusionMatchesPatch'
      BY <2>2 DEF ConclusionMatchesPatch
  <2> QED
      BY <2>2, <2>3, <2>4, <2>5, <2>6 DEF BuildInv
<1> QED
    BY <1>3, <1>4

\* Opening by a worker that claims.
LEMMA ClaimKeeps == ASSUME BuildInv, NEW w \in Workers, ClaimBuild(w) PROVE BuildInv'
<1>0. /\ UNCHANGED <<approval, surface, call, archive, container>>
      /\ worker[w].pc = "prepared" /\ WorkerInv(w) /\ w \in Openers
      /\ attempt \in [Workers -> AttemptRows] /\ archive \in [Workers -> ArchiveRows]
      /\ container \in [Workers -> ContainerStates]
      /\ surface \in Nat /\ patch.revision \in Nat
    BY BuildRows DEF ClaimBuild, BuildInv, BuildTypeOK, Openers
<1>1. CASE ~Claimable(w)
  <2>1. worker' = [worker EXCEPT ![w].pc = "stopped"] /\ UNCHANGED <<patch, verif, attempt>>
      BY <1>1 DEF ClaimBuild, Stop
  <2>2. /\ worker' \in [Workers -> WorkerRows] /\ worker'[w].pc = "stopped"
        /\ \A v \in Workers : v # w => worker'[v] = worker[v]
      BY <2>1, WorkerMoves
  <2>3. WorkerInv(w)'
      BY <1>0, <2>1, <2>2 DEF WorkerInv
  <2> QED
      BY <1>0, <2>1, <2>2, <2>3, WorkerStepKeeps DEF FencedOrKept
<1>2. CASE Claimable(w)
  <2>1. /\ patch.status = "APPROVED" /\ patch' = Moved("BUILDING")
        /\ verif' = [verif EXCEPT ![w] = [NoVerification EXCEPT !.state = "BUILDING"]]
        /\ attempt' = [attempt EXCEPT ![w] =
                         [NoAttempt EXCEPT !.state = "CLAIMED", !.leased = TRUE,
                            !.approved = patch.revision, !.building = patch.revision + 1,
                            !.surface = surface]]
        /\ worker' = [worker EXCEPT ![w].pc = "claimed"]
      BY <1>2 DEF ClaimBuild, Claimable
  <2>2. /\ worker' \in [Workers -> WorkerRows] /\ worker'[w].pc = "claimed"
        /\ \A v \in Workers : v # w => worker'[v] = worker[v]
      BY <2>1, WorkerMoves
  <2>3. /\ patch' \in [status : PatchStatus, revision : Nat] /\ verif' \in [Openers -> Verifications]
        /\ patch'.status = "BUILDING"
        /\ verif'[w].state = "BUILDING" /\ ~verif'[w].bound
        /\ \A p \in Openers : p # w => verif'[p] = verif[p] /\ verif[p].state = "none"
        /\ verif[w].state = "none"
      BY <1>0, <2>1, OpeningKeeps
  <2>4. /\ attempt' \in [Workers -> AttemptRows] /\ attempt'[w].state = "CLAIMED"
        /\ \A v \in Workers : v # w => attempt'[v] = attempt[v]
    <3> DEFINE a == [NoAttempt EXCEPT !.state = "CLAIMED", !.leased = TRUE, !.approved = patch.revision,
                                      !.building = patch.revision + 1, !.surface = surface]
    <3>1. a \in AttemptRows /\ a.state = "CLAIMED"
      <4>1. patch.revision \in Nat /\ patch.revision + 1 \in Nat /\ surface \in Nat
          BY <1>0
      <4> QED
          BY ZenonT(30), <4>1, FreshRows
    <3>2. attempt' = [attempt EXCEPT ![w] = a]
        BY <2>1
    <3> HIDE DEF a
    <3> QED
        BY <1>0, <3>1, <3>2
  <2>5. WorkerInv(w)'
      BY <1>0, <2>2, <2>3, <2>4 DEF WorkerInv
  <2>6. \A v \in Workers : v # w => WorkerInv(v)'
      BY <1>0, <2>2, <2>3, <2>4, BystanderStands DEF FencedOrKept, Openers
  <2>7. BuildTypeOK'
      BY <1>0, <2>2, <2>3, <2>4 DEF BuildInv, BuildTypeOK, Verifications, AttemptRows, WorkerRows
  <2>8. PatchInv'
    <3>1. \A o \in Openers : ~verif'[o].bound
        BY <1>0, <2>1, <2>3 DEF BuildInv, PatchInv, WorkerInv
    <3>2. \A c \in Callers : call'[c].op # "concluding"
        BY <1>0, <2>1 DEF BuildInv, PatchInv
    <3> QED
        BY <2>3, <3>1, <3>2 DEF PatchInv
  <2>9. ConclusionMatchesPatch'
      BY <2>3 DEF ConclusionMatchesPatch
  <2> QED
      BY <2>3, <2>5, <2>6, <2>7, <2>8, <2>9 DEF BuildInv
<1> QED
    BY <1>1, <1>2

\* A run is bound to a candidate that is built.
LEMMA BindKeeps == ASSUME BuildInv, NEW w \in Workers, BindCandidateRun(w) PROVE BuildInv'
<1>1. /\ UNCHANGED <<patch, approval, surface, call, archive, worker, container>>
      /\ verif[w].state = "BUILDING" /\ attempt[w].state = "BUILT" /\ w \in Openers
      /\ verif' = [verif EXCEPT ![w].bound = TRUE]
      /\ attempt' = [attempt EXCEPT ![w].published = TRUE]
    BY DEF BindCandidateRun, BuildAuthority, Openers
<1>2. /\ attempt' \in [Workers -> AttemptRows] /\ attempt'[w].state = "BUILT"
      /\ attempt'[w].receipt = attempt[w].receipt
      /\ \A v \in Workers : v # w => attempt'[v] = attempt[v]
    BY <1>1, BuildRows DEF AttemptRows
<1>3. /\ verif' \in [Openers -> Verifications] /\ verif'[w].state = "BUILDING"
      /\ \A o \in Openers : o # w => verif'[o] = verif[o]
  <2>1. verif \in [Openers -> Verifications]
      BY DEF BuildInv, BuildTypeOK, Verifications
  <2>2. [verif[w] EXCEPT !.bound = TRUE] \in Verifications /\ [verif[w] EXCEPT !.bound = TRUE].state = "BUILDING"
      BY <1>1, <2>1 DEF Verifications
  <2>3. verif' = [verif EXCEPT ![w] = [verif[w] EXCEPT !.bound = TRUE]]
      BY <1>1, <2>1
  <2> QED
      BY <1>1, <2>1, <2>2, <2>3
<1>4. \A o \in Openers : verif'[o].state = verif[o].state
    BY <1>1, <1>3
<1>5. \A v \in Workers : WorkerInv(v)'
  <2>1. \A v \in Workers : v # w => WorkerInv(v)'
      BY <1>1, <1>2, <1>3, BystanderStands DEF FencedOrKept, Openers
  <2>2. WorkerInv(w)'
      BY <1>1, <1>2, <1>3 DEF BuildInv, WorkerInv
  <2> QED
      BY <2>1, <2>2
<1>6. BuildTypeOK'
    BY <1>1, <1>2, <1>3 DEF BuildInv, BuildTypeOK, Verifications, AttemptRows
<1>7. PatchInv'
    BY <1>1, <1>2, <1>3, <1>4 DEF BuildInv, PatchInv
<1>8. ConclusionMatchesPatch'
    BY <1>1, <1>2, <1>3, <1>4 DEF BuildInv, ConclusionMatchesPatch
<1> QED
    BY <1>1, <1>2, <1>3, <1>4, <1>5, <1>6, <1>7, <1>8 DEF BuildInv

\* A conclusion writes the verification and the patch in one transaction.
LEMMA ConcludeKeeps == ASSUME BuildInv, NEW c \in Callers, ConcludeCommits(c) PROVE BuildInv'
<1> DEFINE o == call[c].on
<1>0. /\ call' = [call EXCEPT ![c].op = "done"] /\ call[c].op = "concluding"
      /\ UNCHANGED <<approval, surface, attempt, archive, worker, container>>
      /\ o \in Openers /\ verif[o].state # "none"
      /\ verif \in [Openers -> Verifications] /\ patch \in [status : PatchStatus, revision : Nat]
    BY DEF ConcludeCommits, BuildInv, PatchInv, BuildTypeOK, Verifications
<1>1. /\ call' \in [Callers -> CallRows] /\ call'[c].op = "done"
      /\ \A b \in Callers : b # c => call'[b] = call[b]
  <2>1. call \in [Callers -> CallRows]
      BY DEF BuildInv, BuildTypeOK, CallRows
  <2>2. [call[c] EXCEPT !.op = "done"] \in CallRows /\ [call[c] EXCEPT !.op = "done"].op = "done"
      BY <2>1 DEF CallRows
  <2>3. call' = [call EXCEPT ![c] = [call[c] EXCEPT !.op = "done"]]
      BY <1>0, <2>1
  <2> QED
      BY <2>1, <2>2, <2>3
<1>2. \A b \in Callers : call'[b].op = "concluding" =>
        call'[b].on \in Openers /\ verif[call'[b].on].state # "none"
    BY <1>1 DEF BuildInv, PatchInv
<1>3. CASE UNCHANGED <<patch, verif>>
    BY <1>0, <1>1, <1>2, <1>3, ReviewKeeps DEF BuildInv, BuildTypeOK
<1>4. CASE ~UNCHANGED <<patch, verif>>
  <2>1. verif[o].state = "BUILDING" /\ patch.status \in {"BUILDING", "FAILED"}
    <3>1. verif[o].state # "CONCLUDED"
        BY <1>4 DEF ConcludeCommits
    <3> QED
        BY <1>0, <3>1 DEF Verifications, BuildInv, PatchInv
  <2>2. PICK named \in BOOLEAN, e \in Evidence :
          /\ Attestable(o, e)
          /\ LET hasCandidate == verif[o].bound \/ named
                 recorded == IF hasCandidate /\ patch.status = "BUILDING"
                             THEN Moved("VERIFYING") ELSE patch
                 concluded == Conclusion(hasCandidate, recorded.status, e)
                 target == IF concluded = "VERIFIED" THEN "VERIFIED" ELSE "FAILED"
             IN /\ verif' = [verif EXCEPT ![o] =
                               [state |-> "CONCLUDED", conclusion |-> concluded,
                                revision |-> verif[o].revision + 1, bound |-> verif[o].bound]]
                /\ patch' = IF target \in ALLOWED_TRANSITIONS[recorded.status]
                            THEN [status |-> target, revision |-> recorded.revision + 1]
                            ELSE recorded
      BY <1>4 DEF ConcludeCommits
  <2> DEFINE hasCandidate == verif[o].bound \/ named
             recorded == IF hasCandidate /\ patch.status = "BUILDING" THEN Moved("VERIFYING") ELSE patch
             concluded == Conclusion(hasCandidate, recorded.status, e)
             target == IF concluded = "VERIFIED" THEN "VERIFIED" ELSE "FAILED"
             v == [state |-> "CONCLUDED", conclusion |-> concluded, revision |-> verif[o].revision + 1,
                   bound |-> verif[o].bound]
  <2>3. recorded \in [status : PatchStatus, revision : Nat] /\ recorded.status \in {"BUILDING", "VERIFYING", "FAILED"}
      BY <1>0, <2>1 DEF Moved, PatchStatus
  <2>4. /\ concluded \in {"VERIFIED", "NOT_ESTABLISHED", "INCONCLUSIVE"}
        /\ concluded = "VERIFIED" => verif[o].bound /\ recorded.status = "VERIFYING"
      BY <2>2 DEF Conclusion, Attestable
  <2>5. verif' = [verif EXCEPT ![o] = v]
      BY <2>2
  <2>6. patch' = IF target \in ALLOWED_TRANSITIONS[recorded.status]
                 THEN [status |-> target, revision |-> recorded.revision + 1] ELSE recorded
      BY <2>2
  <2>7. v \in Verifications
      BY <1>0, <2>4 DEF Verifications
  <2> HIDE DEF recorded, concluded
  <2>8. /\ patch' \in [status : PatchStatus, revision : Nat]
        /\ patch'.status = IF concluded = "VERIFIED" THEN "VERIFIED" ELSE "FAILED"
      BY <2>3, <2>4, <2>6 DEF ALLOWED_TRANSITIONS, PatchStatus
  <2>9. /\ verif'[o].state = "CONCLUDED" /\ verif'[o].conclusion = concluded
        /\ verif'[o].bound = verif[o].bound /\ verif' \in [Openers -> Verifications]
        /\ \A p \in Openers : p # o => verif'[p] = verif[p]
      BY <1>0, <2>5, <2>7
  <2>10. \A p \in Openers : p # o => verif[p].state = "none"
      BY <1>0 DEF BuildInv, PatchInv
  <2>11. verif[o].bound => o \in Workers /\ attempt[o].state = "BUILT"
      BY <1>0 DEF BuildInv, PatchInv
  <2> HIDE DEF o, v
  <2>12. \A w \in Workers : WorkerInv(w)'
      BY <1>0, <2>9, WorkersStand DEF Openers
  <2>13. BuildTypeOK'
      BY <1>0, <1>1, <2>8, <2>9 DEF BuildInv, BuildTypeOK, Verifications, CallRows
  <2>14. PatchInv'
      BY <1>0, <1>1, <1>2, <2>8, <2>9, <2>10 DEF BuildInv, PatchInv
  <2>15. ConclusionMatchesPatch'
      BY <1>0, <2>4, <2>8, <2>9, <2>10, <2>11 DEF ConclusionMatchesPatch
  <2> QED
      BY <1>0, <2>8, <2>9, <2>12, <2>13, <2>14, <2>15 DEF BuildInv
<1> QED
    BY <1>3, <1>4

\* Every step keeps the invariant.
LEMMA BuildKeeps == BuildInv /\ [BuildNext]_buildVars => BuildInv'
<1>1. BuildInv /\ UNCHANGED buildVars => BuildInv'
    BY DEF buildVars, BuildInv, BuildTypeOK, WorkerInv, PatchInv, ConclusionMatchesPatch
<1>2. ASSUME BuildInv, NEW w \in Workers, WorkerStep(w) PROVE BuildInv'
    BY <1>2, CoordinatorKeeps, ClaimKeeps, RecordFailureKeeps, ArchiveKeeps, BindKeeps DEF WorkerStep
<1>3. ASSUME BuildInv, NEW c \in Callers, CallerStep(c) PROVE BuildInv'
    BY <1>3, ReviewersKeep, OpenKeeps, ConcludeKeeps DEF CallerStep
<1> QED
    BY <1>1, <1>2, <1>3, RetirementKeeps, ReviewersKeep, FenceExpiredKeeps DEF BuildNext

-----------------------------------------------------------------------------
(* What never changes again.                                               *)

\* What is concluded, built or rejected stays so.
LEMMA OutcomesFreeze ==
    BuildInv /\ [BuildNext]_buildVars =>
      /\ \A o \in Openers : verif[o].state = "CONCLUDED" => verif'[o] = verif[o]
      /\ \A w \in Workers : attempt[w].state \in {"UNKNOWN", "FAILED", "BUILT"} =>
           attempt'[w].state = attempt[w].state
      /\ \A w \in Workers : archive[w].object = "tombstone" => archive'[w].object = "tombstone"
<1> SUFFICES ASSUME BuildInv, [BuildNext]_buildVars
             PROVE  /\ \A o \in Openers : verif[o].state = "CONCLUDED" => verif'[o] = verif[o]
                    /\ \A w \in Workers : attempt[w].state \in {"UNKNOWN", "FAILED", "BUILT"} =>
                         attempt'[w].state = attempt[w].state
                    /\ \A w \in Workers : archive[w].object = "tombstone" => archive'[w].object = "tombstone"
    OBVIOUS
<1>0. /\ attempt \in [Workers -> AttemptRows] /\ archive \in [Workers -> ArchiveRows]
      /\ verif \in [Openers -> Verifications] /\ patch.status \in PatchStatus
    BY BuildRows DEF BuildInv, BuildTypeOK, Verifications
<1>1. ASSUME NEW o \in Openers, verif[o].state = "CONCLUDED" PROVE verif'[o] = verif[o]
  <2>0. patch.status # "APPROVED"
      BY <1>1 DEF BuildInv, PatchInv
  <2>1. CASE UNCHANGED verif
      BY <2>1
  <2>2. CASE \E w \in Workers : ClaimBuild(w)
      BY <2>0, <2>2 DEF ClaimBuild, Claimable
  <2>3. CASE \E w \in Workers : BindCandidateRun(w)
      BY <1>0, <1>1, <2>3 DEF BindCandidateRun
  <2>4. CASE \E c \in Callers : OpenVerificationCommits(c)
    <3>1. "BUILDING" \notin ALLOWED_TRANSITIONS[patch.status]
        BY <1>0, <2>0 DEF ALLOWED_TRANSITIONS, PatchStatus
    <3> QED
        BY <2>4, <3>1 DEF OpenVerificationCommits, TransitionAllowed
  <2>5. CASE \E c \in Callers : ConcludeCommits(c)
    <3>1. PICK c \in Callers : ConcludeCommits(c)
        BY <2>5
    <3>2. \/ UNCHANGED verif
          \/ verif[call[c].on].state # "CONCLUDED" /\ \E r : verif' = [verif EXCEPT ![call[c].on] = r]
        BY <3>1 DEF ConcludeCommits
    <3> QED
        BY <1>0, <1>1, <3>2
  <2> QED
      BY <2>1, <2>2, <2>3, <2>4, <2>5 DEF BuildNext, buildVars, WorkerStep, RetentionStep, CallerStep,
         Prepare, AuthorizeDispatch, CreateContainer, StartContainer, BuildEnds, RecordFailure,
         RetainArtifactIntent, Upload, Promote, PublishMaterialization, Crash, LeaseLapses,
         RetentionElapses, RetireIntent, RetireObject, RetireCompletes, ReadPatch, ApprovePatch,
         RejectPatch, OpenVerificationReads, ConcludeReads, ApprovalEnds, ConfigureRepairSurface,
         FenceExpired
<1>2. ASSUME NEW w \in Workers, attempt[w].state \in {"UNKNOWN", "FAILED", "BUILT"}
      PROVE  attempt'[w].state = attempt[w].state
  <2>1. CASE UNCHANGED attempt
      BY <2>1
  <2>2. CASE attempt' = FencedAttempts(attempt)
      BY <1>2, <2>2 DEF FencedAttempts
  <2>3. ASSUME NEW v \in Workers,
               ClaimBuild(v) \/ AuthorizeDispatch(v) \/ StartContainer(v) \/ RecordFailure(v) \/ Promote(v)
               \/ PublishMaterialization(v) \/ BindCandidateRun(v) \/ LeaseLapses(v) \/ RetireIntent(v),
               ~UNCHANGED attempt, attempt' # FencedAttempts(attempt)
        PROVE  attempt'[w].state = attempt[w].state
    <3>1. CASE v # w
      <4>1. \E r : attempt' = [attempt EXCEPT ![v] = r]
          BY <1>0, <2>3 DEF ClaimBuild, AuthorizeDispatch, StartContainer, RecordFailure, Promote,
             PublishMaterialization, BindCandidateRun, LeaseLapses, RetireIntent
      <4> QED
          BY <1>0, <3>1, <4>1
    <3>2. CASE v = w
      <4>1. ~ClaimBuild(w)
          BY <1>2 DEF ClaimBuild, BuildInv, WorkerInv
      <4>2. ~(AuthorizeDispatch(w) /\ ~UNCHANGED attempt)
          BY <1>2 DEF AuthorizeDispatch, Owned
      <4>3. ~(Promote(w) /\ ~UNCHANGED attempt)
          BY <1>2 DEF Promote, Promotable, Owned
      <4>4. ~(RecordFailure(w) /\ attempt' # FencedAttempts(attempt))
          BY <1>2 DEF RecordFailure, Owned
      <4>5. ~(StartContainer(w) /\ ~UNCHANGED attempt) /\ ~LeaseLapses(w)
          BY <1>2 DEF StartContainer, Owned, LeaseLapses
      <4>6. CASE PublishMaterialization(w) \/ BindCandidateRun(w)
        <5>1. attempt' = [attempt EXCEPT ![w] = [attempt[w] EXCEPT !.published = TRUE]]
            BY <1>0, <4>6 DEF PublishMaterialization, BindCandidateRun
        <5> QED
            BY <1>0, <5>1 DEF AttemptRows
      <4>7. CASE RetireIntent(w)
        <5>1. attempt' = [attempt EXCEPT ![w] = [attempt[w] EXCEPT !.state = attempt[w].state]]
            BY <1>0, <1>2, <4>7 DEF RetireIntent
        <5> QED
            BY <1>0, <5>1 DEF AttemptRows
      <4> QED
          BY <2>3, <3>2, <4>1, <4>2, <4>3, <4>4, <4>5, <4>6, <4>7
    <3> QED
        BY <3>1, <3>2
  <2> QED
      BY <2>1, <2>2, <2>3 DEF BuildNext, buildVars, WorkerStep, RetentionStep, CallerStep,
         Prepare, CreateContainer, BuildEnds, RetainArtifactIntent, Upload, Crash,
         RetentionElapses, RetireObject, RetireCompletes, ReadPatch, ApprovePatch,
         RejectPatch, OpenVerificationReads, OpenVerificationCommits, ConcludeReads, ConcludeCommits,
         ApprovalEnds, ConfigureRepairSurface, FenceExpired
<1>3. ASSUME NEW w \in Workers, archive[w].object = "tombstone" PROVE archive'[w].object = "tombstone"
  <2>1. CASE UNCHANGED archive
      BY <1>3, <2>1
  <2>2. ASSUME NEW v \in Workers, RetainArtifactIntent(v) \/ Promote(v) \/ RetentionElapses(v)
                                  \/ RetireIntent(v) \/ RetireCompletes(v)
        PROVE  archive'[w].object = archive[w].object
    <3>1. \A r \in ArchiveRows : \A q \in {"QUARANTINED", "RETAINED", "DELETED"}, t \in {"intended", "completed"} :
            /\ [r EXCEPT !.state = q].object = r.object /\ [r EXCEPT !.fresh = FALSE].object = r.object
            /\ [r EXCEPT !.retirement = t].object = r.object
            /\ [r EXCEPT !.retirement = t, !.state = q].object = r.object
        BY DEF ArchiveRows
    <3>2. \/ archive' = archive
          \/ archive' = [archive EXCEPT ![v] = [archive[v] EXCEPT !.state = "QUARANTINED"]]
          \/ archive' = [archive EXCEPT ![v] = [archive[v] EXCEPT !.state = "RETAINED"]]
          \/ archive' = [archive EXCEPT ![v] = [archive[v] EXCEPT !.fresh = FALSE]]
          \/ archive' = [archive EXCEPT ![v] = [archive[v] EXCEPT !.retirement = "intended"]]
          \/ archive' = [archive EXCEPT ![v] = [archive[v] EXCEPT !.retirement = "completed", !.state = "DELETED"]]
        BY <1>0, <2>2 DEF RetainArtifactIntent, Promote, RetentionElapses, RetireIntent, RetireCompletes
    <3>3. archive[v] \in ArchiveRows /\ archive[w] \in ArchiveRows
        BY <1>0
    <3>4. CASE archive' = archive
        BY <3>4
    <3>5. CASE archive' # archive
      <4>1. PICK q : archive' = [archive EXCEPT ![v] = q] /\ q.object = archive[v].object
          BY <3>1, <3>2, <3>3, <3>5
      <4> QED
          BY <1>0, <4>1
    <3> QED
        BY <3>4, <3>5
  <2>3. ASSUME NEW v \in Workers, Upload(v) PROVE archive'[w].object = "tombstone"
      BY <1>0, <1>3, <2>3 DEF Upload, CreateOnly, ArchiveRows
  <2>4. ASSUME NEW v \in Workers, RetireObject(v) PROVE archive'[w].object = "tombstone"
      BY <1>0, <1>3, <2>4 DEF RetireObject, ArchiveRows
  <2> QED
      BY <1>3, <2>1, <2>2, <2>3, <2>4 DEF BuildNext, buildVars, WorkerStep, RetentionStep, CallerStep,
         Prepare, ClaimBuild, AuthorizeDispatch, CreateContainer, StartContainer, BuildEnds,
         RecordFailure, PublishMaterialization, BindCandidateRun, Crash, LeaseLapses, ReadPatch,
         ApprovePatch, RejectPatch, OpenVerificationReads, OpenVerificationCommits, ConcludeReads,
         ConcludeCommits, ApprovalEnds, ConfigureRepairSurface, FenceExpired
<1> QED
    BY <1>1, <1>2, <1>3

\* One approved patch is built and executed at most once, a rejected one never; what is said to be
\* built is retained, what is said to have failed was confirmed, and no answer is ever rewritten,
\* for any number of workers and callers: candidate_builds.py, patches.py and artifacts.py.
THEOREM TrustworthyBuild == BuildSpec => BuildIsTrustworthy
<1> DEFINE Frozen == /\ \A o \in Openers : verif[o].state = "CONCLUDED" => verif'[o] = verif[o]
                     /\ \A w \in Workers : attempt[w].state \in {"UNKNOWN", "FAILED", "BUILT"}
                          => attempt'[w].state = attempt[w].state
           Gone == \A w \in Workers : archive[w].object = "tombstone" => archive'[w].object = "tombstone"
<1>1. BuildInv /\ [BuildNext]_buildVars => [Frozen]_buildVars /\ [Gone]_buildVars
    BY OutcomesFreeze
<1>2. BuildInv => BuildTypeOK
    BY DEF BuildInv
<1> HIDE DEF Frozen, Gone
<1>3. BuildSpec => /\ [](BuildTypeOK /\ SingleExecution /\ RejectedNeverRuns /\ BuiltIsRetained)
                   /\ [](ConclusionMatchesPatch /\ FailureIsConfirmed)
                   /\ [][Frozen]_buildVars /\ [][Gone]_buildVars
    BY <1>1, <1>2, BuildInvGives, BuildBegins, BuildKeeps, PTL DEF BuildSpec
<1> QED
    BY <1>3 DEF BuildIsTrustworthy, FrozenOutcomes, NoResurrection, Frozen, Gone


-----------------------------------------------------------------------------
(* A candidate's session.                                                  *)

Regressions == [state : {"none", "CLAIMED", "DISPATCHED", "PASSED", "FAILED", "UNKNOWN"},
                leased : BOOLEAN, session : BOOLEAN]
Endpoints == [state : {"none", "PLANNED", "BOUND", "CLOSED", "UNKNOWN"}, live : BOOLEAN, clean : BOOLEAN]
BoundRuns == [bound : BOOLEAN, live : BOOLEAN, preview : BOOLEAN]
Permits == [state : {"none", "open", "consumed"}, live : BOOLEAN, response : BOOLEAN]
Transports == [phase : {"idle", "begun", "checked", "sent"}, on : ReaderActions \cup {"none"}]
Places == {"idle", "claimed", "launching", "seeding", "seeded", "planned", "serving", "closing",
           "checking", "ok", "failed", "stopped"}

\* No container without its row, none confirmed that was not seen, none removed that is left.
BoxInv == \A r \in ROLES :
  /\ box[r] # "none" \/ r \in unsure => proc[r] # "none"
  /\ proc[r] \in {"CREATED", "REMOVED"} => box[r] # "none"
  /\ proc[r] = "REMOVED" => box[r] = "removed"

\* The gateway listens only while the callback runs, and a clean close leaves it silent.
GateInv ==
  /\ gateway = "open" => pc = "serving"
  /\ pc = "closing" => gateway = "closed"
  /\ endpoint.clean => /\ pc \in {"checking", "ok", "failed", "stopped"}
                       /\ gateway = "closed" /\ transport = Idle

\* The request on its way is that of a consumed permission nobody has reported on.
EffectInv ==
  /\ \A a \in ReaderActions :
       /\ permit[a].state # "consumed" => posts[a] = 0 /\ ~permit[a].response
       /\ posts[a] <= 1
       /\ act[a] = "known" => posts[a] = 0 \/ permit[a].response
  /\ transport = Idle \/
       /\ transport.on \in ReaderActions /\ transport.phase # "idle"
       /\ permit[transport.on].state = "consumed" /\ ~permit[transport.on].response
       /\ act[transport.on] # "known"
       /\ transport.phase \in {"begun", "checked"} => posts[transport.on] = 0

EndInv ==
  /\ reg.state \in {"PASSED", "FAILED"} => pc = "stopped"
  /\ PassedLeavesNothing /\ FailedLeavesNothing

SessionInv == SessionTypeOK /\ BoxInv /\ GateInv /\ EffectInv /\ EndInv

\* No session has begun.
LEMMA SessionBegins == SessionInit => SessionInv
<1> SUFFICES ASSUME SessionInit PROVE SessionInv
    OBVIOUS
<1>1. SessionTypeOK
  <2>1. permit \in [ReaderActions -> Permits] /\ transport \in Transports
      BY DEF SessionInit, NoPermit, Idle, Permits, Transports
  <2> QED
      BY <2>1 DEF SessionInit, SessionTypeOK, Permits, Transports
<1>2. BoxInv /\ GateInv /\ EndInv
    BY DEF SessionInit, BoxInv, GateInv, EndInv, PassedLeavesNothing, FailedLeavesNothing
<1>3. EffectInv
    BY DEF SessionInit, EffectInv, NoPermit
<1> QED
    BY <1>1, <1>2, <1>3 DEF SessionInv

\* An ending has cleaned up what it says it has.
LEMMA SessionInvGives ==
    SessionInv => /\ SessionTypeOK /\ PassedLeavesNothing /\ FailedLeavesNothing /\ ContainersAreIntended
                  /\ AtMostOnePost /\ KnownResultIsComplete /\ ReceiptIsQuiet
    BY DEF SessionInv, BoxInv, GateInv, EffectInv, EndInv, ContainersAreIntended, AtMostOnePost,
           KnownResultIsComplete, ReceiptIsQuiet, FunctionalReceipt

-----------------------------------------------------------------------------
(* The attempt's row.                                                      *)

\* The regression's own steps: claim, dispatch, seed, verdict.
LEMMA RegressionKeeps ==
    ASSUME SessionInv,
           \/ ClaimRegression \/ DispatchRegression \/ FinishRegression \/ FailRegression \/ SkipEndpoint
           \/ ChecksFail \/ AuthorityEnded \/ RegLeaseLapses \/ FenceRegression
    PROVE  SessionInv'
<1>0. reg \in Regressions /\ pc \in Places /\ authority \in BOOLEAN
    BY DEF SessionInv, SessionTypeOK, Regressions, Places
<1>1. UNCHANGED <<proc, box, unsure, swept, unclean, fixture, endpoint, gateway, run, reader, act, permit,
                  transport, posts>>
    BY DEF ClaimRegression, DispatchRegression, FinishRegression, FailRegression, SkipEndpoint, ChecksFail,
           AuthorityEnded, RegLeaseLapses, FenceRegression, boxVars, siteVars, effectVars
<1>2. \A q \in {"CLAIMED", "DISPATCHED", "PASSED", "FAILED", "UNKNOWN"} :
        [reg EXCEPT !.state = q] \in Regressions /\ [reg EXCEPT !.state = q].state = q
        /\ [reg EXCEPT !.state = q].session = reg.session
    BY <1>0 DEF Regressions
<1>3. FencedReg \in Regressions /\ FencedReg.state \in {reg.state, "UNKNOWN"} /\ FencedReg.session = reg.session
    BY <1>0 DEF FencedReg, Regressions
<1>4. [reg EXCEPT !.leased = FALSE] \in Regressions /\ [reg EXCEPT !.leased = FALSE].state = reg.state
      /\ [reg EXCEPT !.leased = FALSE].session = reg.session
    BY <1>0 DEF Regressions
<1>5. /\ reg' \in Regressions /\ authority' \in BOOLEAN
      /\ \/ pc' = pc
         \/ pc \in {"idle", "claimed", "launching"} /\ pc' \in {"claimed", "launching", "checking", "stopped"}
            /\ pc \notin {"checking", "ok", "failed", "stopped"}
         \/ pc \in {"checking", "ok", "failed"} /\ pc' \in {"failed", "stopped"}
      /\ \/ reg'.state \in {reg.state, "CLAIMED", "DISPATCHED", "UNKNOWN"}
         \/ reg'.state = "PASSED" /\ FinishRegression /\ ~unclean /\ Finishable /\ pc' = "stopped"
         \/ reg'.state = "FAILED" /\ FailRegression /\ CleanByRows /\ pc' = "stopped"
      /\ ~ClaimRegression => reg'.session = reg.session
  <2>1. CASE ClaimRegression
    <3>1. PICK s \in BOOLEAN : reg' = [state |-> "CLAIMED", leased |-> TRUE, session |-> s]
        BY <2>1 DEF ClaimRegression
    <3>2. reg' \in Regressions /\ reg'.state = "CLAIMED"
        BY <3>1 DEF Regressions
    <3> QED
        BY <1>0, <2>1, <3>2 DEF ClaimRegression
  <2>2. CASE DispatchRegression
      BY <1>0, <1>2, <2>2 DEF DispatchRegression
  <2>3. CASE FinishRegression
      BY <1>0, <1>2, <2>3 DEF FinishRegression
  <2>4. CASE FailRegression
      BY <1>0, <1>2, <1>3, <2>4 DEF FailRegression
  <2>5. CASE SkipEndpoint \/ ChecksFail
      BY <1>0, <2>5 DEF SkipEndpoint, ChecksFail, regVars
  <2>6. CASE AuthorityEnded \/ RegLeaseLapses \/ FenceRegression
      BY <1>0, <1>3, <1>4, <2>6 DEF AuthorityEnded, RegLeaseLapses, FenceRegression
  <2> QED
      BY <2>1, <2>2, <2>3, <2>4, <2>5, <2>6
<1>6. SessionTypeOK'
    BY <1>0, <1>1, <1>5 DEF SessionInv, SessionTypeOK, Regressions, Places
<1>7. BoxInv' /\ EffectInv'
    BY <1>1 DEF SessionInv, BoxInv, EffectInv
<1>8. GateInv'
    BY <1>1, <1>5 DEF SessionInv, GateInv
<1>9. reg'.state \in {"PASSED", "FAILED"} => pc' = "stopped"
    BY <1>5 DEF SessionInv, EndInv
<1>10. PassedLeavesNothing'
  <2>1. CASE reg'.state = reg.state
    <3>1. ClaimRegression => reg'.state # "PASSED"
        BY DEF ClaimRegression
    <3> QED
        BY <1>1, <1>5, <2>1, <3>1 DEF SessionInv, EndInv, PassedLeavesNothing
  <2>2. CASE ~unclean /\ Finishable
    <3>1. \A r \in ROLES : proc[r] = "REMOVED" /\ box[r] = "removed"
        BY <2>2 DEF Finishable, SessionInv, BoxInv
    <3>2. reg.session => endpoint.state = "CLOSED" /\ endpoint.clean
        BY <2>2 DEF Finishable
    <3>3. gateway # "open" \/ pc = "serving"
        BY DEF SessionInv, GateInv
    <3>4. ClaimRegression => reg'.state # "PASSED"
        BY DEF ClaimRegression
    <3>5. reg'.state = "PASSED" /\ reg.state # "PASSED" => pc = "ok"
        BY <1>5 DEF FinishRegression
    <3> QED
        BY <1>1, <1>5, <2>1, <3>1, <3>2, <3>3, <3>4, <3>5 DEF PassedLeavesNothing
  <2> QED
      BY <1>5, <2>1, <2>2 DEF PassedLeavesNothing
<1>11. FailedLeavesNothing'
  <2>1. CASE reg'.state = reg.state
      BY <1>1, <2>1 DEF SessionInv, EndInv, FailedLeavesNothing
  <2>2. CASE CleanByRows
    <3>1. \A r \in ROLES : box[r] # "present" /\ (r \in unsure => box[r] = "removed")
        BY <2>2 DEF CleanByRows, SessionInv, BoxInv
    <3>2. unsure \subseteq ROLES
        BY DEF SessionInv, SessionTypeOK
    <3> QED
        BY <1>1, <3>1, <3>2 DEF FailedLeavesNothing
  <2> QED
      BY <1>5, <2>1, <2>2 DEF FailedLeavesNothing
<1> QED
    BY <1>6, <1>7, <1>8, <1>9, <1>10, <1>11 DEF SessionInv, EndInv

-----------------------------------------------------------------------------
(* The containers.                                                         *)

\* The containers: created, seen, removed, or left behind.
LEMMA ContainerKeeps ==
    ASSUME SessionInv, NEW r \in ROLES,
           PlanProcess(r) \/ CreateProcess(r) \/ RecordCreated(r) \/ CreateLands(r) \/ RemoveProcess(r)
    PROVE  SessionInv'
<1>0. /\ proc \in [ROLES -> {"none", "PLANNED", "CREATED", "REMOVED"}]
      /\ box \in [ROLES -> {"none", "present", "removed"}] /\ unsure \subseteq ROLES /\ swept \subseteq ROLES
      /\ unclean \in BOOLEAN /\ pc \in Places /\ BoxInv
    BY DEF SessionInv, SessionTypeOK, Places
<1>1. UNCHANGED <<authority, reg, fixture, endpoint, gateway, run, reader, act, permit, transport, posts>>
    BY DEF PlanProcess, CreateProcess, RecordCreated, CreateLands, RemoveProcess, regVars, siteVars, effectVars
<1>2. /\ proc' \in [ROLES -> {"none", "PLANNED", "CREATED", "REMOVED"}]
      /\ box' \in [ROLES -> {"none", "present", "removed"}] /\ unsure' \subseteq ROLES /\ swept' \subseteq ROLES
      /\ unclean' \in BOOLEAN /\ pc' \in Places
    BY <1>0 DEF PlanProcess, CreateProcess, RecordCreated, CreateLands, RemoveProcess, Places
<1>3. SessionTypeOK'
    BY <1>1, <1>2 DEF SessionInv, SessionTypeOK, Places
<1>4. BoxInv'
    BY <1>0 DEF PlanProcess, CreateProcess, RecordCreated, CreateLands, RemoveProcess, BoxInv
<1>5. /\ \/ pc' = pc
         \/ pc \in {"launching", "checking"} /\ pc' \in {"failed", "ok"}
      /\ pc = "stopped" => /\ pc' = pc /\ UNCHANGED <<proc, unsure>>
                           /\ box' = box \/ (r \in unsure /\ box[r] = "none")
    BY DEF PlanProcess, CreateProcess, RecordCreated, CreateLands, RemoveProcess, Launching
<1>6. GateInv' /\ EffectInv'
    BY <1>1, <1>5 DEF SessionInv, GateInv, EffectInv
<1>7. EndInv'
    BY <1>1, <1>5 DEF SessionInv, EndInv, PassedLeavesNothing, FailedLeavesNothing
<1> QED
    BY <1>3, <1>4, <1>6, <1>7 DEF SessionInv

-----------------------------------------------------------------------------
(* Fixture, endpoint, run and reader.                                      *)

\* The endpoint and its gateway: planned, bound, served, closed.
LEMMA SiteKeeps ==
    ASSUME SessionInv,
           \/ ReserveFixture \/ ConfirmFixture \/ PlanEndpoint \/ BindEndpoint \/ PrepareRun \/ CallbackEnds
           \/ CloseEndpoint \/ RecordReaderLease \/ ReleaseReader \/ ServeGet \/ EndpointExpires \/ RunEnds
    PROVE  SessionInv'
<1>0. /\ endpoint \in Endpoints /\ run \in BoundRuns /\ pc \in Places /\ unclean \in BOOLEAN
      /\ fixture \in {"none", "reserved", "confirmed"} /\ gateway \in {"none", "open", "closed"}
      /\ reader \in {"none", "held", "released", "releasedLate"}
    BY DEF SessionInv, SessionTypeOK, Endpoints, BoundRuns, Places
<1>1. UNCHANGED <<authority, reg, proc, box, unsure, swept, act, permit, transport, posts>>
    BY DEF ReserveFixture, ConfirmFixture, PlanEndpoint, BindEndpoint, PrepareRun, CallbackEnds,
           CloseEndpoint, RecordReaderLease, ReleaseReader, ServeGet, EndpointExpires, RunEnds,
           regVars, boxVars, effectVars
<1>2. \A e \in Endpoints : /\ \A s \in {"BOUND", "CLOSED", "UNKNOWN"} : \A b \in BOOLEAN :
                                /\ [e EXCEPT !.state = s] \in Endpoints /\ [e EXCEPT !.state = s].clean = e.clean
                                /\ [e EXCEPT !.state = s, !.clean = b] \in Endpoints
                                /\ [e EXCEPT !.state = s, !.clean = b].clean = b
                           /\ [e EXCEPT !.live = FALSE] \in Endpoints /\ [e EXCEPT !.live = FALSE].clean = e.clean
                           /\ [e EXCEPT !.live = FALSE].state = e.state
    BY DEF Endpoints
<1>3. /\ endpoint' \in Endpoints
      /\ (endpoint' = endpoint) \/ (endpoint'.state = endpoint.state /\ endpoint'.clean = endpoint.clean)
         \/ (pc = "seeded" /\ ~endpoint'.clean) \/ (pc = "planned" /\ endpoint'.clean = endpoint.clean)
         \/ (pc = "closing" /\ CloseEndpoint /\ (endpoint'.clean => HandlerJoined))
  <2>1. CASE UNCHANGED endpoint
      BY <1>0, <2>1
  <2>2. CASE PlanEndpoint /\ ~UNCHANGED endpoint
    <3>1. /\ pc = "seeded"
          /\ endpoint' = [state |-> "PLANNED", live |-> TRUE, clean |-> FALSE]
        BY <2>2 DEF PlanEndpoint
    <3> QED
        BY <3>1 DEF Endpoints
  <2>3. CASE BindEndpoint
    <3>1. pc = "planned" /\ (endpoint' = endpoint \/ endpoint' = [endpoint EXCEPT !.state = "BOUND"])
        BY <2>3 DEF BindEndpoint
    <3>2. /\ [endpoint EXCEPT !.state = "BOUND"] \in Endpoints
          /\ [endpoint EXCEPT !.state = "BOUND"].clean = endpoint.clean
        BY <1>0 DEF Endpoints
    <3> QED
        BY <1>0, <3>1, <3>2
  <2>4. CASE CloseEndpoint
    <3>1. PICK b \in BOOLEAN :
            (b => HandlerJoined) /\ endpoint' = ClosedEndpoint(b)
        BY <2>4 DEF CloseEndpoint
    <3>2. endpoint' \in Endpoints /\ endpoint'.clean = b
      <4> DEFINE q == IF reg.state = "DISPATCHED" /\ endpoint.state # "UNKNOWN" /\ b
                      THEN "CLOSED" ELSE "UNKNOWN"
      <4>0. endpoint' = [endpoint EXCEPT !.state = q, !.clean = b] /\ q \in {"CLOSED", "UNKNOWN"}
          BY <3>1 DEF ClosedEndpoint
      <4> HIDE DEF q
      <4>1. \A t \in {"CLOSED", "UNKNOWN"} : /\ [endpoint EXCEPT !.state = t, !.clean = b] \in Endpoints
                                            /\ [endpoint EXCEPT !.state = t, !.clean = b].clean = b
          BY ZenonT(60), <1>0, <1>2
      <4> QED
          BY <4>0, <4>1
    <3> QED
        BY <2>4, <3>1, <3>2 DEF CloseEndpoint
  <2>5. CASE EndpointExpires
      BY <1>0, <1>2, <2>5 DEF EndpointExpires
  <2> QED
      BY <2>1, <2>2, <2>3, <2>4, <2>5 DEF ReserveFixture, ConfirmFixture, PrepareRun, CallbackEnds,
         RecordReaderLease, ReleaseReader, ServeGet, RunEnds
<1>4. run' \in BoundRuns
  <2>1. CASE UNCHANGED run
      BY <1>0, <2>1
  <2>2. CASE PrepareRun \/ RunEnds
      BY <1>0, <2>2 DEF PrepareRun, RunEnds, BoundRuns
  <2>3. CASE ServeGet /\ ~UNCHANGED run
    <3>1. run' = [run EXCEPT !.preview = @ \/ ~run.bound]
        BY <2>3 DEF ServeGet
    <3>2. (run.preview \/ ~run.bound) \in BOOLEAN
        OBVIOUS
    <3>3. run' = [run EXCEPT !.preview = (run.preview \/ ~run.bound)]
        BY <1>0, <3>1 DEF BoundRuns
    <3> HIDE DEF BoundRuns
    <3>4. \A b \in BOOLEAN : [run EXCEPT !.preview = b] \in BoundRuns
        BY <1>0 DEF BoundRuns
    <3> QED
        BY <3>2, <3>3, <3>4
  <2> QED
      BY <2>1, <2>2, <2>3 DEF ReserveFixture, ConfirmFixture, PlanEndpoint, BindEndpoint, CallbackEnds,
         CloseEndpoint, RecordReaderLease, ReleaseReader, EndpointExpires
<1>5. /\ pc' \in Places /\ fixture' \in {"none", "reserved", "confirmed"}
      /\ gateway' \in {"none", "open", "closed"} /\ reader' \in {"none", "held", "released", "releasedLate"}
    BY <1>0 DEF ReserveFixture, ConfirmFixture, PlanEndpoint, BindEndpoint, PrepareRun, CallbackEnds,
       CloseEndpoint, RecordReaderLease, ReleaseReader, ServeGet, EndpointExpires, RunEnds, Places
<1>6. unclean' \in BOOLEAN
  <2>1. CASE UNCHANGED unclean
      BY <1>0, <2>1
  <2>2. CASE CallbackEnds
      BY <2>2 DEF CallbackEnds
  <2>3. CASE CloseEndpoint
    <3>1. PICK b \in BOOLEAN : unclean' = (unclean \/ ~b)
        BY <2>3 DEF CloseEndpoint
    <3> QED
        BY <3>1
  <2> QED
      BY <2>1, <2>2, <2>3 DEF ReserveFixture, ConfirmFixture, PlanEndpoint, BindEndpoint, PrepareRun,
         RecordReaderLease, ReleaseReader, ServeGet, EndpointExpires, RunEnds, boxVars
<1>7. SessionTypeOK'
    BY <1>1, <1>3, <1>4, <1>5, <1>6 DEF SessionInv, SessionTypeOK, Endpoints, BoundRuns, Places
<1>8. BoxInv' /\ EffectInv'
    BY <1>1 DEF SessionInv, BoxInv, EffectInv
<1>9. /\ \/ pc' = pc /\ gateway' \in {gateway, "closed"} /\ (gateway' # gateway => gateway = "open")
         \/ pc \in {"launching", "seeding", "seeded"} /\ gateway' = gateway
            /\ pc' \in {"seeding", "seeded", "planned", "failed"}
         \/ pc = "planned" /\ pc' = "serving" /\ gateway' = "open"
         \/ pc \in {"planned", "serving"} /\ pc' = "closing" /\ gateway' = "closed"
         \/ pc = "closing" /\ pc' \in {"checking", "failed"} /\ gateway' = gateway
      /\ CloseEndpoint => pc = "closing" /\ pc' \in {"checking", "failed"} /\ gateway' = gateway
    BY DEF ReserveFixture, ConfirmFixture, PlanEndpoint, BindEndpoint, PrepareRun, CallbackEnds,
       CloseEndpoint, RecordReaderLease, ReleaseReader, ServeGet, EndpointExpires, RunEnds
<1>10. GateInv'
    BY <1>1, <1>3, <1>9 DEF SessionInv, GateInv, HandlerJoined
<1>11. EndInv'
  <2>1. pc = "stopped" => /\ pc' = pc /\ (gateway' = "open" => gateway = "open")
                          /\ endpoint'.state = endpoint.state /\ endpoint'.clean = endpoint.clean
      BY <1>3, <1>9
  <2> QED
      BY <1>1, <2>1 DEF SessionInv, EndInv, PassedLeavesNothing, FailedLeavesNothing
<1> QED
    BY <1>7, <1>8, <1>10, <1>11 DEF SessionInv

-----------------------------------------------------------------------------
(* One form effect, and the death of the coordinator.                      *)

\* The reader and the form: permission, request, answer.
LEMMA EffectKeeps ==
    ASSUME SessionInv, NEW a \in ReaderActions,
           \/ DispatchAction(a) \/ AuthorizeForm(a) \/ BeginEffect(a) \/ CheckEffect(a) \/ SendPost(a)
           \/ RetainResponse(a) \/ ReportResult(a) \/ PermitExpires(a)
    PROVE  SessionInv'
<1>0. /\ permit \in [ReaderActions -> Permits] /\ transport \in Transports
      /\ act \in [ReaderActions -> {"none", "dispatched", "known", "ambiguous"}]
      /\ posts \in [ReaderActions -> Nat] /\ gateway \in {"none", "open", "closed"} /\ EffectInv
    BY DEF SessionInv, SessionTypeOK, Permits, Transports
<1>1. UNCHANGED <<authority, reg, proc, box, unsure, swept, unclean, fixture, endpoint, run, reader, pc>>
    BY DEF DispatchAction, AuthorizeForm, BeginEffect, CheckEffect, SendPost, RetainResponse, ReportResult,
           PermitExpires, regVars, boxVars, siteVars
<1>2. gateway' \in {gateway, "closed"} /\ (gateway' = "closed" => gateway = "closed" \/ gateway = "open" \/ transport # Idle)
    BY DEF DispatchAction, AuthorizeForm, BeginEffect, CheckEffect, SendPost, RetainResponse, ReportResult,
           PermitExpires, siteVars, Idle
<1>3. act' \in [ReaderActions -> {"none", "dispatched", "known", "ambiguous"}]
    BY <1>0 DEF DispatchAction, AuthorizeForm, BeginEffect, CheckEffect, SendPost, RetainResponse,
       ReportResult, PermitExpires
<1>4. posts' \in [ReaderActions -> Nat]
    BY <1>0 DEF DispatchAction, AuthorizeForm, BeginEffect, CheckEffect, SendPost, RetainResponse,
       ReportResult, PermitExpires
<1>5. permit' \in [ReaderActions -> Permits] /\ \A b \in ReaderActions : b # a => permit'[b] = permit[b]
  <2>1. \A p \in Permits : /\ [p EXCEPT !.state = "consumed"] \in Permits
                           /\ [p EXCEPT !.response = TRUE] \in Permits /\ [p EXCEPT !.live = FALSE] \in Permits
      BY DEF Permits
  <2>2. [state |-> "open", live |-> TRUE, response |-> FALSE] \in Permits
      BY DEF Permits
  <2>3. /\ [permit[a] EXCEPT !.state = "consumed"] \in Permits /\ [permit[a] EXCEPT !.response = TRUE] \in Permits
        /\ [permit[a] EXCEPT !.live = FALSE] \in Permits
      BY <1>0, <2>1
  <2>4. \/ permit' = permit
        \/ permit' = [permit EXCEPT ![a] = [state |-> "open", live |-> TRUE, response |-> FALSE]]
        \/ permit' = [permit EXCEPT ![a] = [permit[a] EXCEPT !.state = "consumed"]]
        \/ permit' = [permit EXCEPT ![a] = [permit[a] EXCEPT !.response = TRUE]]
        \/ permit' = [permit EXCEPT ![a] = [permit[a] EXCEPT !.live = FALSE]]
    <3>1. CASE UNCHANGED permit
        BY <3>1
    <3>2. CASE AuthorizeForm(a)
        BY <3>2 DEF AuthorizeForm
    <3>3. CASE BeginEffect(a) /\ ~UNCHANGED permit
        BY <1>0, <3>3 DEF BeginEffect
    <3>4. CASE RetainResponse(a) /\ ~UNCHANGED permit
        BY <1>0, <3>4 DEF RetainResponse
    <3>5. CASE PermitExpires(a)
        BY <1>0, <3>5 DEF PermitExpires
    <3> QED
        BY <3>1, <3>2, <3>3, <3>4, <3>5 DEF DispatchAction, CheckEffect, SendPost, ReportResult
  <2>5. permit' = permit \/ \E p \in Permits : permit' = [permit EXCEPT ![a] = p]
      BY <2>2, <2>3, <2>4
  <2> QED
      BY <1>0, <2>5
<1>6. transport' \in Transports
    BY <1>0 DEF DispatchAction, AuthorizeForm, BeginEffect, CheckEffect, SendPost, RetainResponse,
       ReportResult, PermitExpires, Transports, Idle
<1>7. SessionTypeOK'
    BY <1>1, <1>2, <1>3, <1>4, <1>5, <1>6 DEF SessionInv, SessionTypeOK, Permits, Transports
<1>8. transport = Idle /\ transport' # Idle => gateway = "open"
    BY DEF DispatchAction, AuthorizeForm, BeginEffect, CheckEffect, SendPost, RetainResponse, ReportResult,
           PermitExpires, Idle
<1>9. GateInv'
    BY <1>1, <1>2, <1>8 DEF SessionInv, GateInv
<1>10. BoxInv' /\ EndInv'
    BY <1>1, <1>2 DEF SessionInv, BoxInv, EndInv, PassedLeavesNothing, FailedLeavesNothing
<1>11. EffectInv'
  <2>1. CASE DispatchAction(a)
      BY <1>0, <2>1 DEF DispatchAction, EffectInv
  <2>2. CASE AuthorizeForm(a)
    <3>1. /\ permit'[a].state = "open" /\ ~permit'[a].response /\ permit[a].state = "none"
          /\ UNCHANGED <<act, transport, posts>>
        BY <1>0, <2>2 DEF AuthorizeForm, NoPermit
    <3> QED
        BY <1>0, <1>5, <3>1 DEF EffectInv
  <2>3. CASE BeginEffect(a)
    <3>1. CASE UNCHANGED <<permit, transport>>
        BY <1>0, <2>3, <3>1 DEF BeginEffect, EffectInv
    <3>2. CASE ~UNCHANGED <<permit, transport>>
      <4>1. /\ a \in Eligible /\ transport = Idle /\ UNCHANGED <<act, posts>>
            /\ permit' = [permit EXCEPT ![a].state = "consumed"]
            /\ transport' = [phase |-> "begun", on |-> a]
          BY <2>3, <3>2 DEF BeginEffect
      <4>2. permit[a].state = "open" /\ act[a] # "known"
          BY <4>1 DEF Eligible
      <4>3. permit'[a].state = "consumed" /\ permit'[a].response = permit[a].response
          BY <1>0, <4>1 DEF Permits
      <4>4. transport'.phase = "begun" /\ transport'.on = a
          BY <4>1
      <4> QED
          BY <1>0, <1>5, <4>1, <4>2, <4>3, <4>4 DEF EffectInv
    <3> QED
        BY <3>1, <3>2
  <2>4. CASE CheckEffect(a)
    <3>1. /\ transport.on = a /\ transport.phase = "begun" /\ UNCHANGED <<act, permit, posts>>
          /\ transport' = Idle \/ (transport'.on = a /\ transport'.phase = "checked")
          /\ transport # Idle
        BY <2>4 DEF CheckEffect, Idle
    <3> QED
        BY <1>0, <3>1 DEF EffectInv
  <2>5. CASE SendPost(a)
    <3>1. /\ transport.on = a /\ transport.phase = "checked" /\ UNCHANGED <<act, permit>>
          /\ posts' = [posts EXCEPT ![a] = @ + 1] /\ transport # Idle
          /\ transport' = Idle \/ (transport'.on = a /\ transport'.phase = "sent")
        BY <2>5 DEF SendPost, Idle
    <3>2. /\ posts[a] = 0 /\ permit[a].state = "consumed" /\ ~permit[a].response /\ act[a] # "known"
        BY <1>0, <3>1 DEF EffectInv
    <3>3. posts'[a] = 1 /\ \A b \in ReaderActions : b # a => posts'[b] = posts[b]
        BY <1>0, <3>1, <3>2
    <3> QED
        BY <1>0, <3>1, <3>2, <3>3 DEF EffectInv
  <2>6. CASE RetainResponse(a)
    <3>1. /\ transport.on = a /\ transport # Idle /\ transport' = Idle /\ UNCHANGED <<act, posts>>
          /\ permit' = permit \/ permit' = [permit EXCEPT ![a].response = TRUE]
        BY <2>6 DEF RetainResponse, Idle
    <3>2. permit[a].state = "consumed" /\ permit'[a].state = permit[a].state
          /\ (permit[a].response => permit'[a].response)
        BY <1>0, <3>1 DEF EffectInv, Permits
    <3> QED
        BY <1>0, <1>5, <3>1, <3>2 DEF EffectInv
  <2>7. CASE ReportResult(a)
    <3>1. /\ UNCHANGED <<permit, transport, posts>> /\ \A b \in ReaderActions : b # a => act'[b] = act[b]
          /\ act'[a] = "known" => (permit[a].state = "consumed" => permit[a].response)
        BY <1>0, <2>7 DEF ReportResult, ResultAllowed
    <3> QED
        BY <1>0, <3>1 DEF EffectInv
  <2>8. CASE PermitExpires(a)
    <3>1. /\ UNCHANGED <<act, transport, posts>>
          /\ permit'[a].state = permit[a].state /\ permit'[a].response = permit[a].response
        BY <1>0, <2>8 DEF PermitExpires, Permits
    <3> QED
        BY <1>0, <1>5, <3>1 DEF EffectInv
  <2> QED
      BY <2>1, <2>2, <2>3, <2>4, <2>5, <2>6, <2>7, <2>8
<1> QED
    BY <1>7, <1>9, <1>10, <1>11 DEF SessionInv

\* A crash of the coordinator loses its place and nothing else.
LEMMA CrashKeeps == SessionInv /\ CrashCoordinator => SessionInv'
<1> SUFFICES ASSUME SessionInv, CrashCoordinator PROVE SessionInv'
    OBVIOUS
<1>1. /\ UNCHANGED <<authority, reg, proc, box, unsure, swept, unclean, fixture, endpoint, run, reader, act,
                     permit, posts>>
      /\ pc \notin {"idle", "stopped"} /\ pc' = "stopped" /\ transport' = Idle
      /\ gateway' \in {gateway, "closed"} /\ gateway' # "open" /\ (gateway = "closed" => gateway' = "closed")
    BY DEF CrashCoordinator, regVars, boxVars
<1>2. SessionTypeOK'
    BY <1>1 DEF SessionInv, SessionTypeOK, Idle
<1>3. BoxInv' /\ EffectInv' /\ GateInv' /\ EndInv'
    BY <1>1 DEF SessionInv, BoxInv, EffectInv, GateInv, EndInv, PassedLeavesNothing, FailedLeavesNothing
<1> QED
    BY <1>2, <1>3 DEF SessionInv

\* Every step keeps the invariant.
LEMMA SessionKeeps == SessionInv /\ [SessionNext]_sessionVars => SessionInv'
<1>1. SessionInv /\ UNCHANGED sessionVars => SessionInv'
    BY DEF sessionVars, SessionInv, SessionTypeOK, BoxInv, EffectInv, GateInv, EndInv, PassedLeavesNothing,
           FailedLeavesNothing
<1>2. SessionInv /\ CoordinatorStep => SessionInv'
    BY RegressionKeeps, ContainerKeeps, SiteKeeps, CrashKeeps DEF CoordinatorStep
<1>3. SessionInv /\ ReaderStep => SessionInv'
    BY SiteKeeps, EffectKeeps DEF ReaderStep
<1> QED
    BY <1>1, <1>2, <1>3, RegressionKeeps, SiteKeeps DEF SessionNext

-----------------------------------------------------------------------------
(* What never happens again.                                               *)

\* No request leaves once its session has ended.
LEMMA NothingIsLate ==
    SessionInv /\ [SessionNext]_sessionVars =>
      /\ \A a \in ReaderActions : act[a] = "known" => posts'[a] = posts[a]
      /\ reg.state \in {"PASSED", "FAILED", "UNKNOWN"} => reg'.state = reg.state
<1> SUFFICES ASSUME SessionInv, [SessionNext]_sessionVars
             PROVE  /\ \A a \in ReaderActions : act[a] = "known" => posts'[a] = posts[a]
                    /\ reg.state \in {"PASSED", "FAILED", "UNKNOWN"} => reg'.state = reg.state
    OBVIOUS
<1>1. ASSUME NEW a \in ReaderActions, act[a] = "known" PROVE posts'[a] = posts[a]
  <2>1. posts' = posts \/ \E b \in ReaderActions : SendPost(b)
      BY DEF SessionNext, sessionVars, CoordinatorStep, ReaderStep, effectVars, ClaimRegression,
         DispatchRegression, PlanProcess, CreateProcess, RecordCreated, CreateLands, RemoveProcess,
         ReserveFixture, ConfirmFixture, PlanEndpoint, BindEndpoint, PrepareRun, CallbackEnds,
         CloseEndpoint, SkipEndpoint, ChecksFail, FinishRegression, FailRegression, CrashCoordinator,
         RecordReaderLease, ReleaseReader, ServeGet, DispatchAction, AuthorizeForm, BeginEffect,
         CheckEffect, RetainResponse, ReportResult, PermitExpires, AuthorityEnded, RegLeaseLapses,
         FenceRegression, EndpointExpires, RunEnds
  <2>2. ASSUME NEW b \in ReaderActions, SendPost(b) PROVE posts'[a] = posts[a]
    <3>1. transport.on = b /\ transport # Idle /\ posts' = [posts EXCEPT ![b] = @ + 1]
        BY <2>2 DEF SendPost, Idle
    <3>2. act[b] # "known"
        BY <3>1 DEF SessionInv, EffectInv
    <3>3. posts \in [ReaderActions -> Nat]
        BY DEF SessionInv, SessionTypeOK
    <3> QED
        BY <1>1, <3>1, <3>2, <3>3
  <2> QED
      BY <2>1, <2>2
<1>2. ASSUME reg.state \in {"PASSED", "FAILED", "UNKNOWN"} PROVE reg'.state = reg.state
  <2>0. reg \in Regressions
      BY DEF SessionInv, SessionTypeOK, Regressions
  <2>1. \/ reg' = reg
        \/ ClaimRegression \/ DispatchRegression \/ FinishRegression \/ FailRegression
        \/ RegLeaseLapses \/ FenceRegression
      BY DEF SessionNext, sessionVars, CoordinatorStep, ReaderStep, regVars, PlanProcess, CreateProcess,
         RecordCreated, CreateLands, RemoveProcess, ReserveFixture, ConfirmFixture, PlanEndpoint,
         BindEndpoint, PrepareRun, CallbackEnds, CloseEndpoint, SkipEndpoint, ChecksFail,
         CrashCoordinator, RecordReaderLease, ReleaseReader, ServeGet, DispatchAction, AuthorizeForm,
         BeginEffect, CheckEffect, SendPost, RetainResponse, ReportResult, PermitExpires, AuthorityEnded,
         EndpointExpires, RunEnds
  <2>2. FencedReg.state = reg.state
    <3>1. FencedReg = [reg EXCEPT !.state = reg.state]
        BY <1>2, <2>0 DEF FencedReg, Regressions
    <3> QED
        BY <2>0, <3>1 DEF Regressions
  <2> QED
      BY <1>2, <2>1, <2>2 DEF ClaimRegression, DispatchRegression, FinishRegression, FailRegression,
         RegLeaseLapses, FenceRegression, RegOwned, Active, Finishable
<1> QED
    BY <1>1, <1>2

\* A candidate's session that passed or failed left nothing behind, posts each form at most once
\* and hides no post, and nothing moves after a known result, for any roles and actions: the
\* regression coordinator, the candidate gateway and the effect permissions.
THEOREM TrustworthySession == SessionSpec => SessionIsTrustworthy
<1> DEFINE Settled == /\ \A a \in ReaderActions : act[a] = "known" => posts'[a] = posts[a]
                      /\ reg.state \in {"PASSED", "FAILED", "UNKNOWN"} => reg'.state = reg.state
<1>1. SessionInv /\ [SessionNext]_sessionVars => [Settled]_sessionVars
    BY NothingIsLate
<1> HIDE DEF Settled
<1>2. SessionSpec =>
        /\ [](SessionTypeOK /\ PassedLeavesNothing /\ FailedLeavesNothing /\ ContainersAreIntended)
        /\ [](AtMostOnePost /\ KnownResultIsComplete /\ ReceiptIsQuiet)
        /\ [][Settled]_sessionVars
    BY <1>1, SessionInvGives, SessionBegins, SessionKeeps, PTL DEF SessionSpec
<1> QED
    BY <1>2 DEF SessionIsTrustworthy, NoLateEffect, Settled

-----------------------------------------------------------------------------
(* The inductive invariant.                                                *)

\* A publisher past its reservation holds the slot, and GitHub has what it has created.
Holds(o) ==
    /\ publisher[o].at \in {"reserved", "created", "closed"} =>
          slot = [preview |-> Asks(o), by |-> o]
    /\ publisher[o].at = "reserved" => checks = <<>>
    /\ publisher[o].at \in {"created", "closed"} => checks = <<slot>>
    /\ publisher[o].at = "closed" => ~publisher[o].token

\* The slot is the only way to the create call: whoever is past it holds it, and
\* what GitHub has is what the slot says.
SlotInv ==
    /\ slot = NoSlot => checks = <<>> /\ receipt = NoReceipt
    /\ checks = <<>> \/ checks = <<slot>>
    /\ receipt # NoReceipt =>
          receipt.revoked /\ receipt.preview = slot.preview /\ checks = <<slot>>
    /\ \A o \in Publishers : Holds(o)

\* Why a preview can never be reserved again; every one of these is for good.
Dead(p) ==
    \/ runState = "deleted"
    \/ preview[p] # NoPreview /\ binding[preview[p].binding] = "revoked"
    \/ runState # "RUNNING" /\ preview[p].status = "RUNNING"
    \/ publishApproval[p].state \in {"revoked", "expired"}
    \/ publishApproval[p].state # "none" /\ publishApproval[p].by \notin owners

\* A preview drawn while the run runs says so, and nobody approved what has no approval.
Drafted(p) ==
    /\ runState = "RUNNING" /\ preview[p] # NoPreview => preview[p].status = "RUNNING"
    /\ publishApproval[p].state = "none" => publishApproval[p].by = NoOne

\* A withdrawn preview is dead and not the published one.
WithdrawalInv ==
    /\ slot # NoSlot => slot.preview \notin withdrawn
    /\ \A p \in withdrawn : Dead(p)
    /\ \A p \in Previews : Drafted(p)

GithubInv == GithubTypeOK /\ SlotInv /\ WithdrawalInv /\ DenialsHold

-----------------------------------------------------------------------------
(* Types.                                                                  *)

\* Nothing is bound, previewed or reserved yet.
LEMMA InitiallySafe == GithubInit => GithubInv
<1> SUFFICES ASSUME GithubInit PROVE GithubInv
    OBVIOUS
<1>1. GithubTypeOK
  <2>1. checks \in Seq([preview : Previews, by : Publishers])
      BY DEF GithubInit
  <2> QED
      BY <2>1 DEF GithubInit, GithubTypeOK
<1>2. SlotInv
    BY DEF GithubInit, SlotInv, Holds, NotPublishing, NoReceipt
<1>3. WithdrawalInv
    BY DEF GithubInit, WithdrawalInv, Drafted, NoPreview
<1>4. DenialsHold
    BY DEF GithubInit, DenialsHold
<1> QED
    BY <1>1, <1>2, <1>3, <1>4 DEF GithubInv

\* What publish_preview knows while it runs, and where it can be.
Stages == {"rechecked", "inspected", "verified", "reserved", "created", "closing", "closed"}
Calls == [at : Stages, preview : Previews, status : {"RUNNING", "COMPLETED"}, by : Owners, token : BOOLEAN]
PublisherOK == publisher \in [Publishers -> Calls \cup {NotPublishing}]

\* The records of the publishers, one by one.
LEMMA TypedPublisher == GithubTypeOK => PublisherOK
    BY DEF GithubTypeOK, PublisherOK, Calls, Stages

\* A publisher is idle exactly when it is NotPublishing.
LEMMA IdlePublisher ==
    ASSUME PublisherOK, NEW o \in Publishers
    PROVE  /\ publisher[o].at = "idle" <=> publisher[o] = NotPublishing
           /\ publisher[o].at # "idle" => publisher[o] \in Calls
    BY DEF PublisherOK, Calls, Stages, NotPublishing

\* A call record moved to another stage is a call record that differs in nothing else.
LEMMA MovedCall ==
    ASSUME NEW c \in Calls, NEW at \in Stages, NEW d, d = [c EXCEPT !.at = at]
    PROVE  d \in Calls /\ d.at = at /\ d.preview = c.preview /\ d.token = c.token
    BY DEF Calls

\* Rewriting one publisher leaves the others alone.
LEMMA OnePublisher ==
    ASSUME PublisherOK, NEW o \in Publishers, NEW c \in Calls \cup {NotPublishing},
           publisher' = [publisher EXCEPT ![o] = c]
    PROVE  /\ PublisherOK' /\ publisher'[o] = c
           /\ \A q \in Publishers \ {o} : publisher'[q] = publisher[q]
    BY DEF PublisherOK

\* Move changes a publisher's stage and nothing else.
LEMMA MoveMoves ==
    ASSUME PublisherOK, NEW o \in Publishers, ~At(o, "idle"), NEW at \in Stages, Move(o, at)
    PROVE  /\ PublisherOK' /\ publisher'[o].at = at
           /\ Asks(o)' = Asks(o) /\ publisher'[o].token = publisher[o].token
           /\ \A q \in Publishers \ {o} : publisher'[q] = publisher[q]
<1>1. publisher[o] \in Calls
    BY IdlePublisher DEF At
<1>2. PICK c : c = publisher[o]
    OBVIOUS
<1>3. PICK d : d = [c EXCEPT !.at = at]
    OBVIOUS
<1>4. d \in Calls /\ d.at = at /\ d.preview = c.preview /\ d.token = c.token
    BY <1>1, <1>2, <1>3, MovedCall
<1>5. publisher' = [publisher EXCEPT ![o] = d]
    BY <1>2, <1>3 DEF Move
<1> QED
    BY <1>2, <1>4, <1>5, OnePublisher DEF Asks

\* Every step keeps the types.
LEMMA TypesKept == GithubTypeOK /\ [GithubNext]_githubVars => GithubTypeOK'
<1> SUFFICES ASSUME GithubTypeOK, [GithubNext]_githubVars
             PROVE  GithubTypeOK'
    OBVIOUS
<1> USE DEF local, consent, remote, ingress, output
<1>0. PublisherOK
    BY TypedPublisher
<1>1. ASSUME NEW u \in Owners, ProbeRepository(u) \/ RecordBinding(u) \/ OwnerLeaves(u)
      PROVE  GithubTypeOK'
    BY <1>1 DEF ProbeRepository, RecordBinding, OwnerLeaves, Withdraw, GithubTypeOK
<1>2. ASSUME NEW u \in Owners, NEW b \in Bindings, Disconnect(u, b)
      PROVE  GithubTypeOK'
    BY <1>2 DEF Disconnect, Withdraw, On, GithubTypeOK
<1>3. ASSUME NEW u \in Owners, NEW b \in Bindings, NEW p \in Previews, StorePreview(u, p, b)
      PROVE  GithubTypeOK'
    BY <1>3 DEF StorePreview, Drawn, GithubTypeOK
<1>4. ASSUME NEW u \in Owners, NEW p \in Previews, ApprovePreview(u, p)
      PROVE  GithubTypeOK'
    BY <1>4 DEF ApprovePreview, GithubTypeOK
<1>5. ASSUME NEW p \in Previews, NEW how \in {"revoked", "expired"}, EndApproval(p, how)
      PROVE  GithubTypeOK'
    BY <1>5 DEF EndApproval, Withdraw, GithubTypeOK
<1>6. ASSUME NEW o \in Publishers, NEW u \in Owners, NEW p \in Previews, RecheckPreview(o, u, p)
      PROVE  GithubTypeOK'
    BY <1>6 DEF RecheckPreview, Current, GithubTypeOK
<1>7. ASSUME NEW o \in Publishers, InspectRemote(o)
      PROVE  GithubTypeOK'
  <2>1. publisher[o] \in Calls
      BY <1>7, <1>0, IdlePublisher DEF InspectRemote, At
  <2>2. \E c \in Calls \cup {NotPublishing} : publisher' = [publisher EXCEPT ![o] = c]
      BY <1>7, <2>1, MovedCall DEF InspectRemote, Stages
  <2> QED
      BY <1>7, <1>0, <2>2, OnePublisher DEF InspectRemote, PublisherOK, Calls, Stages, GithubTypeOK
<1>8. ASSUME NEW o \in Publishers, VerifyRetained(o)
      PROVE  GithubTypeOK'
  <2>1. PublisherOK'
      BY <1>8, <1>0, MoveMoves DEF VerifyRetained, At, Stages
  <2> QED
      BY <1>8, <2>1 DEF VerifyRetained, PublisherOK, Calls, Stages, GithubTypeOK
<1>9. ASSUME NEW o \in Publishers, ReserveCheck(o)
      PROVE  GithubTypeOK'
  <2>1. PublisherOK' /\ Asks(o) \in Previews
      BY <1>9, <1>0, IdlePublisher, MoveMoves DEF ReserveCheck, At, Asks, Calls, Stages
  <2> QED
      BY <1>9, <2>1 DEF ReserveCheck, PublisherOK, Calls, Stages, GithubTypeOK
<1>10. ASSUME NEW o \in Publishers, CreateCheck(o)
       PROVE  GithubTypeOK'
  <2>1. PublisherOK' /\ Asks(o) \in Previews
      BY <1>10, <1>0, IdlePublisher, MoveMoves DEF CreateCheck, At, Asks, Calls, Stages
  <2>2. checks' \in Seq([preview : Previews, by : Publishers])
    <3>1. PICK check \in [preview : Previews, by : Publishers] : check = [preview |-> Asks(o), by |-> o]
        BY <2>1
    <3>2. Append(checks, check) \in Seq([preview : Previews, by : Publishers])
        BY DEF GithubTypeOK
    <3> QED
        BY <1>10, <3>1, <3>2 DEF CreateCheck, GithubTypeOK
  <2> QED
      BY <1>10, <2>1, <2>2 DEF CreateCheck, PublisherOK, Calls, Stages, GithubTypeOK
<1>11. ASSUME NEW o \in Publishers, RevokeToken(o)
       PROVE  GithubTypeOK'
  <2>1. publisher[o] \in Calls
      BY <1>11, <1>0, IdlePublisher DEF RevokeToken, At
  <2>2. \E c \in Calls \cup {NotPublishing} : publisher' = [publisher EXCEPT ![o] = c]
    <3>1. PICK c : c = publisher[o]
        OBVIOUS
    <3>2. PICK d : d = [c EXCEPT !.at = "closed", !.token = FALSE]
        OBVIOUS
    <3>3. d \in Calls
        BY <2>1, <3>1, <3>2 DEF Calls, Stages
    <3>4. publisher' = [publisher EXCEPT ![o] = IF At(o, "created") THEN d ELSE NotPublishing]
        BY <1>11, <3>1, <3>2 DEF RevokeToken
    <3> QED
        BY <3>3, <3>4
  <2> QED
      BY <1>11, <1>0, <2>2, OnePublisher DEF RevokeToken, PublisherOK, Calls, Stages, GithubTypeOK
<1>12. ASSUME NEW o \in Publishers, RecordReceipt(o)
       PROVE  GithubTypeOK'
  <2>1. Asks(o) \in Previews /\ publisher[o].token \in BOOLEAN
      BY <1>12, <1>0, IdlePublisher DEF RecordReceipt, At, Asks, Calls
  <2> QED
      BY <1>12, <2>1 DEF RecordReceipt, GithubTypeOK
<1>13. ASSUME NEW o \in Publishers, Abandon(o)
       PROVE  GithubTypeOK'
    BY <1>13 DEF Abandon, GithubTypeOK
<1>14. ASSUME NEW d \in Deliveries, ReceivePush(d)
       PROVE  GithubTypeOK'
    BY <1>14 DEF ReceivePush, Bodies, GithubTypeOK
<1>15. ASSUME NEW d \in Deliveries, NEW body \in Denials, ReceiveDenial(d, body)
       PROVE  GithubTypeOK'
    BY <1>15 DEF ReceiveDenial, Withdraw, On, GithubAnswer, Bodies, GithubTypeOK
<1>16. ASSUME AccessChanges \/ RunCompletes \/ EvidenceExpires \/ DeleteRun
       PROVE  GithubTypeOK'
    BY <1>16 DEF AccessChanges, RunCompletes, EvidenceExpires, DeleteRun, Withdraw, GithubTypeOK
<1>17. CASE UNCHANGED githubVars
    BY <1>17 DEF githubVars, GithubTypeOK
<1> QED
    BY <1>1, <1>2, <1>3, <1>4, <1>5, <1>6, <1>7, <1>8, <1>9, <1>10, <1>11, <1>12, <1>13,
       <1>14, <1>15, <1>16, <1>17
       DEF GithubNext, RevokePreviewApproval, ApprovalExpires

-----------------------------------------------------------------------------
(* The slot.  Only four steps of publish_preview touch it, the checks or   *)
(* the receipt; every other action leaves them, and at most lets a         *)
(* publisher go where nothing is claimed of it.                            *)

\* A publisher that moves to a stage where it claims nothing keeps the slot as it is.
LEMMA QuietMove ==
    ASSUME GithubTypeOK, SlotInv, NEW o \in Publishers, UNCHANGED <<slot, receipt, checks>>,
           \A q \in Publishers \ {o} : publisher'[q] = publisher[q],
           publisher'[o].at \notin {"reserved", "created", "closed"}
    PROVE  SlotInv'
    BY DEF SlotInv, Holds, Asks

\* Two publishers never hold the slot at once.
LEMMA SlotIsOnes ==
    ASSUME SlotInv, NEW o \in Publishers, NEW q \in Publishers,
           publisher[o].at \in {"reserved", "created", "closed"},
           publisher[q].at \in {"reserved", "created", "closed"}
    PROVE  q = o
    BY DEF SlotInv, Holds

\* A publisher past its reservation has a slot, of the preview it asks for.
LEMMA HeldSlot ==
    ASSUME PublisherOK, SlotInv, NEW o \in Publishers,
           publisher[o].at \in {"reserved", "created", "closed"}
    PROVE  slot # NoSlot /\ slot.preview = Asks(o) /\ slot.by = o /\ Asks(o) \in Previews
<1>1. Asks(o) \in Previews
    BY IdlePublisher DEF Calls, Asks
<1>2. slot = [preview |-> Asks(o), by |-> o]
    BY DEF SlotInv, Holds
<1>3. slot.preview # NoOne
    BY <1>1, <1>2, GithubAssumption
<1> QED
    BY <1>1, <1>2, <1>3 DEF NoSlot

\* Every step keeps the slot the only way.
LEMMA SlotKept == GithubTypeOK /\ SlotInv /\ [GithubNext]_githubVars => SlotInv'
<1> SUFFICES ASSUME GithubTypeOK, SlotInv, [GithubNext]_githubVars
             PROVE  SlotInv'
    OBVIOUS
<1> USE DEF local, consent, remote, ingress, output
<1>0. PublisherOK
    BY TypedPublisher
<1>1. CASE UNCHANGED <<slot, receipt, publisher, checks>>
    BY <1>1 DEF SlotInv, Holds, Asks
<1>2. ASSUME NEW o \in Publishers, NEW u \in Owners, NEW p \in Previews, RecheckPreview(o, u, p)
      PROVE  SlotInv'
  <2>1. /\ publisher'[o].at = "rechecked"
        /\ \A q \in Publishers \ {o} : publisher'[q] = publisher[q]
      BY <1>2, <1>0 DEF RecheckPreview, PublisherOK
  <2> QED
      BY <1>2, <2>1, QuietMove DEF RecheckPreview
<1>3. ASSUME NEW o \in Publishers, InspectRemote(o)
      PROVE  SlotInv'
  <2>1. PICK c : c = publisher[o]
      OBVIOUS
  <2>2. c \in Calls
      BY <1>3, <1>0, <2>1, IdlePublisher DEF InspectRemote, At
  <2>3. /\ publisher'[o].at \in {"inspected", "closing", "idle"}
        /\ \A q \in Publishers \ {o} : publisher'[q] = publisher[q]
      BY <1>3, <1>0, <2>1, <2>2 DEF InspectRemote, PublisherOK, Calls, NotPublishing
  <2> QED
      BY <1>3, <2>3, QuietMove DEF InspectRemote
<1>4. ASSUME NEW o \in Publishers, VerifyRetained(o)
      PROVE  SlotInv'
  <2>1. /\ publisher'[o].at \in {"verified", "closing"}
        /\ \A q \in Publishers \ {o} : publisher'[q] = publisher[q]
      BY <1>4, <1>0, MoveMoves DEF VerifyRetained, At, Stages
  <2> QED
      BY <1>4, <2>1, QuietMove DEF VerifyRetained
<1>5. ASSUME NEW o \in Publishers, ReserveCheck(o)
      PROVE  SlotInv'
  <2>1. /\ publisher'[o].at \in {"reserved", "closing"} /\ Asks(o)' = Asks(o)
        /\ publisher'[o].at = "reserved" => slot' = [preview |-> Asks(o), by |-> o] /\ Reservable(o)
        /\ \A q \in Publishers \ {o} : publisher'[q] = publisher[q]
      BY <1>5, <1>0, MoveMoves DEF ReserveCheck, At, Stages
  <2>2. CASE slot' = slot /\ publisher'[o].at # "reserved"
      BY <1>5, <2>1, <2>2, QuietMove DEF ReserveCheck
  <2>3. CASE Reservable(o) /\ slot' = [preview |-> Asks(o), by |-> o]
    <3>1. slot = NoSlot
        BY <2>3 DEF Reservable, Unreserved
    <3>2. checks' = <<>> /\ receipt' = NoReceipt
        BY <1>5, <3>1 DEF ReserveCheck, SlotInv, Holds
    <3>3. \A q \in Publishers : publisher[q].at \notin {"created", "closed"}
        BY <3>1, <1>0, HeldSlot
    <3>4. \A q \in Publishers : publisher[q].at # "reserved"
        BY <3>1, <1>0, HeldSlot
    <3>5. \A q \in Publishers : Holds(q)'
        BY <2>1, <2>3, <3>2, <3>3, <3>4 DEF Holds, Asks
    <3> QED
        BY <3>2, <3>5 DEF SlotInv, Holds
  <2> QED
      BY <1>5, <2>1, <2>2, <2>3 DEF ReserveCheck
<1>6. ASSUME NEW o \in Publishers, CreateCheck(o)
      PROVE  SlotInv'
  <2>1. /\ publisher'[o].at \in {"created", "closing"} /\ Asks(o)' = Asks(o)
        /\ \A q \in Publishers \ {o} : publisher'[q] = publisher[q]
        /\ slot' = slot /\ receipt' = receipt
      BY <1>6, <1>0, MoveMoves DEF CreateCheck, At, Stages
  <2>2. CASE checks' = checks /\ publisher'[o].at # "created"
      BY <2>1, <2>2, QuietMove
  <2>3. CASE checks' = Append(checks, [preview |-> Asks(o), by |-> o])
    <3>1. slot = [preview |-> Asks(o), by |-> o] /\ checks = <<>>
        BY <1>6 DEF CreateCheck, At, SlotInv, Holds
    <3>2. checks' = <<slot>>
        BY <2>3, <3>1
    <3>3. slot # NoSlot /\ receipt = NoReceipt
        BY <1>0, <1>6, <3>1, HeldSlot DEF SlotInv, Holds, CreateCheck, At
    <3>4. \A q \in Publishers : Holds(q)'
      <4> SUFFICES ASSUME NEW q \in Publishers PROVE Holds(q)'
          OBVIOUS
      <4>1. CASE q = o
          BY <4>1, <2>1, <3>1, <3>2 DEF Holds, Asks
      <4>2. CASE q # o
        <5>1. publisher[q].at \notin {"reserved", "created", "closed"}
            BY <1>6, <4>2, SlotIsOnes DEF CreateCheck, At
        <5> QED
            BY <4>2, <5>1, <2>1 DEF Holds
      <4> QED
          BY <4>1, <4>2
    <3> QED
        BY <2>1, <3>2, <3>3, <3>4 DEF SlotInv, Holds
  <2> QED
      BY <1>6, <1>0, <2>1, <2>2, <2>3, MoveMoves DEF CreateCheck, At, Stages
<1>7. ASSUME NEW o \in Publishers, RevokeToken(o)
      PROVE  SlotInv'
  <2>1. PICK c : c = publisher[o]
      OBVIOUS
  <2>2. PICK d : d = [c EXCEPT !.at = "closed", !.token = FALSE]
      OBVIOUS
  <2>3. c \in Calls
      BY <1>7, <1>0, <2>1, IdlePublisher DEF RevokeToken, At
  <2>4. d.at = "closed" /\ d.token = FALSE /\ d.preview = c.preview
      BY <2>2, <2>3 DEF Calls
  <2>5. publisher' = [publisher EXCEPT ![o] = IF At(o, "created") THEN d ELSE NotPublishing]
      BY <1>7, <2>1, <2>2 DEF RevokeToken
  <2>6. /\ publisher'[o] = IF At(o, "created") THEN d ELSE NotPublishing
        /\ \A q \in Publishers \ {o} : publisher'[q] = publisher[q]
        /\ UNCHANGED <<slot, receipt, checks>>
      BY <1>7, <1>0, <2>5 DEF RevokeToken, PublisherOK
  <2>7. CASE ~At(o, "created")
      BY <2>6, <2>7, QuietMove DEF NotPublishing
  <2>8. CASE At(o, "created")
    <3>1. \A q \in Publishers : Holds(q)
        BY DEF SlotInv, Holds
    <3>2. Holds(o)'
        BY <2>1, <2>4, <2>6, <2>8, <3>1 DEF Holds, Asks, At
    <3>3. \A q \in Publishers \ {o} : Holds(q)'
        BY <2>6, <3>1 DEF Holds, Asks
    <3> QED
        BY <2>6, <3>2, <3>3 DEF SlotInv, Holds
  <2> QED
      BY <2>7, <2>8
<1>8. ASSUME NEW o \in Publishers, RecordReceipt(o)
      PROVE  SlotInv'
  <2>1. /\ publisher'[o] = NotPublishing /\ slot' = slot /\ checks' = checks
        /\ \A q \in Publishers \ {o} : publisher'[q] = publisher[q]
      BY <1>8, <1>0 DEF RecordReceipt, PublisherOK
  <2>2. CASE receipt' = receipt
      BY <2>1, <2>2, QuietMove DEF NotPublishing
  <2>3. CASE receipt' = [preview |-> Asks(o), revoked |-> ~publisher[o].token]
    <3>1. slot = [preview |-> Asks(o), by |-> o] /\ checks = <<slot>> /\ ~publisher[o].token
        BY <1>8 DEF RecordReceipt, At, SlotInv, Holds
    <3>2. receipt'.revoked /\ receipt'.preview = slot'.preview /\ slot' # NoSlot
      <4>1. (~publisher[o].token) = TRUE
          BY <3>1
      <4>2. receipt' = [preview |-> Asks(o), revoked |-> TRUE]
          BY <2>3, <4>1
      <4> QED
          BY <1>0, <1>8, <2>1, <3>1, <4>2, HeldSlot DEF RecordReceipt, At
    <3>3. \A q \in Publishers : Holds(q)'
        BY <2>1 DEF SlotInv, Holds, Asks, NotPublishing
    <3> QED
        BY <2>1, <3>1, <3>2, <3>3 DEF SlotInv, Holds
  <2> QED
      BY <1>8, <2>2, <2>3 DEF RecordReceipt
<1>9. ASSUME NEW o \in Publishers, Abandon(o)
      PROVE  SlotInv'
  <2>1. /\ publisher'[o].at = "idle"
        /\ \A q \in Publishers \ {o} : publisher'[q] = publisher[q]
      BY <1>9, <1>0 DEF Abandon, PublisherOK, NotPublishing
  <2> QED
      BY <1>9, <2>1, QuietMove DEF Abandon
<1> QED
    BY <1>1, <1>2, <1>3, <1>4, <1>5, <1>6, <1>7, <1>8, <1>9
       DEF GithubNext, githubVars, ProbeRepository, RecordBinding, OwnerLeaves, Disconnect, StorePreview,
           ApprovePreview, RevokePreviewApproval, ApprovalExpires, EndApproval, ReceivePush,
           ReceiveDenial, AccessChanges, RunCompletes, EvidenceExpires, DeleteRun

-----------------------------------------------------------------------------
(* Withdrawal.                                                             *)

\* No reservation is made for a dead preview: reserve_publication draws the preview again and reads
\* binding, owner and approval in its own transaction.
LEMMA DeadIsUnreservable ==
    ASSUME GithubTypeOK, NEW o \in Publishers, Asks(o) \in Previews, Reservable(o)
    PROVE  ~Dead(Asks(o))
<1> DEFINE p == Asks(o)
<1> HIDE DEF p
<1>1. /\ Current(p) /\ publishApproval[p] = [state |-> "live", by |-> publisher[o].by]
      /\ publisher[o].by \in owners
    BY DEF Reservable, Authorized, p
<1>2. preview[p] # NoPreview /\ binding[preview[p].binding] = "live" /\ preview[p].status = runState
    BY <1>1 DEF Current, Drawn
<1>3. runState # "deleted"
    BY <1>2 DEF GithubTypeOK, NoPreview, p
<1> QED
    BY <1>1, <1>2, <1>3 DEF Dead, p

\* What kills a preview is never undone: a binding is not un-revoked, a run does not run again, an
\* approval is made once and an owner who left does not return.
LEMMA DeadIsForGood ==
    ASSUME GithubTypeOK, [GithubNext]_githubVars, NEW p \in Previews, Dead(p)
    PROVE  Dead(p)'
<1> USE DEF local, consent, remote, ingress, output
<1>1. CASE UNCHANGED <<owners, runState, binding, preview, publishApproval>>
    BY <1>1 DEF Dead
<1>2. ASSUME NEW u \in Owners, RecordBinding(u)
      PROVE  Dead(p)'
  <2>1. \A b \in Bindings : binding[b] = "revoked" => binding'[b] = "revoked"
      BY <1>2 DEF RecordBinding, GithubTypeOK
  <2>2. preview[p] # NoPreview => preview[p].binding \in Bindings
      BY DEF GithubTypeOK
  <2> QED
      BY <1>2, <2>1, <2>2 DEF RecordBinding, Dead
<1>3. ASSUME NEW u \in Owners, OwnerLeaves(u)
      PROVE  Dead(p)'
    BY <1>3 DEF OwnerLeaves, Dead
<1>4. ASSUME NEW u \in Owners, NEW b \in Bindings, Disconnect(u, b)
      PROVE  Dead(p)'
    BY <1>4 DEF Disconnect, Dead, GithubTypeOK
<1>5. ASSUME NEW u \in Owners, NEW b \in Bindings, NEW q \in Previews, StorePreview(u, q, b)
      PROVE  Dead(p)'
  <2>1. CASE p = q
      BY <1>5, <2>1 DEF StorePreview, Dead, NoPreview
  <2>2. CASE p # q
      BY <1>5, <2>2 DEF StorePreview, Dead, GithubTypeOK
  <2> QED
      BY <2>1, <2>2
<1>6. ASSUME NEW u \in Owners, NEW q \in Previews, ApprovePreview(u, q)
      PROVE  Dead(p)'
    BY <1>6 DEF ApprovePreview, Dead, GithubTypeOK
<1>7. ASSUME NEW q \in Previews, NEW how \in {"revoked", "expired"}, EndApproval(q, how)
      PROVE  Dead(p)'
  <2>1. p = q => publishApproval'[p].state = how
      BY <1>7 DEF EndApproval, GithubTypeOK
  <2>2. p # q => publishApproval'[p] = publishApproval[p]
      BY <1>7 DEF EndApproval, GithubTypeOK
  <2> QED
      BY <1>7, <2>1, <2>2 DEF EndApproval, Dead
<1>8. ASSUME NEW d \in Deliveries, NEW body \in Denials, ReceiveDenial(d, body)
      PROVE  Dead(p)'
  <2>1. \A b \in Bindings : binding[b] = "revoked" => binding'[b] = "revoked"
      BY <1>8 DEF ReceiveDenial, GithubTypeOK
  <2>2. preview[p] # NoPreview => preview[p].binding \in Bindings
      BY DEF GithubTypeOK
  <2> QED
      BY <1>8, <2>1, <2>2 DEF ReceiveDenial, Dead
<1>9. CASE RunCompletes
    BY <1>9 DEF RunCompletes, Dead
<1>10. CASE DeleteRun
    BY <1>10 DEF DeleteRun, Dead
<1> QED
    BY <1>1, <1>2, <1>3, <1>4, <1>5, <1>6, <1>7, <1>8, <1>9, <1>10
       DEF GithubNext, githubVars, ProbeRepository, RevokePreviewApproval, ApprovalExpires, RecheckPreview,
           InspectRemote, VerifyRetained, ReserveCheck, CreateCheck, RevokeToken, RecordReceipt, Abandon,
           ReceivePush, AccessChanges, EvidenceExpires

\* Every step keeps the previews of a running run marked so.
LEMMA DraftedKept ==
    ASSUME GithubTypeOK, [GithubNext]_githubVars, NEW p \in Previews, Drafted(p)
    PROVE  Drafted(p)'
<1> USE DEF local, consent, remote, ingress, output
<1>1. CASE UNCHANGED <<runState, preview, publishApproval>>
    BY <1>1 DEF Drafted
<1>2. ASSUME NEW u \in Owners, NEW b \in Bindings, NEW q \in Previews, StorePreview(u, q, b)
      PROVE  Drafted(p)'
  <2>1. p = q => preview'[p].status = runState
      BY <1>2 DEF StorePreview, Drawn, GithubTypeOK
  <2>2. p # q => preview'[p] = preview[p]
      BY <1>2 DEF StorePreview, GithubTypeOK
  <2> QED
      BY <1>2, <2>1, <2>2 DEF StorePreview, Drafted
<1>3. ASSUME NEW u \in Owners, NEW q \in Previews, ApprovePreview(u, q)
      PROVE  Drafted(p)'
    BY <1>3 DEF ApprovePreview, Drafted, GithubTypeOK
<1>4. ASSUME NEW q \in Previews, NEW how \in {"revoked", "expired"}, EndApproval(q, how)
      PROVE  Drafted(p)'
  <2>1. p = q => publishApproval'[p].state = how
      BY <1>4 DEF EndApproval, GithubTypeOK
  <2>2. p # q => publishApproval'[p] = publishApproval[p]
      BY <1>4 DEF EndApproval, GithubTypeOK
  <2> QED
      BY <1>4, <2>1, <2>2 DEF EndApproval, Drafted
<1>5. CASE RunCompletes \/ DeleteRun
    BY <1>5 DEF RunCompletes, DeleteRun, Drafted
<1> QED
    BY <1>1, <1>2, <1>3, <1>4, <1>5
       DEF GithubNext, githubVars, ProbeRepository, RecordBinding, OwnerLeaves, Disconnect,
           RevokePreviewApproval, ApprovalExpires, RecheckPreview,
           InspectRemote, VerifyRetained, ReserveCheck, CreateCheck, RevokeToken, RecordReceipt, Abandon,
           ReceivePush, ReceiveDenial, AccessChanges, EvidenceExpires

\* Whatever withdraws a preview has killed it: each Withdraw names only previews that are dead
\* once the step is taken.
LEMMA WithdrawnIsDead ==
    ASSUME GithubInv, [GithubNext]_githubVars, NEW p \in Previews, p \notin withdrawn, p \in withdrawn'
    PROVE  Dead(p)'
<1> USE DEF local, consent, remote, ingress, output
<1>0. GithubTypeOK /\ Drafted(p)
    BY DEF GithubInv, WithdrawalInv, Drafted
<1>1. CASE UNCHANGED withdrawn
    BY <1>1
<1>2. ASSUME NEW u \in Owners, OwnerLeaves(u)
      PROVE  Dead(p)'
  <2>1. publishApproval[p].by = u
      BY <1>2 DEF OwnerLeaves, Withdraw
  <2>2. publishApproval[p].state # "none"
      BY <1>0, <2>1, GithubAssumption DEF Drafted
  <2> QED
      BY <1>2, <2>1, <2>2 DEF OwnerLeaves, Dead
<1>3. ASSUME NEW u \in Owners, NEW b \in Bindings, Disconnect(u, b)
      PROVE  Dead(p)'
  <2>1. preview[p] # NoPreview /\ preview[p].binding = b
      BY <1>3 DEF Disconnect, Withdraw, On
  <2> QED
      BY <1>0, <1>3, <2>1 DEF Disconnect, Dead, GithubTypeOK
<1>4. ASSUME NEW q \in Previews, NEW how \in {"revoked", "expired"}, EndApproval(q, how)
      PROVE  Dead(p)'
  <2>1. p = q
      BY <1>4 DEF EndApproval, Withdraw
  <2>2. publishApproval'[p].state = how
      BY <1>0, <1>4, <2>1 DEF EndApproval, GithubTypeOK
  <2> QED
      BY <2>2 DEF Dead
<1>5. ASSUME NEW d \in Deliveries, NEW body \in Denials, ReceiveDenial(d, body)
      PROVE  Dead(p)'
  <2>1. preview[p] # NoPreview /\ preview[p].binding = Watched
      BY <1>5 DEF ReceiveDenial, Withdraw, On
  <2> QED
      BY <1>0, <1>5, <2>1, GithubAssumption DEF ReceiveDenial, Dead, GithubTypeOK
<1>6. CASE RunCompletes
  <2>1. preview[p] # NoPreview
      BY <1>6 DEF RunCompletes, Withdraw
  <2> QED
      BY <1>0, <1>6, <2>1 DEF RunCompletes, Drafted, Dead
<1>7. CASE DeleteRun
    BY <1>7 DEF DeleteRun, Dead
<1> QED
    BY <1>1, <1>2, <1>3, <1>4, <1>5, <1>6, <1>7
       DEF GithubNext, githubVars, ProbeRepository, RecordBinding, StorePreview, ApprovePreview,
           RevokePreviewApproval, ApprovalExpires, RecheckPreview,
           InspectRemote, VerifyRetained, ReserveCheck, CreateCheck, RevokeToken, RecordReceipt, Abandon,
           ReceivePush, AccessChanges, EvidenceExpires

\* A step leaves the slot alone or fills it, for a preview no one withdrew; and no step withdraws
\* the preview that has the slot.
LEMMA SlotIsFilledOnce ==
    ASSUME GithubInv, [GithubNext]_githubVars
    PROVE  \/ slot' = slot /\ (slot # NoSlot => withdrawn' \subseteq withdrawn \cup (Previews \ {slot.preview}))
           \/ /\ slot = NoSlot /\ withdrawn' = withdrawn
              /\ slot'.preview \in Previews /\ ~Dead(slot'.preview)
<1> USE DEF local, consent, remote, ingress, output
<1>0. GithubTypeOK /\ PublisherOK
    BY TypedPublisher DEF GithubInv
<1>1. CASE slot' = slot /\ withdrawn' = withdrawn
    BY <1>1
<1>2. CASE slot' = slot /\ \E ps \in SUBSET Previews : Withdraw(ps)
    BY <1>2 DEF Withdraw
<1>3. ASSUME NEW o \in Publishers, ReserveCheck(o), slot' # slot
      PROVE  /\ slot = NoSlot /\ withdrawn' = withdrawn
             /\ slot'.preview \in Previews /\ ~Dead(slot'.preview)
  <2>1. Asks(o) \in Previews
      BY <1>0, <1>3, IdlePublisher DEF ReserveCheck, At, Asks, Calls
  <2>2. Reservable(o) /\ slot' = [preview |-> Asks(o), by |-> o] /\ withdrawn' = withdrawn
      BY <1>3 DEF ReserveCheck
  <2> QED
      BY <1>0, <2>1, <2>2, DeadIsUnreservable DEF Reservable, Unreserved
<1>4. ASSUME NEW o \in Publishers, ReserveCheck(o), slot' = slot
      PROVE  withdrawn' = withdrawn
    BY <1>4 DEF ReserveCheck
<1>5. On({Watched}) \in SUBSET Previews /\ \A b \in Bindings : On({b}) \in SUBSET Previews
    BY DEF On
<1> QED
    BY <1>1, <1>2, <1>3, <1>4, <1>5
       DEF GithubNext, githubVars, ProbeRepository, RecordBinding, OwnerLeaves, Disconnect, StorePreview,
           ApprovePreview, RevokePreviewApproval, ApprovalExpires, EndApproval, RecheckPreview,
           InspectRemote, VerifyRetained, CreateCheck, RevokeToken, RecordReceipt, Abandon,
           ReceivePush, ReceiveDenial, AccessChanges, RunCompletes, EvidenceExpires, DeleteRun

\* Every step keeps what was withdrawn unreservable.
LEMMA WithdrawalKept == GithubInv /\ [GithubNext]_githubVars => WithdrawalInv'
<1> SUFFICES ASSUME GithubInv, [GithubNext]_githubVars
             PROVE  WithdrawalInv'
    OBVIOUS
<1>1. GithubTypeOK /\ GithubTypeOK'
    BY TypesKept DEF GithubInv
<1>2. \A p \in withdrawn' : Dead(p)'
  <2> SUFFICES ASSUME NEW p \in withdrawn' PROVE Dead(p)'
      OBVIOUS
  <2>1. p \in Previews
      BY <1>1 DEF GithubTypeOK
  <2>2. CASE p \in withdrawn
      BY <1>1, <2>1, <2>2, DeadIsForGood DEF GithubInv, WithdrawalInv, Drafted
  <2> QED
      BY <2>1, <2>2, WithdrawnIsDead
<1>3. slot' # NoSlot => slot'.preview \notin withdrawn'
  <2>1. CASE slot' = slot /\ (slot # NoSlot => withdrawn' \subseteq withdrawn \cup (Previews \ {slot.preview}))
      BY <2>1 DEF GithubInv, WithdrawalInv, Drafted
  <2>2. CASE withdrawn' = withdrawn /\ ~Dead(slot'.preview)
      BY <2>2 DEF GithubInv, WithdrawalInv, Drafted
  <2> QED
      BY <2>1, <2>2, SlotIsFilledOnce
<1>4. \A p \in Previews : Drafted(p)'
    BY <1>1, DraftedKept DEF GithubInv, WithdrawalInv, Drafted
<1> QED
    BY <1>2, <1>3, <1>4 DEF WithdrawalInv, Drafted

\* The revoked binding stays revoked, and a denial is acknowledged only with it.
LEMMA DenialKept == GithubInv /\ [GithubNext]_githubVars => DenialsHold'
<1> SUFFICES ASSUME GithubInv, [GithubNext]_githubVars
             PROVE  DenialsHold'
    OBVIOUS
<1> USE DEF local, consent, remote, ingress, output, DenialsHold
<1>0. GithubTypeOK /\ DenialsHold
    BY DEF GithubInv
<1>1. CASE UNCHANGED <<binding, denied>>
    BY <1>0, <1>1
<1>2. ASSUME NEW u \in Owners, RecordBinding(u)
      PROVE  DenialsHold'
    BY <1>0, <1>2, GithubAssumption DEF RecordBinding, GithubTypeOK
<1>3. ASSUME NEW u \in Owners, NEW b \in Bindings, Disconnect(u, b)
      PROVE  DenialsHold'
    BY <1>0, <1>3, GithubAssumption DEF Disconnect, GithubTypeOK
<1>4. ASSUME NEW d \in Deliveries, NEW body \in Denials, ReceiveDenial(d, body)
      PROVE  DenialsHold'
    BY <1>0, <1>4, GithubAssumption DEF ReceiveDenial, GithubTypeOK
<1> QED
    BY <1>1, <1>2, <1>3, <1>4
       DEF GithubNext, githubVars, ProbeRepository, OwnerLeaves, StorePreview,
           ApprovePreview, RevokePreviewApproval, ApprovalExpires, EndApproval, RecheckPreview,
           InspectRemote, VerifyRetained, ReserveCheck, CreateCheck, RevokeToken, RecordReceipt, Abandon,
           ReceivePush, AccessChanges, RunCompletes, EvidenceExpires, DeleteRun

-----------------------------------------------------------------------------
(* The theorems.                                                           *)

\* However owners, bindings, previews, operators, lost answers, webhooks and deletions
\* interleave (publish_preview, reserve_publication, _revoke_binding), the inductive
\* invariant holds.
THEOREM SlotIsTheOnlyWay == GithubSpec => []GithubInv
<1>1. GithubInv /\ [GithubNext]_githubVars => GithubInv'
    BY TypesKept, SlotKept, WithdrawalKept, DenialKept DEF GithubInv
<1> QED
    BY <1>1, InitiallySafe, PTL DEF GithubSpec

\* The run has at most one check, of a preview whose approval, binding, owner and run
\* stood when its slot was reserved; it can be found again from that preview, its receipt
\* is kept only once the token is revoked, and an acknowledged removal has revoked the binding.
THEOREM PublicationSafety == GithubSpec => []PublicationIsSafe
<1>1. GithubInv => PublicationIsSafe
  <2> SUFFICES ASSUME GithubInv PROVE PublicationIsSafe
      OBVIOUS
  <2> USE DEF GithubInv
  <2>1. checks = <<>> \/ (checks = <<slot>> /\ slot # NoSlot)
      BY DEF SlotInv, Holds
  <2>2. OneCheckPerRun
    <3>1. Len(<<>>) = 0 /\ Len(<<slot>>) = 1
        OBVIOUS
    <3>2. Len(checks) = 0 \/ Len(checks) = 1
        BY <2>1, <3>1
    <3> QED
        BY <3>2 DEF OneCheckPerRun
  <2>3. WithdrawnIsNeverPublished
      BY <2>1 DEF WithdrawnIsNeverPublished, WithdrawalInv, Drafted
  <2>4. PublicationIsAccountable
    <3>1. \A i \in DOMAIN checks : RecoveredState(checks[i].preview) = "RECORDED"
        BY <2>1 DEF RecoveredState
    <3>2. ASSUME receipt # NoReceipt
          PROVE  /\ receipt.revoked /\ slot.preview = receipt.preview
                 /\ \E i \in DOMAIN checks : checks[i].preview = receipt.preview /\ checks[i].by = slot.by
      <4>1. receipt.revoked /\ receipt.preview = slot.preview /\ checks = <<slot>>
          BY <3>2 DEF SlotInv, Holds
      <4>2. 1 \in DOMAIN checks /\ checks[1] = slot
          BY <4>1
      <4> QED
          BY <4>1, <4>2
    <3> QED
        BY <3>1, <3>2 DEF PublicationIsAccountable
  <2> QED
      BY <2>2, <2>3, <2>4 DEF PublicationIsSafe
<1> QED
    BY <1>1, SlotIsTheOnlyWay, PTL

=============================================================================
