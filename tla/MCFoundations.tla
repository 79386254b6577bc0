--------------------------- MODULE MCFoundations ----------------------------
(* What every run stands on: the write limiter and the admission of runs,    *)
(* the run's reducers, the evidence sequencer, the outbox, and the review of *)
(* what the run found.  A behaviour follows one of them.                     *)
EXTENDS RunLifecycle, EvidenceSequencer, OutboxDelivery, WriteLimiter, RunAdmission,
        FindingReview, TLC

VARIABLE followed   \* the component this behaviour is about

lifecycleVars == <<run>>
vars == <<followed, lifecycleVars, sequencerVars, outboxVars, limiterVars, admissionVars,
          reviewVars>>

CONSTANTS reader, observer

\* Earlier, equal and later clock readings.
ThreeTimes == 1..3
\* Two producers, of which the reader must close.
Producers == {reader, observer}
Reader == {reader}

\* Each caller is a principal; they share the workspace's bucket, whose burst is larger.
OwnPrincipal == [c \in Calls |-> c]
Bursts == [s \in Scopes |-> IF s = Workspace THEN 3 ELSE 2]

Req(i, p, k, mf) == [id |-> i, principal |-> p, key |-> k, manifest |-> mf]

\* One principal resends a key with another body, two principals want one sealed manifest,
\* without a key or by chance under the same one; in one behaviour the second principal
\* sends one of its two requests.
Keyless == Req("r3", "p2", NoKey, "s1")
SameKey == Req("r4", "p2", "k1", "s1")
FourRequests == {Req("r1", "p1", "k1", "s1"), Req("r2", "p1", "k1", "m2"), Keyless, SameKey}
Unsent == IF followed = "same key" THEN Keyless ELSE SameKey
TwoLimits == {[concurrent |-> 1, daily |-> 2], [concurrent |-> 2, daily |-> 1]}

Init ==
  /\ followed \in {"lifecycle", "sequencer", "outbox", "limiter", "admission", "same key",
                  "review"}
  /\ LifecycleInit /\ SequencerInit /\ OutboxInit /\ LimiterInit /\ AdmissionInit /\ ReviewInit
  /\ followed \notin {"admission", "same key"} => entitlement.limits.daily = 2
  /\ followed # "review" => outcome = "FAIL"

\* Runs end, outboxes drain and requests are answered; the sequencer can always go on.
Quiet == followed # "sequencer" /\ UNCHANGED vars

Next ==
  \/ /\ followed = "lifecycle" /\ LifecycleNext
     /\ UNCHANGED <<followed, sequencerVars, outboxVars, limiterVars, admissionVars, reviewVars>>
  \/ /\ followed = "sequencer" /\ SequencerNext
     /\ UNCHANGED <<followed, lifecycleVars, outboxVars, limiterVars, admissionVars, reviewVars>>
  \/ /\ followed = "outbox" /\ OutboxNext
     /\ UNCHANGED <<followed, lifecycleVars, sequencerVars, limiterVars, admissionVars, reviewVars>>
  \/ /\ followed = "limiter" /\ LimiterNext
     /\ UNCHANGED <<followed, lifecycleVars, sequencerVars, outboxVars, admissionVars, reviewVars>>
  \/ /\ followed \in {"admission", "same key"} /\ AdmissionNext /\ tx'[Unsent] = "idle"
     /\ UNCHANGED <<followed, lifecycleVars, sequencerVars, outboxVars, limiterVars, reviewVars>>
  \/ /\ followed = "review" /\ ReviewNext
     /\ UNCHANGED <<followed, lifecycleVars, sequencerVars, outboxVars, limiterVars, admissionVars>>
  \/ Quiet

Spec == Init /\ [][Next]_vars

\* Instances, record ids, payloads, messages, publishing calls, consumers, callers and
\* reviews are interchangeable; producers are not.
Interchangeable == Permutations(Worker) \cup Permutations(Id) \cup Permutations(Publisher)
=============================================================================
