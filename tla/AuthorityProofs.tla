--------------------------- MODULE AuthorityProofs ---------------------------
(***************************************************************************)
(* Proofs about the authority everything else acts under: who may act in a *)
(* workspace, what a sealed execution rests on, and which model calls a    *)
(* person's consent pays for.                                              *)
(***************************************************************************)
EXTENDS WorkspaceAccess, ExecutionSeal, ModelDelivery, FiniteSetTheorems, TLAPS

-----------------------------------------------------------------------------
(* Seals, approvals and startup consents.                                  *)

\* A transaction in flight names a seal, an opening and a startup the session they are for.
WorkersNamed ==
  \A w \in Workers :
    /\ worker[w].stage = "idle" => worker[w] = IdleWorker
    /\ worker[w].stage # "idle" => worker[w].seal \in Seals
    /\ worker[w].stage \in {"open", "startup"} => worker[w].reader \in Readers

\* assert_authorized's FOR UPDATE: a seal's row has one holder.
OneHolder ==
  \A v, w \in Workers :
    worker[v].stage # "idle" /\ worker[v].seal = worker[w].seal => v = w

\* What was checked under the seal's lock still stands when the act commits, except what
\* only the clock and the unlocked writers change.
CheckStands ==
  \A w \in Workers :
    LET s == worker[w].seal IN
    /\ worker[w].stage # "idle" =>
          /\ Admitted(s) /\ seal[s].kind = "canonical"
          /\ Granted(approval[s]) /\ ~approval[s].revoked
    /\ worker[w].stage = "dispatch" => sealedRun[s] = "waiting"
    /\ worker[w].stage = "open" => sealedRun[s] = "running" /\ session[s] = None
    /\ worker[w].stage \in {"call", "intent", "startup"} => acted[s]["open"] = 1
    /\ worker[w].stage = "startup" =>
          /\ acted[s]["intent"] = 0
          /\ ~consent[s].revoked /\ consent[s].reader \in {None, worker[w].reader}

\* How far the one attempt of a sealed run has come shows in its acts: dispatched when it runs,
\* a session opened from its ticket when there was one, calls, intents and startups after that.
InOrder(s) ==
  LET a == acted[s] IN
  /\ sealedRun[s] \in {"none", "waiting"} => a["dispatch"] = 0 /\ session[s] = None
  /\ sealedRun[s] = "running" => a["dispatch"] = 1
  /\ session[s] = None => a["open"] = 0
  /\ session[s] \in Readers => a["open"] = 1
  /\ a["open"] <= a["dispatch"] /\ a["dispatch"] <= 1
  /\ a["call"] + a["intent"] > 0 \/ started[s] # {} => a["open"] = 1
AttemptInOrder == \A s \in Seals : InOrder(s)

\* A consent is bound to the only session whose reader it started.
StartedIsBound == \A s \in Seals : started[s] \subseteq {consent[s].reader}

\* A canonical seal names recorded inputs, whatever is superseded or expires later.
CanonicalIsRecorded ==
  \A s \in Seals :
    seal[s].kind = "canonical" =>
      /\ seal[s].build \in Builds /\ inputs.builds[seal[s].build] = "observed"
      /\ seal[s].journey \in Journeys /\ inputs.journeys[seal[s].journey] # "none"

\* Acts and startups leave a trace in the rows they rested on.
ActsAreTraced ==
  \A s \in Seals :
    (\E k \in Kinds : acted[s][k] > 0) \/ started[s] # {} =>
      seal[s].kind = "canonical" /\ Granted(approval[s]) /\ sealedRun[s] # "none"

SealInv ==
  /\ SealTypeOK /\ WorkersNamed /\ OneHolder /\ CheckStands /\ AttemptInOrder
  /\ StartedIsBound /\ CanonicalIsRecorded /\ ActsAreTraced

LEMMA SealInitially == SealInit => SealInv
<1> SUFFICES ASSUME SealInit PROVE SealInv
  OBVIOUS
<1>1. SealTypeOK
  <2>1. standing \in [Staff -> [role : ROLES, revoked : BOOLEAN]]
    BY DEF SealInit
  <2>2. inputs \in [builds : [Builds -> {"none", "observed", "unobservable"}],
                    envs : [Envs -> {"none", "usable", "superseded", "expired"}],
                    journeys : [Journeys -> {"none", "first"} \cup Journeys]]
    BY DEF SealInit
  <2>3. MaxActs \in Nat
    BY SealAssumption
  <2> QED
    BY <2>1, <2>2, <2>3 DEF SealInit, SealTypeOK, NoSeal, Ungranted, NoConsent, IdleWorker
<1>2. WorkersNamed /\ OneHolder /\ CheckStands
  BY DEF SealInit, WorkersNamed, OneHolder, CheckStands, IdleWorker
<1>4. AttemptInOrder
  BY SealAssumption DEF SealInit, AttemptInOrder, InOrder, Kinds
<1>3. StartedIsBound /\ CanonicalIsRecorded /\ ActsAreTraced
  BY DEF SealInit, StartedIsBound, CanonicalIsRecorded, ActsAreTraced, NoSeal
<1> QED
  BY <1>1, <1>2, <1>3, <1>4 DEF SealInv


\* Recording inputs and changing roles touches neither seals nor decisions, and never
\* makes a recorded input unrecorded.
LEMMA InputKeeps ==
    ASSUME SealInv, InputStep
    PROVE  SealInv'
<1> USE DEF SealInv
<1>1. UNCHANGED <<seal, sealedRun, session, approval, consent, worker, acted, started>>
  BY DEF InputStep, RegisterBuild, RegisterEnvironment, SupersedeEnvironment, ExpireEnvironment,
     FreezeVersion, ChangeStanding, Recorded, Clock
<1> DEFINE Build == {"none", "observed", "unobservable"}
           Env == {"none", "usable", "superseded", "expired"}
           Journey == {"none", "first"} \cup Journeys
<1>2. /\ standing' \in [Staff -> [role : ROLES, revoked : BOOLEAN]]
      /\ inputs' \in [builds : [Builds -> Build], envs : [Envs -> Env],
                      journeys : [Journeys -> Journey]]
      /\ \A b \in Builds : inputs.builds[b] # "none" => inputs'.builds[b] = inputs.builds[b]
      /\ \A j \in Journeys : inputs.journeys[j] # "none" => inputs'.journeys[j] # "none"
  <2>1. PICK bs \in [Builds -> Build], es \in [Envs -> Env], js \in [Journeys -> Journey] :
          inputs = [builds |-> bs, envs |-> es, journeys |-> js]
    BY DEF SealTypeOK
  <2>2. ASSUME NEW b \in [Builds -> Build], NEW f \in [Envs -> Env],
               NEW g \in [Journeys -> Journey], UNCHANGED standing,
               inputs' = [builds |-> b, envs |-> f, journeys |-> g],
               \A x \in Builds : bs[x] # "none" => b[x] = bs[x],
               \A x \in Journeys : js[x] # "none" => g[x] # "none"
        PROVE  <1>2!:
    BY <2>1, <2>2 DEF SealTypeOK
  <2>3. ASSUME NEW b \in Builds, NEW i \in {"observed", "unobservable"}, RegisterBuild(b, i)
        PROVE  <1>2!:
    <3>1. inputs' = [builds |-> [bs EXCEPT ![b] = i], envs |-> es, journeys |-> js]
      BY <2>1, <2>3 DEF RegisterBuild
    <3>2. bs[b] = "none" /\ UNCHANGED standing
      BY <2>1, <2>3 DEF RegisterBuild, Recorded
    <3> QED
      BY <2>2, <3>1, <3>2
  <2>4. CASE \E e \in Envs : RegisterEnvironment(e)
    <3>1. PICK e \in Envs : RegisterEnvironment(e)
      BY <2>4
    <3>2. inputs' = [builds |-> bs, envs |-> [es EXCEPT ![e] = "usable"], journeys |-> js]
      BY <2>1, <3>1 DEF RegisterEnvironment, NewEnvironment
    <3> QED
      BY <2>2, <3>1, <3>2 DEF RegisterEnvironment, Recorded
  <2>5. CASE \E e \in Envs : ExpireEnvironment(e)
    <3>1. PICK e \in Envs : ExpireEnvironment(e)
      BY <2>5
    <3>2. inputs' = [builds |-> bs, envs |-> [es EXCEPT ![e] = "expired"], journeys |-> js]
      BY <2>1, <3>1 DEF ExpireEnvironment
    <3> QED
      BY <2>2, <3>1, <3>2 DEF ExpireEnvironment, Clock
  <2>6. CASE \E e, old \in Envs : SupersedeEnvironment(old, e)
    <3>1. PICK e \in Envs, old \in Envs : SupersedeEnvironment(old, e)
      BY <2>6
    <3>2. NewEnvironment(e) = [builds |-> bs, envs |-> [es EXCEPT ![e] = "usable"],
                               journeys |-> js]
      BY <2>1 DEF NewEnvironment
    <3>3. inputs' = [builds |-> bs, journeys |-> js,
                     envs |-> [[es EXCEPT ![e] = "usable"] EXCEPT ![old] = "superseded"]]
      BY <3>1, <3>2 DEF SupersedeEnvironment
    <3>4. [[es EXCEPT ![e] = "usable"] EXCEPT ![old] = "superseded"] \in [Envs -> Env]
      OBVIOUS
    <3>5. UNCHANGED standing
      BY <3>1 DEF SupersedeEnvironment, Recorded
    <3> QED
      BY <2>2, <3>3, <3>4, <3>5
  <2>7. ASSUME NEW j \in Journeys, NEW p \in Journeys \cup {"first"}, FreezeVersion(j, p)
        PROVE  <1>2!:
    <3>1. inputs' = [builds |-> bs, envs |-> es, journeys |-> [js EXCEPT ![j] = p]]
      BY <2>1, <2>7 DEF FreezeVersion
    <3>2. p # "none" /\ UNCHANGED standing
      BY <2>7, SealAssumption DEF FreezeVersion, Recorded
    <3> QED
      BY <2>2, <3>1, <3>2
  <2>8. CASE \E u \in Staff, new \in [role : ROLES, revoked : BOOLEAN] : ChangeStanding(u, new)
    BY <2>8 DEF SealTypeOK, ChangeStanding
  <2> QED
    BY <2>3, <2>4, <2>5, <2>6, <2>7, <2>8 DEF InputStep
<1>3. SealTypeOK'
  BY <1>1, <1>2 DEF SealTypeOK
<1>4. CanonicalIsRecorded'
  BY <1>1, <1>2 DEF CanonicalIsRecorded
<1> QED
  BY <1>1, <1>3, <1>4 DEF WorkersNamed, OneHolder, CheckStands, Admitted, AttemptInOrder, InOrder,
     StartedIsBound, ActsAreTraced, Granted

\* Decisions, requests and the clock: none of them moves what a transaction in flight
\* has checked, because it holds the seal's row.
LEMMA SealStepKeeps ==
    ASSUME SealInv, NEW s \in Seals, SealStep(s)
    PROVE  SealInv'
<1> USE DEF SealInv
<1>1. CASE \E k \in {"fingerprint", "canonical"}, e \in Envs, b \in Builds, j \in Journeys :
             SealManifest(s, k, e, b, j)
  <2>1. PICK k \in {"fingerprint", "canonical"}, e \in Envs, b \in Builds, j \in Journeys :
          SealManifest(s, k, e, b, j)
    BY <1>1
  <2>2. /\ seal[s] = NoSeal
        /\ seal' = [seal EXCEPT ![s] = [kind |-> k, env |-> e, build |-> b, journey |-> j,
                                        expired |-> FALSE]]
        /\ k = "canonical" => inputs.builds[b] = "observed" /\ inputs.journeys[j] # "none"
        /\ UNCHANGED <<standing, inputs, sealedRun, session, approval, consent, worker, acted,
                       started>>
    BY <2>1 DEF SealManifest
  <2>3. SealTypeOK'
    BY <2>2 DEF SealTypeOK
  <2>4. CanonicalIsRecorded'
    BY <2>2 DEF SealTypeOK, CanonicalIsRecorded
  <2>5. seal[s].kind # "canonical"
    BY <2>2 DEF NoSeal
  <2>6. \A q \in Seals : seal[q].kind = "canonical" => seal'[q].kind = "canonical"
    BY <2>2, <2>5 DEF SealTypeOK
  <2>7. CheckStands'
    BY <2>2, <2>6 DEF CheckStands, Admitted, WorkersNamed, Granted
  <2> QED
    BY <2>2, <2>3, <2>4, <2>6, <2>7
       DEF WorkersNamed, OneHolder, AttemptInOrder, InOrder, StartedIsBound, ActsAreTraced, Granted
<1>2. ASSUME UNCHANGED <<standing, inputs, worker, acted, started, sealedRun, session>>,
             approval' \in [Seals -> [by : Staff \cup {None}, revoked : BOOLEAN,
                                      expired : BOOLEAN]],
             consent' \in [Seals -> [by : Staff \cup {None}, revoked : BOOLEAN,
                                     expired : BOOLEAN, reader : Readers \cup {None}]],
             seal' \in [Seals -> [kind : {"none", "fingerprint", "canonical"},
                                  env : Envs \cup {None}, build : Builds \cup {None},
                                  journey : Journeys \cup {None}, expired : BOOLEAN]],
             \A q \in Seals : /\ seal'[q].kind = seal[q].kind
                              /\ seal'[q].build = seal[q].build
                              /\ seal'[q].journey = seal[q].journey
                              /\ consent'[q].reader = consent[q].reader
                              /\ Granted(approval[q]) => approval'[q].by = approval[q].by,
             ~SealLocked(s) \/ approval'[s].revoked = approval[s].revoked,
             ~ConsentLocked(s) \/ consent'[s].revoked = consent[s].revoked,
             \A q \in Seals \ {s} : /\ approval'[q] = approval[q]
                                    /\ consent'[q] = consent[q]
      PROVE  SealInv'
  <2>1. SealTypeOK' /\ CanonicalIsRecorded'
    BY <1>2 DEF SealTypeOK, CanonicalIsRecorded
  <2>2. CheckStands'
    BY <1>2 DEF CheckStands, Admitted, WorkersNamed, SealLocked, ConsentLocked, Granted
  <2>3. StartedIsBound'
    BY <1>2 DEF StartedIsBound
  <2>4. ActsAreTraced'
    <3>1. ASSUME NEW q \in Seals  PROVE Granted(approval[q]) => Granted(approval'[q])
      BY <1>2 DEF Granted
    <3> QED
      BY <1>2, <3>1 DEF ActsAreTraced
  <2> QED
    BY <1>2, <2>1, <2>2, <2>3, <2>4 DEF WorkersNamed, OneHolder, AttemptInOrder, InOrder
<1>3. ASSUME NEW c \in [by : Staff \cup {None}, revoked : BOOLEAN, expired : BOOLEAN,
                        reader : Readers \cup {None}],
             consent' = [consent EXCEPT ![s] = c], c.reader = consent[s].reader,
             ~ConsentLocked(s) \/ c.revoked = consent[s].revoked,
             UNCHANGED <<standing, inputs, seal, sealedRun, session, approval, worker, acted,
                         started>>
      PROVE  SealInv'
  BY <1>2, <1>3 DEF SealTypeOK
<1>4. ASSUME NEW a \in [by : Staff \cup {None}, revoked : BOOLEAN, expired : BOOLEAN],
             approval' = [approval EXCEPT ![s] = a], Granted(approval[s]) => a.by = approval[s].by,
             ~SealLocked(s) \/ a.revoked = approval[s].revoked,
             UNCHANGED <<standing, inputs, seal, sealedRun, session, consent, worker, acted,
                         started>>
      PROVE  SealInv'
  BY <1>2, <1>4 DEF SealTypeOK
<1> DEFINE c == consent[s]
           a == approval[s]
<1>5. CASE \/ ExpireConsent(s)
           \/ \E u \in Staff : IssueConsent(s, u) \/ RevokeConsent(s, u)
  <2>1. c \in [by : Staff \cup {None}, revoked : BOOLEAN, expired : BOOLEAN,
               reader : Readers \cup {None}]
    BY DEF SealTypeOK
  <2>2. CASE ExpireConsent(s)
    <3>1. consent' = [consent EXCEPT ![s] = [c EXCEPT !.expired = TRUE]]
      BY <2>2 DEF ExpireConsent
    <3> QED
      BY <1>3, <2>1, <2>2, <3>1 DEF ExpireConsent, Clock
  <2>3. ASSUME NEW u \in Staff, IssueConsent(s, u)
        PROVE  SealInv'
    <3>1. consent' = [consent EXCEPT ![s] = [c EXCEPT !.by = u]]
      BY <2>3 DEF IssueConsent
    <3> QED
      BY <1>3, <2>1, <2>3, <3>1 DEF IssueConsent
  <2>4. ASSUME NEW u \in Staff, RevokeConsent(s, u)
        PROVE  SealInv'
    <3>1. consent' = [consent EXCEPT ![s] = [c EXCEPT !.revoked = TRUE]]
      BY <2>4 DEF RevokeConsent
    <3> QED
      BY <1>3, <2>1, <2>4, <3>1 DEF RevokeConsent
  <2> QED
    BY <1>5, <2>2, <2>3, <2>4
<1>6. CASE \/ ExpireApproval(s)
           \/ \E u \in Staff : Approve(s, u) \/ RevokeApproval(s, u)
  <2>1. a \in [by : Staff \cup {None}, revoked : BOOLEAN, expired : BOOLEAN]
    BY DEF SealTypeOK
  <2>2. CASE ExpireApproval(s)
    <3>1. approval' = [approval EXCEPT ![s] = [a EXCEPT !.expired = TRUE]]
      BY <2>2 DEF ExpireApproval
    <3> QED
      BY <1>4, <2>1, <2>2, <3>1 DEF ExpireApproval, Clock
  <2>3. ASSUME NEW u \in Staff, Approve(s, u)
        PROVE  SealInv'
    <3>1. approval' = [approval EXCEPT ![s] = [a EXCEPT !.by = u]]
      BY <2>3 DEF Approve
    <3> QED
      BY <1>4, <2>1, <2>3, <3>1 DEF Approve
  <2>4. ASSUME NEW u \in Staff, RevokeApproval(s, u)
        PROVE  SealInv'
    <3>1. approval' = [approval EXCEPT ![s] = [a EXCEPT !.revoked = TRUE]]
      BY <2>4 DEF RevokeApproval
    <3> QED
      BY <1>4, <2>1, <2>4, <3>1 DEF RevokeApproval
  <2> QED
    BY <1>6, <2>2, <2>3, <2>4
<1>7. CASE ExpireSeal(s)
  <2>1. seal' = [seal EXCEPT ![s] = [seal[s] EXCEPT !.expired = TRUE]]
    BY <1>7 DEF ExpireSeal
  <2>2. seal[s] \in [kind : {"none", "fingerprint", "canonical"}, env : Envs \cup {None},
                     build : Builds \cup {None}, journey : Journeys \cup {None},
                     expired : BOOLEAN]
    BY DEF SealTypeOK
  <2>3. seal' \in [Seals -> [kind : {"none", "fingerprint", "canonical"},
                             env : Envs \cup {None}, build : Builds \cup {None},
                             journey : Journeys \cup {None}, expired : BOOLEAN]]
    BY <2>1, <2>2 DEF SealTypeOK
  <2>4. \A q \in Seals : /\ seal'[q].kind = seal[q].kind
                         /\ seal'[q].build = seal[q].build
                         /\ seal'[q].journey = seal[q].journey
    BY <2>1, <2>2 DEF SealTypeOK
  <2>5. UNCHANGED <<standing, inputs, worker, acted, started, sealedRun, session, approval,
                    consent>>
    BY <1>7 DEF ExpireSeal, Clock
  <2> QED
    BY <1>2, <2>3, <2>4, <2>5 DEF SealTypeOK
<1>8. CASE LapseSession(s)
  <2>1. /\ session[s] \in Readers /\ session' = [session EXCEPT ![s] = "lapsed"]
        /\ UNCHANGED <<standing, inputs, seal, sealedRun, approval, consent, worker, acted,
                       started>>
    BY <1>8 DEF LapseSession, Clock
  <2>2. \A q \in Seals : /\ session'[q] = None <=> session[q] = None
                         /\ session'[q] \in Readers => session[q] \in Readers
    BY <2>1, SealAssumption DEF SealTypeOK
  <2>3. SealTypeOK' /\ AttemptInOrder'
    BY <2>1, <2>2 DEF SealTypeOK, AttemptInOrder, InOrder
  <2>4. CheckStands'
    BY <2>1, <2>2 DEF CheckStands, Admitted, WorkersNamed, Granted
  <2> QED
    BY <2>1, <2>3, <2>4 DEF WorkersNamed, OneHolder, StartedIsBound, CanonicalIsRecorded,
       ActsAreTraced, Granted
<1>9. CASE RequestRun(s)
  <2>1. /\ sealedRun[s] = "none" /\ sealedRun' = [sealedRun EXCEPT ![s] = "waiting"]
        /\ UNCHANGED <<standing, inputs, seal, session, approval, consent, worker, acted, started>>
    BY <1>9 DEF RequestRun
  <2>2. /\ \A q \in Seals : sealedRun[q] # "none" => sealedRun'[q] = sealedRun[q]
        /\ sealedRun' \in [Seals -> {"none", "waiting", "running", "over"}]
        /\ sealedRun'[s] = "waiting"
    BY <2>1 DEF SealTypeOK
  <2>3. SealTypeOK' /\ AttemptInOrder'
    BY <2>1, <2>2 DEF SealTypeOK, AttemptInOrder, InOrder
  <2>4. CheckStands'
    BY <2>1, <2>2 DEF CheckStands, Admitted, WorkersNamed, Granted
  <2> QED
    BY <2>1, <2>2, <2>3, <2>4 DEF WorkersNamed, OneHolder, StartedIsBound, CanonicalIsRecorded,
       ActsAreTraced, Granted
<1>10. CASE EndRun(s)
  <2>1. /\ ~SealLocked(s) /\ sealedRun' = [sealedRun EXCEPT ![s] = "over"]
        /\ session' = [session EXCEPT ![s] = "lapsed"]
        /\ UNCHANGED <<standing, inputs, seal, approval, consent, worker, acted, started>>
    BY <1>10 DEF EndRun
  <2>2. /\ sealedRun'[s] = "over" /\ session'[s] = "lapsed"
        /\ \A q \in Seals \ {s} : sealedRun'[q] = sealedRun[q] /\ session'[q] = session[q]
    BY <2>1 DEF SealTypeOK
  <2>3. SealTypeOK'
    BY <2>1 DEF SealTypeOK
  <2>4. AttemptInOrder'
    BY <2>1, <2>2, SealAssumption DEF AttemptInOrder, InOrder
  <2>5. CheckStands'
    BY <2>1, <2>2 DEF CheckStands, Admitted, WorkersNamed, SealLocked, Granted
  <2>6. ActsAreTraced'
    BY <2>1, <2>2 DEF ActsAreTraced, Granted
  <2> QED
    BY <2>1, <2>3, <2>4, <2>5, <2>6 DEF WorkersNamed, OneHolder, StartedIsBound,
       CanonicalIsRecorded
<1> QED
  BY <1>1, <1>5, <1>6, <1>7, <1>8, <1>9, <1>10 DEF SealStep

\* A transaction's own steps: it takes the row's lock with the recheck, and commits or
\* rolls back at once with releasing it.
LEMMA WorkerStepKeeps ==
    ASSUME SealInv, NEW w \in Workers, WorkerStep(w)
    PROVE  SealInv'
<1> USE DEF SealInv
<1> DEFINE s == worker[w].seal
           x == worker[w].reader
<1>1. ASSUME NEW q \in Seals, NEW stage \in Kinds \cup {"startup"},
             NEW y \in Readers \cup {None},
             worker[w] = IdleWorker, ~SealLocked(q), Authorized(q),
             worker' = [worker EXCEPT ![w] = [stage |-> stage, seal |-> q, reader |-> y]],
             stage \in {"open", "startup"} => y \in Readers,
             stage = "dispatch" => sealedRun[q] = "waiting",
             stage = "open" => sealedRun[q] = "running" /\ session[q] = None,
             stage \in {"call", "intent", "startup"} => session[q] \in Readers,
             stage = "startup" => /\ acted[q]["intent"] = 0 /\ ~consent[q].revoked
                                  /\ consent[q].reader \in {None, y},
             UNCHANGED <<standing, inputs, seal, sealedRun, session, approval, consent, acted,
                         started>>
      PROVE  SealInv'
  <2>1. SealTypeOK' /\ WorkersNamed'
    BY <1>1 DEF SealTypeOK, WorkersNamed, Kinds
  <2>2. \A v \in Workers : worker[v].seal # q
    BY <1>1 DEF SealLocked
  <2>3. OneHolder'
    BY <1>1, <2>2 DEF SealTypeOK, OneHolder
  <2>4. /\ worker'[w] = [stage |-> stage, seal |-> q, reader |-> y]
        /\ \A v \in Workers \ {w} : worker'[v] = worker[v]
    BY <1>1 DEF SealTypeOK
  <2>5. stage \in {"call", "intent", "startup"} => acted[q]["open"] = 1
    BY <1>1 DEF AttemptInOrder, InOrder
  <2>6. CheckStands'
    BY <1>1, <2>4, <2>5 DEF CheckStands, Admitted, Authorized, Current, Granted
  <2> QED
    BY <1>1, <2>1, <2>3, <2>6 DEF AttemptInOrder, InOrder, StartedIsBound, CanonicalIsRecorded,
       ActsAreTraced, Granted
<1>2. ASSUME worker' = [worker EXCEPT ![w] = IdleWorker],
             UNCHANGED <<seal, approval>>,
             \A v \in Workers \ {w} : worker[v].stage # "idle" =>
                LET q == worker[v].seal IN
                /\ consent'[q] = consent[q] /\ sealedRun'[q] = sealedRun[q]
                /\ session'[q] = session[q] /\ acted'[q] = acted[q]
      PROVE  WorkersNamed' /\ OneHolder' /\ CheckStands'
  <2>1. WorkersNamed'
    BY <1>2 DEF SealTypeOK, WorkersNamed, IdleWorker
  <2>2. OneHolder'
    BY <1>2, SealAssumption DEF SealTypeOK, OneHolder, WorkersNamed, IdleWorker
  <2>3. worker'[w] = IdleWorker /\ \A v \in Workers \ {w} : worker'[v] = worker[v]
    BY <1>2 DEF SealTypeOK
  <2>4. CheckStands'
    BY <1>2, <2>3 DEF CheckStands, Admitted, IdleWorker, Granted
  <2> QED
    BY <2>1, <2>2, <2>4
<1>3. CASE \E q \in Seals, k \in Kinds, y \in Readers \cup {None} : Check(w, q, k, y)
  <2>1. PICK q \in Seals, k \in Kinds, y \in Readers \cup {None} : Check(w, q, k, y)
    BY <1>3
  <2>2. /\ worker[w] = IdleWorker /\ ~SealLocked(q) /\ Authorized(q)
        /\ worker' = [worker EXCEPT ![w] = [stage |-> k, seal |-> q, reader |-> y]]
        /\ UNCHANGED <<standing, inputs, seal, sealedRun, session, approval, consent, acted,
                       started>>
    BY <2>1 DEF Check
  <2>3. /\ k = "open" => y \in Readers /\ sealedRun[q] = "running" /\ session[q] = None
        /\ k = "dispatch" => sealedRun[q] = "waiting"
        /\ k \in {"call", "intent"} => session[q] \in Readers
        /\ k # "startup"
    BY <2>1 DEF Check, Ready, InSession, Kinds
  <2> QED
    BY <1>1, <2>2, <2>3
<1>4. CASE \E q \in Seals, y \in Readers : CheckStartup(w, q, y)
  <2>1. PICK q \in Seals, y \in Readers : CheckStartup(w, q, y)
    BY <1>4
  <2>2. /\ worker[w] = IdleWorker /\ ~SealLocked(q) /\ Authorized(q)
        /\ session[q] \in Readers /\ acted[q]["intent"] = 0
        /\ ~consent[q].revoked /\ consent[q].reader \in {None, y}
        /\ worker' = [worker EXCEPT ![w] = [stage |-> "startup", seal |-> q, reader |-> y]]
        /\ UNCHANGED <<standing, inputs, seal, sealedRun, session, approval, consent, acted,
                       started>>
    BY <2>1 DEF CheckStartup, ConsentFits, InSession
  <2>3. PICK stage \in Kinds \cup {"startup"} : stage = "startup"
    OBVIOUS
  <2>4. worker' = [worker EXCEPT ![w] = [stage |-> stage, seal |-> q, reader |-> y]]
    BY <2>2, <2>3
  <2>5. stage # "dispatch" /\ stage # "open"
    BY <2>3
  <2> QED
    BY <1>1, <2>2, <2>4, <2>5
<1>5. CASE RollBack(w)
  BY <1>2, <1>5 DEF RollBack, SealTypeOK, IdleWorker, AttemptInOrder, InOrder, StartedIsBound,
     CanonicalIsRecorded, ActsAreTraced, Granted
<1>6. CASE Act(w)
  <2> DEFINE k == worker[w].stage
             n == [acted[s] EXCEPT ![k] = @ + 1]
  <2>1. /\ s \in Seals /\ k \in Kinds /\ k # "idle" /\ k # "startup"
        /\ seal[s].kind = "canonical" /\ Granted(approval[s]) /\ Admitted(s)
        /\ k = "dispatch" => sealedRun[s] = "waiting"
        /\ k = "open" => sealedRun[s] = "running" /\ session[s] = None /\ x \in Readers
        /\ k \in {"call", "intent"} => acted[s]["open"] = 1
    BY <1>6 DEF Act, CheckStands, WorkersNamed, Kinds
  <2>2. /\ acted[s] \in [Kinds -> Nat] /\ acted' = [acted EXCEPT ![s] = n]
        /\ sealedRun' = [sealedRun EXCEPT ![s] = IF k = "dispatch" THEN "running" ELSE @]
        /\ session' = [session EXCEPT ![s] = IF k = "open" THEN x ELSE @]
        /\ worker' = [worker EXCEPT ![w] = IdleWorker]
        /\ UNCHANGED <<standing, inputs, seal, approval, consent, started>>
    BY <1>6, <2>1 DEF Act, SealTypeOK
  <2>3. /\ n \in [Kinds -> Nat] /\ n[k] = acted[s][k] + 1
        /\ \A h \in Kinds \ {k} : n[h] = acted[s][h]
    BY <2>1, <2>2
  <2>4. /\ acted'[s] = n
        /\ sealedRun'[s] = IF k = "dispatch" THEN "running" ELSE sealedRun[s]
        /\ session'[s] = IF k = "open" THEN x ELSE session[s]
        /\ \A q \in Seals \ {s} : /\ acted'[q] = acted[q] /\ sealedRun'[q] = sealedRun[q]
                                   /\ session'[q] = session[q]
    <3> HIDE DEF s, n, k, x
    <3> QED
      BY <2>1, <2>2 DEF SealTypeOK
  <2>5. SealTypeOK'
    <3>1. acted' \in [Seals -> [Kinds -> Nat]]
      <4> HIDE DEF s, n, k, x
      <4> QED
        BY <2>1, <2>2, <2>3 DEF SealTypeOK
    <3>2. /\ session' \in [Seals -> Readers \cup {None, "lapsed"}]
          /\ sealedRun' \in [Seals -> {"none", "waiting", "running", "over"}]
      <4> HIDE DEF s, n, k, x
      <4> QED
        BY <2>1, <2>2, <2>4 DEF SealTypeOK
    <3>3. worker' \in [Workers -> [stage : {"idle", "startup"} \cup Kinds,
                                   seal : Seals \cup {None}, reader : Readers \cup {None}]]
      BY <2>2 DEF SealTypeOK, IdleWorker
    <3> QED
      BY <2>2, <3>1, <3>2, <3>3 DEF SealTypeOK
  <2>6. ActsAreTraced'
    BY <2>1, <2>2, <2>4 DEF ActsAreTraced, Granted, Admitted
  <2>7. AttemptInOrder'
    <3>1. \A h \in Kinds : acted[s][h] \in Nat
      BY <2>2
    <3> HIDE DEF s, n, k, x
    <3>2. PICK r \in Seals : r = s
      BY <2>1
    <3>3. ASSUME NEW q \in Seals \ {r} PROVE InOrder(q)'
      BY <2>2, <2>4, <3>2, <3>3 DEF AttemptInOrder, InOrder
    <3>4. InOrder(r)'
      <4>1. InOrder(r)
        BY DEF AttemptInOrder
      <4>2. /\ acted'[r] = n /\ session'[r] = IF k = "open" THEN x ELSE session[r]
            /\ sealedRun'[r] = IF k = "dispatch" THEN "running" ELSE sealedRun[r]
            /\ started'[r] = started[r]
        BY <2>2, <2>4, <3>2
      <4>3. CASE k = "dispatch"
        BY <2>1, <2>3, <3>1, <3>2, <4>1, <4>2, <4>3 DEF Kinds, InOrder
      <4>4. CASE k = "open"
        BY <2>1, <2>3, <3>1, <3>2, <4>1, <4>2, <4>4, SealAssumption DEF Kinds, InOrder
      <4>5. CASE k \in {"build", "call", "intent"}
        BY <2>1, <2>3, <3>1, <3>2, <4>1, <4>2, <4>5 DEF Kinds, InOrder
      <4> QED
        BY <2>1, <4>3, <4>4, <4>5 DEF Kinds
    <3> QED
      BY <3>3, <3>4 DEF AttemptInOrder
  <2>8. \A v \in Workers \ {w} : worker[v].stage # "idle" => worker[v].seal # s
    BY <2>1 DEF OneHolder
  <2>9. WorkersNamed' /\ OneHolder' /\ CheckStands'
    <3> HIDE DEF s, n, k, x
    <3> QED
      BY <1>2, <2>2, <2>4, <2>8 DEF WorkersNamed
  <2> QED
    BY <2>2, <2>5, <2>6, <2>7, <2>9 DEF StartedIsBound, CanonicalIsRecorded
<1>7. CASE Start(w)
  <2>1. /\ s \in Seals /\ x \in Readers
        /\ seal[s].kind = "canonical" /\ Granted(approval[s]) /\ sealedRun[s] # "none"
        /\ consent[s].reader \in {None, x} /\ acted[s]["open"] = 1
    BY <1>7 DEF Start, CheckStands, Admitted, WorkersNamed
  <2>2. /\ consent' = [consent EXCEPT ![s].reader = x]
        /\ started' = [started EXCEPT ![s] = @ \cup {x}]
        /\ worker' = [worker EXCEPT ![w] = IdleWorker]
        /\ UNCHANGED <<standing, inputs, seal, sealedRun, session, approval, acted>>
        /\ worker[w].stage = "startup"
    BY <1>7 DEF Start
  <2>3. SealTypeOK'
    <3>1. consent' \in [Seals -> [by : Staff \cup {None}, revoked : BOOLEAN,
                                  expired : BOOLEAN, reader : Readers \cup {None}]]
      <4>1. [consent[s] EXCEPT !.reader = x] \in [by : Staff \cup {None}, revoked : BOOLEAN,
                                                  expired : BOOLEAN, reader : Readers \cup {None}]
        <5>1. consent[s] \in [by : Staff \cup {None}, revoked : BOOLEAN,
                              expired : BOOLEAN, reader : Readers \cup {None}]
          BY <2>1 DEF SealTypeOK
        <5> HIDE DEF s, x
        <5> QED
          BY <2>1, <5>1
      <4>2. consent' = [consent EXCEPT ![s] = [consent[s] EXCEPT !.reader = x]]
        BY <2>2
      <4> QED
        BY <4>1, <4>2 DEF SealTypeOK
    <3>2. started' \in [Seals -> SUBSET Readers]
      BY <2>1, <2>2 DEF SealTypeOK
    <3>3. worker' \in [Workers -> [stage : {"idle", "startup"} \cup Kinds,
                                   seal : Seals \cup {None}, reader : Readers \cup {None}]]
      BY <2>2 DEF SealTypeOK, IdleWorker
    <3> QED
      BY <2>2, <3>1, <3>2, <3>3 DEF SealTypeOK
  <2>4. StartedIsBound'
    <3>1. ASSUME NEW y \in started[s] PROVE y = x
      <4>1. y = consent[s].reader /\ y \in Readers
        BY <2>1 DEF SealTypeOK, StartedIsBound
      <4> QED
        BY <2>1, <4>1, SealAssumption
    <3> QED
      BY <2>1, <2>2, <3>1 DEF SealTypeOK, StartedIsBound
  <2>5. ActsAreTraced'
    BY <2>1, <2>2 DEF SealTypeOK, ActsAreTraced, Granted
  <2>6. \A v \in Workers \ {w} : worker[v].stage # "idle" =>
           consent'[worker[v].seal] = consent[worker[v].seal]
    BY <2>1, <2>2 DEF SealTypeOK, OneHolder, WorkersNamed
  <2>7. AttemptInOrder'
    BY <2>1, <2>2 DEF SealTypeOK, AttemptInOrder, InOrder
  <2> QED
    BY <1>2, <2>2, <2>3, <2>4, <2>5, <2>6, <2>7 DEF CanonicalIsRecorded
<1> QED
  BY <1>3, <1>4, <1>5, <1>6, <1>7 DEF WorkerStep

LEMMA SealInvariance == SealSpec => []SealInv
<1>1. SealInv /\ [SealNext]_sealVars => SealInv'
  <2> SUFFICES ASSUME SealInv, [SealNext]_sealVars PROVE SealInv'
    OBVIOUS
  <2>1. CASE UNCHANGED sealVars
    BY <2>1 DEF sealVars, SealInv, SealTypeOK, WorkersNamed, OneHolder, CheckStands, Admitted,
       AttemptInOrder, InOrder, StartedIsBound, CanonicalIsRecorded, ActsAreTraced, Granted
  <2> QED
    BY <2>1, InputKeeps, SealStepKeeps, WorkerStepKeeps DEF SealNext
<1> QED
  BY <1>1, SealInitially, PTL DEF SealSpec

\* Execution rests on what was sealed and consented to: nothing commits under a revoked
\* approval or consent, a run is dispatched once and one session opened for it, one consent
\* starts the reader of one session and never after the run's first intent, and acts rest on
\* recorded inputs, for any people, seals, transactions and sessions.
THEOREM SealedAuthority == SealSpec => SealGoverns
<1>1. SealInv => SealTypeOK /\ OneReaderPerConsent /\ OneAttempt /\ ActsRestOnSealedInputs
  <2> SUFFICES ASSUME SealInv PROVE OneReaderPerConsent /\ OneAttempt /\ ActsRestOnSealedInputs
    BY DEF SealInv
  <2>1. ASSUME NEW s \in Seals PROVE Cardinality(started[s]) <= 1
    <3> DEFINE bound == {consent[s].reader}
    <3>1. started[s] \subseteq bound
      BY DEF SealInv, StartedIsBound
    <3>2. IsFiniteSet(bound) /\ Cardinality(bound) = 1
      BY FS_Singleton
    <3> HIDE DEF bound
    <3>3. IsFiniteSet(started[s]) /\ Cardinality(started[s]) <= Cardinality(bound)
      BY <3>1, <3>2, FS_Subset
    <3> QED
      BY <3>2, <3>3
  <2>2. ActsRestOnSealedInputs
    BY DEF SealInv, ActsAreTraced, CanonicalIsRecorded, ActsRestOnSealedInputs
  <2>3. OneAttempt
    BY DEF SealInv, AttemptInOrder, InOrder, OneAttempt
  <2> QED
    BY <2>1, <2>2, <2>3 DEF OneReaderPerConsent
<1>2. SealInv /\ [SealNext]_sealVars =>
        [\A s \in Seals :
           /\ approval[s].revoked => acted'[s] = acted[s] /\ approval'[s].revoked
           /\ approval[s].revoked \/ consent[s].revoked => started'[s] = started[s]]_sealVars
      /\ [\A s \in Seals : acted[s]["intent"] > 0 => started'[s] = started[s]]_sealVars
  <2> SUFFICES ASSUME SealInv, SealNext, NEW s \in Seals
               PROVE  /\ approval[s].revoked => acted'[s] = acted[s] /\ approval'[s].revoked
                      /\ approval[s].revoked \/ consent[s].revoked => started'[s] = started[s]
                      /\ acted[s]["intent"] > 0 => started'[s] = started[s]
    OBVIOUS
  <2>1. CASE InputStep
    BY <2>1 DEF InputStep, RegisterBuild, RegisterEnvironment, SupersedeEnvironment,
       ExpireEnvironment, FreezeVersion, ChangeStanding, Recorded, Clock
  <2>2. ASSUME NEW q \in Seals, SealStep(q)
        PROVE  /\ UNCHANGED <<acted, started>>
               /\ approval[s].revoked => approval'[s].revoked
    <3> DEFINE RevokedNow == approval' = [approval EXCEPT ![q].revoked = TRUE]
    <3>1. UNCHANGED <<acted, started>>
      BY <2>2 DEF SealStep, SealManifest, LapseSession, ExpireConsent, ExpireApproval, ExpireSeal,
         Clock, RequestRun, EndRun, Approve, RevokeApproval, IssueConsent, RevokeConsent
    <3>2. \/ UNCHANGED approval
          \/ approval' = [approval EXCEPT ![q].expired = TRUE]
          \/ \E u \in Staff : approval' = [approval EXCEPT ![q].by = u]
          \/ RevokedNow
      BY <2>2 DEF SealStep, SealManifest, LapseSession, ExpireConsent, ExpireApproval, ExpireSeal,
         Clock, RequestRun, EndRun, Approve, RevokeApproval, IssueConsent, RevokeConsent
    <3>3. approval \in [Seals -> [by : Staff \cup {None}, revoked : BOOLEAN, expired : BOOLEAN]]
      BY DEF SealInv, SealTypeOK
    <3>4. RevokedNow => (approval[s].revoked => approval'[s].revoked)
      BY <3>3
    <3>5. \A u \in Staff : approval' = [approval EXCEPT ![q].by = u] =>
                             approval'[s].revoked = approval[s].revoked
      BY <3>3
    <3>6. approval' = [approval EXCEPT ![q].expired = TRUE] =>
            approval'[s].revoked = approval[s].revoked
      BY <3>3
    <3> QED
      BY <3>1, <3>2, <3>4, <3>5, <3>6
  <2>3. ASSUME NEW w \in Workers, WorkerStep(w)
        PROVE  /\ UNCHANGED approval
               /\ approval[s].revoked => acted'[s] = acted[s]
               /\ approval[s].revoked \/ consent[s].revoked => started'[s] = started[s]
               /\ acted[s]["intent"] > 0 => started'[s] = started[s]
    <3>1. CASE Act(w)
      BY <3>1 DEF Act, SealInv, SealTypeOK, CheckStands, WorkersNamed, Kinds
    <3>2. CASE Start(w)
      BY <3>2 DEF Start, SealInv, SealTypeOK, CheckStands
    <3> QED
      BY <2>3, <3>1, <3>2 DEF WorkerStep, Check, CheckStartup, RollBack
  <2> QED
    BY <2>1, <2>2, <2>3 DEF SealNext
<1> QED
  BY <1>1, <1>2, SealInvariance, PTL DEF SealSpec, SealGoverns, RevocationIsFinal,
     StartupPrecedesActions

-----------------------------------------------------------------------------
(* Model calls under consent.                                              *)

DeliveryPc == {"idle", "authorized", "reserved", "calling", "answered", "rechecked", "failing"}
OperatorRow == [pc : DeliveryPc, req : Requests \cup {"none"}, called : BOOLEAN]

\* Past its reservation: STARTED is committed and the invocation is this operator's.
Engaged(d) == operator[d].pc \notin {"idle", "authorized"}

OperatorsNamed ==
  \A d \in Operators :
    /\ operator[d].pc # "idle" => operator[d].req \in Requests
    /\ operator[d].pc \in {"authorized", "reserved"} => ~operator[d].called

\* The invocation row, unique per request, keeps a second delivery out for good.
OneDelivery ==
  \A d, e \in Operators :
    Engaged(d) /\ Engaged(e) /\ operator[d].req = operator[e].req => d = e

\* What an operator knows of its own call agrees with the tables until it has settled.
KnowsItsCall ==
  \A d \in Operators :
    Engaged(d) =>
      /\ inv[operator[d].req] # "none"
      /\ operator[d].pc # "failing" => inv[operator[d].req] = "STARTED"
      /\ ~operator[d].called => calls[operator[d].req] = 0

\* Every reservation is charged while it counts; only recorded calls leave the window.
HeldInAllowance ==
  /\ IsFiniteSet(Held) /\ Cardinality(Held) <= TokenLimit
  /\ \A r \in aged : inv[r] = "RECORDED"

\* A succeeded repair is settled, and nobody is about to start it.
SupersededIsOver ==
  \A r \in Repairs : Superseded(r) =>
    /\ inv[r] \notin {"STARTED", "UNCONFIRMED"}
    /\ \A d \in Operators : operator[d].pc = "authorized" => operator[d].req # r

\* The second recheck stands until the settlement commits: its rows are locked.
RecheckStands ==
  \A d \in Operators :
    LET r == operator[d].req IN
    operator[d].pc = "rechecked" =>
      /\ req[r].state = "live" /\ req[r].on = head
      /\ r \in Repairs => req[r].surface = repairSurface /\ ~Superseded(r)

\* The settlement of a diagnosis holds the run's row and shares it with nobody.
DiagnosisAlone ==
  \A d, e \in Operators :
    d # e /\ operator[d].pc = "rechecked" /\ operator[d].req \in Diagnoses => ~Open(e)

DeliveryInv ==
  /\ DeliveryTypeOK /\ OperatorsNamed /\ OneDelivery /\ KnowsItsCall
  /\ AtMostOneCall /\ NoCallIsForgotten /\ HeldInAllowance
  /\ SupersededIsOver /\ RecheckStands /\ DiagnosisAlone /\ ResultMatchesInvocation

LEMMA DeliveryInitially == DeliveryInit => DeliveryInv
<1> SUFFICES ASSUME DeliveryInit PROVE DeliveryInv
  OBVIOUS
<1>1. DeliveryTypeOK
  <2>1. 0 \in 0 .. MaxSurfaceRevision
    BY DeliveryAssumption
  <2> QED
    BY <2>1 DEF DeliveryInit, DeliveryTypeOK, UnaskedRequest, NoProc, Heads
<1>2. OperatorsNamed /\ OneDelivery /\ KnowsItsCall /\ RecheckStands /\ DiagnosisAlone
  BY DEF DeliveryInit, OperatorsNamed, OneDelivery, KnowsItsCall, RecheckStands, DiagnosisAlone,
     Engaged, NoProc
<1>3. AtMostOneCall /\ NoCallIsForgotten /\ ResultMatchesInvocation
  BY DEF DeliveryInit, AtMostOneCall, NoCallIsForgotten, ResultMatchesInvocation
<1>4. HeldInAllowance
  <2>1. Held = {}
    BY DEF DeliveryInit, Held
  <2> QED
    BY <2>1, FS_EmptySet, DeliveryAssumption DEF DeliveryInit, HeldInAllowance
<1>5. SupersededIsOver
  BY DeliveryAssumption DEF DeliveryInit, SupersededIsOver, Superseded, UnaskedRequest,
     Requests
<1> QED
  BY <1>1, <1>2, <1>3, <1>4, <1>5 DEF DeliveryInv

\* People's requests, the clock and the surface: the rows of an open delivery are locked.
LEMMA PeopleKeep ==
    ASSUME DeliveryInv,
           \/ \E r \in Repairs : CreateRepair(r)
           \/ \E r \in Diagnoses : CreateDiagnosis(r)
           \/ \E r \in Requests : Revoke(r) \/ Lapse(r) \/ DayPasses(r)
           \/ ConfigureSurface
    PROVE  DeliveryInv'
<1> USE DEF DeliveryInv
<1> DEFINE Row == [state : {"none", "live", "revoked"}, lapsed : BOOLEAN, on : Heads,
                   surface : 0 .. MaxSurfaceRevision, parent : Repairs \cup {"none"}]
<1>1. UNCHANGED <<inv, result, head, operator, calls>>
  BY DEF CreateRepair, CreateDiagnosis, Revoke, Lapse, DayPasses, ConfigureSurface
<1>2. /\ OperatorsNamed' /\ OneDelivery' /\ KnowsItsCall' /\ AtMostOneCall'
      /\ NoCallIsForgotten' /\ DiagnosisAlone' /\ ResultMatchesInvocation'
  BY <1>1 DEF OperatorsNamed, OneDelivery, KnowsItsCall, Engaged, AtMostOneCall,
     NoCallIsForgotten, DiagnosisAlone, Open, ResultMatchesInvocation
<1>3. ASSUME NEW r \in Requests, NEW row \in Row, req' = [req EXCEPT ![r] = row],
             UNCHANGED <<repairSurface, aged>>,
             req[r].state # "live" \/ ~RequestRowShared(r)
                \/ (row.state = "live" /\ row.on = req[r].on /\ row.surface = req[r].surface),
             row.parent = "none" \/ row.parent = req[r].parent
                \/ (row.parent \in Repairs /\ ~OpenRepair
                     /\ inv[row.parent] \notin {"STARTED", "UNCONFIRMED"})
      PROVE  DeliveryInv'
  <2>1. DeliveryTypeOK' /\ HeldInAllowance'
    BY <1>1, <1>3 DEF DeliveryTypeOK, HeldInAllowance, Held
  <2>2. ASSUME NEW p \in Repairs, Superseded(p)'
        PROVE  Superseded(p) \/ (/\ p = row.parent /\ ~OpenRepair
                                 /\ inv[p] \notin {"STARTED", "UNCONFIRMED"})
    BY <1>3, <2>2, DeliveryAssumption DEF Superseded, DeliveryTypeOK, Requests
  <2>3. SupersededIsOver'
    BY <1>1, <2>2 DEF SupersededIsOver, OpenRepair, Open
  <2>4. RecheckStands'
    <3> SUFFICES ASSUME NEW d \in Operators, operator[d].pc = "rechecked"
                 PROVE  LET q == operator[d].req IN
                        /\ req'[q].state = "live" /\ req'[q].on = head
                        /\ q \in Repairs => req'[q].surface = repairSurface /\ ~Superseded(q)'
      BY <1>1, <1>3 DEF RecheckStands
    <3>1. operator[d].req \in Requests /\ Open(d)
      BY DEF OperatorsNamed, Open
    <3>2. operator[d].req \in Repairs => ~Superseded(operator[d].req)'
      BY <1>1, <2>2, <3>1 DEF RecheckStands, OpenRepair
    <3> QED
      BY <1>3, <3>1, <3>2 DEF RecheckStands, RequestRowShared, DeliveryTypeOK
  <2> QED
    BY <1>2, <2>1, <2>3, <2>4
<1>4. CASE \E r \in Repairs : CreateRepair(r)
  <2>1. PICK r \in Repairs, p \in Repairs \cup {"none"} :
          /\ req[r].state = "none" /\ ~OpenRepair
          /\ p # "none" => ParentSettled(p)
          /\ req' = [req EXCEPT ![r] = [state |-> "live", lapsed |-> FALSE, on |-> head,
                                        surface |-> repairSurface, parent |-> p]]
          /\ UNCHANGED <<repairSurface, aged>>
    BY <1>4 DEF CreateRepair
  <2>2. [state |-> "live", lapsed |-> FALSE, on |-> head, surface |-> repairSurface,
         parent |-> p] \in Row
    BY DEF DeliveryTypeOK
  <2> QED
    BY <1>3, <2>1, <2>2 DEF ParentSettled, Requests
<1>5. CASE \E r \in Diagnoses : CreateDiagnosis(r)
  <2>1. PICK r \in Diagnoses :
          /\ req[r].state = "none"
          /\ req' = [req EXCEPT ![r] = [UnaskedRequest EXCEPT !.state = "live", !.on = head]]
          /\ UNCHANGED <<repairSurface, aged>>
    BY <1>5 DEF CreateDiagnosis
  <2>2. [UnaskedRequest EXCEPT !.state = "live", !.on = head] \in Row
    <3>1. 0 \in 0 .. MaxSurfaceRevision
      BY DeliveryAssumption
    <3>2. UnaskedRequest \in Row
      BY <3>1 DEF UnaskedRequest, Heads
    <3>3. head \in Heads
      BY DEF DeliveryTypeOK
    <3> QED
      BY <3>2, <3>3
  <2> QED
    BY <1>3, <2>1, <2>2 DEF UnaskedRequest, Requests
<1>6. CASE \E r \in Requests : Revoke(r) \/ Lapse(r)
  <2>1. PICK r \in Requests : Revoke(r) \/ Lapse(r)
    BY <1>6
  <2>2. req[r] \in Row
    BY DEF DeliveryTypeOK
  <2>3. CASE Revoke(r)
    <3>1. req' = [req EXCEPT ![r] = [req[r] EXCEPT !.state = "revoked"]]
      BY <2>3 DEF Revoke
    <3> QED
      BY <1>3, <2>2, <2>3, <3>1 DEF Revoke
  <2>4. CASE Lapse(r)
    <3>1. req' = [req EXCEPT ![r] = [req[r] EXCEPT !.lapsed = TRUE]]
      BY <2>4 DEF Lapse
    <3> QED
      BY <1>3, <2>2, <2>4, <3>1 DEF Lapse
  <2> QED
    BY <2>1, <2>3, <2>4
<1>7. CASE \E r \in Requests : DayPasses(r)
  <2>1. PICK r \in Requests : inv[r] = "RECORDED" /\ aged' = aged \cup {r}
    BY <1>7 DEF DayPasses
  <2>2. UNCHANGED <<req, repairSurface>>
    BY <1>7 DEF DayPasses
  <2>3. Held' \subseteq Held
    BY <1>1, <2>1 DEF Held
  <2>4. HeldInAllowance'
    <3>1. IsFiniteSet(Held') /\ Cardinality(Held') <= Cardinality(Held)
      BY <2>3, FS_Subset DEF HeldInAllowance
    <3>2. Cardinality(Held) \in Nat /\ Cardinality(Held') \in Nat
      BY <3>1, FS_CardinalityType DEF HeldInAllowance
    <3>3. IsFiniteSet(Held)' /\ Cardinality(Held)' <= TokenLimit
      BY <3>1, <3>2, DeliveryAssumption DEF HeldInAllowance
    <3> QED
      BY <1>1, <2>1, <3>3 DEF HeldInAllowance
  <2> QED
    BY <1>1, <1>2, <2>1, <2>2, <2>4
       DEF DeliveryTypeOK, SupersededIsOver, Superseded, RecheckStands
<1>8. CASE ConfigureSurface
  <2>1. /\ repairSurface' \in 0 .. MaxSurfaceRevision
        /\ ~OpenRepair /\ UNCHANGED <<req, aged>>
    BY <1>8, DeliveryAssumption DEF ConfigureSurface, DeliveryTypeOK
  <2>2. RecheckStands'
    BY <1>1, <2>1 DEF RecheckStands, OpenRepair, Open, Superseded
  <2> QED
    BY <1>1, <1>2, <2>1, <2>2 DEF DeliveryTypeOK, HeldInAllowance, Held, SupersededIsOver,
       Superseded
<1> QED
  BY <1>4, <1>5, <1>6, <1>7, <1>8

\* An operator's step that leaves the tables alone: it starts, moves on or is gone.
LEMMA OperatorMoves ==
    ASSUME DeliveryInv, NEW d \in Operators, NEW p \in OperatorRow,
           operator' = [operator EXCEPT ![d] = p],
           UNCHANGED <<req, inv, result, head, repairSurface, aged, calls>>,
           \/ p.pc = "idle"
           \/ /\ p.pc = "authorized" /\ ~p.called /\ p.req \in Requests /\ ~RunExclusive
              /\ p.req \in Repairs => ~Superseded(p.req)
           \/ /\ Engaged(d) /\ p.req = operator[d].req /\ p.called = operator[d].called
              /\ p.pc \in {"answered", "failing"} /\ operator[d].pc # "failing"
           \/ /\ operator[d].pc = "answered" /\ p = [operator[d] EXCEPT !.pc = "rechecked"]
              /\ RequireActive(p.req) /\ ~RunExclusive
              /\ p.req \in Diagnoses => \A o \in Operators : ~Open(o)
    PROVE  DeliveryInv'
<1> USE DEF DeliveryInv
<1>1. DeliveryTypeOK'
  BY DEF DeliveryTypeOK, OperatorRow, DeliveryPc
<1>2. /\ operator'[d] = p /\ \A e \in Operators \ {d} : operator'[e] = operator[e]
      /\ operator[d] \in OperatorRow
  BY DEF DeliveryTypeOK, OperatorRow, DeliveryPc
<1>3. OperatorsNamed'
  BY <1>2 DEF OperatorsNamed, Engaged, OperatorRow, DeliveryPc
<1>4. Engaged(d)' => /\ Engaged(d) /\ operator[d].pc # "failing"
                      /\ p.req = operator[d].req /\ p.called = operator[d].called
  BY <1>2 DEF Engaged, OperatorRow
<1>5. OneDelivery'
  BY <1>2, <1>4 DEF OneDelivery, Engaged
<1>6. KnowsItsCall'
  BY <1>2, <1>4 DEF KnowsItsCall, Engaged
<1>7. SupersededIsOver'
  BY <1>2 DEF SupersededIsOver, Superseded, OperatorRow
<1>8. RecheckStands'
  BY <1>2 DEF RecheckStands, Superseded, RequireActive, OperatorRow
<1>9. DiagnosisAlone'
  BY <1>2 DEF DiagnosisAlone, Open, RunExclusive, OperatorRow
<1>10. AtMostOneCall' /\ NoCallIsForgotten' /\ HeldInAllowance' /\ ResultMatchesInvocation'
  BY DEF AtMostOneCall, NoCallIsForgotten, HeldInAllowance, Held, ResultMatchesInvocation
<1> QED
  BY <1>1, <1>3, <1>5, <1>6, <1>7, <1>8, <1>9, <1>10

\* The reservation, under the budget lock: the first and only one of its request.
LEMMA ReserveKeeps ==
    ASSUME DeliveryInv, NEW d \in Operators, Reserve(d)
    PROVE  DeliveryInv'
<1> USE DEF DeliveryInv
<1> DEFINE r == operator[d].req
<1>1. /\ operator[d].pc = "authorized" /\ ~operator[d].called /\ r \in Requests
      /\ inv[r] = "none" /\ calls[r] = 0 /\ result[r] = "none"
      /\ Cardinality(Held) + 1 <= TokenLimit
      /\ inv' = [inv EXCEPT ![r] = "STARTED"]
      /\ operator' = [operator EXCEPT ![d].pc = "reserved"]
      /\ UNCHANGED <<req, result, head, repairSurface, aged, calls>>
  <2>1. r \in Requests /\ inv[r] = "none"
    BY DEF Reserve, NotStarted, OperatorsNamed
  <2>2. calls[r] \in Nat /\ ~(calls[r] > 0)
    BY <2>1 DEF DeliveryTypeOK, NoCallIsForgotten
  <2> QED
    BY <2>1, <2>2 DEF Reserve, OperatorsNamed, ResultMatchesInvocation
<1>2. /\ operator' = [operator EXCEPT ![d] = [operator[d] EXCEPT !.pc = "reserved"]]
      /\ operator[d] \in OperatorRow
  BY <1>1 DEF DeliveryTypeOK, OperatorRow, DeliveryPc
<1>3. /\ operator'[d].pc = "reserved" /\ operator'[d].req = r /\ ~operator'[d].called
      /\ \A e \in Operators \ {d} : operator'[e] = operator[e]
      /\ inv'[r] = "STARTED" /\ \A q \in Requests \ {r} : inv'[q] = inv[q]
  BY <1>1, <1>2 DEF DeliveryTypeOK, OperatorRow
<1>4. DeliveryTypeOK'
  BY <1>1, <1>2 DEF DeliveryTypeOK, OperatorRow, DeliveryPc
<1>5. OperatorsNamed' /\ DiagnosisAlone' /\ RecheckStands'
  BY <1>1, <1>3 DEF OperatorsNamed, DiagnosisAlone, Open, RecheckStands, Superseded
<1>6. \A e \in Operators \ {d} : Engaged(e) => operator[e].req # r
  BY <1>1 DEF KnowsItsCall
<1>7. OneDelivery' /\ KnowsItsCall'
  <2>1. OneDelivery'
    BY <1>3, <1>6 DEF OneDelivery, Engaged
  <2>2. ASSUME NEW e \in Operators \ {d}, Engaged(e)
        PROVE  operator[e].req \in Requests \ {r}
    BY <2>2, <1>6 DEF OperatorsNamed, Engaged
  <2> QED
    BY <1>1, <1>3, <2>1, <2>2 DEF KnowsItsCall, Engaged
<1>8. AtMostOneCall' /\ NoCallIsForgotten' /\ ResultMatchesInvocation'
  BY <1>1, <1>3 DEF AtMostOneCall, NoCallIsForgotten, ResultMatchesInvocation
<1>9. HeldInAllowance'
  <2>1. Held' = Held \cup {r} /\ r \notin Held
    BY <1>1, <1>3 DEF Held
  <2>2. IsFiniteSet(Held') /\ Cardinality(Held') = Cardinality(Held) + 1
    BY <2>1, FS_AddElement DEF HeldInAllowance
  <2>3. \A q \in aged : inv'[q] = "RECORDED"
    BY <1>1, <1>3 DEF HeldInAllowance, DeliveryTypeOK
  <2> QED
    BY <1>1, <2>2, <2>3 DEF HeldInAllowance
<1>10. SupersededIsOver'
  BY <1>1, <1>3 DEF SupersededIsOver, Superseded
<1> QED
  BY <1>4, <1>5, <1>7, <1>8, <1>9, <1>10

LEMMA CallKeeps ==
    ASSUME DeliveryInv, NEW d \in Operators, CallProvider(d)
    PROVE  DeliveryInv'
<1> USE DEF DeliveryInv
<1> DEFINE r == operator[d].req
<1>1. /\ operator[d].pc = "reserved" /\ r \in Requests /\ inv[r] = "STARTED" /\ calls[r] = 0
      /\ operator' = [operator EXCEPT ![d] = [operator[d] EXCEPT !.pc = "calling", !.called = TRUE]]
      /\ calls' = [calls EXCEPT ![r] = @ + 1]
      /\ UNCHANGED <<req, inv, result, head, repairSurface, aged>>
  BY DEF CallProvider, OperatorsNamed, KnowsItsCall, Engaged
<1>2. operator[d] \in OperatorRow
  BY DEF DeliveryTypeOK, OperatorRow, DeliveryPc
<1>3. /\ operator'[d].pc = "calling" /\ operator'[d].req = r /\ operator'[d].called
      /\ \A e \in Operators \ {d} : operator'[e] = operator[e]
      /\ calls'[r] = 1 /\ \A q \in Requests \ {r} : calls'[q] = calls[q]
  BY <1>1, <1>2 DEF DeliveryTypeOK, OperatorRow
<1>4. DeliveryTypeOK'
  <2>1. operator' \in [Operators -> OperatorRow]
    BY <1>1, <1>2 DEF DeliveryTypeOK, OperatorRow, DeliveryPc
  <2>2. calls' \in [Requests -> Nat]
    BY <1>1 DEF DeliveryTypeOK
  <2> QED
    BY <1>1, <2>1, <2>2 DEF DeliveryTypeOK, OperatorRow, DeliveryPc
<1>5. OperatorsNamed' /\ DiagnosisAlone' /\ RecheckStands' /\ SupersededIsOver'
  BY <1>1, <1>3 DEF OperatorsNamed, DiagnosisAlone, Open, RecheckStands, Superseded,
     SupersededIsOver
<1>6. OneDelivery' /\ KnowsItsCall'
  <2>1. OneDelivery'
    BY <1>1, <1>3 DEF OneDelivery, Engaged
  <2>2. ASSUME NEW e \in Operators \ {d}, Engaged(e)
        PROVE  operator[e].req \in Requests \ {r}
    BY <1>1, <2>2 DEF OperatorsNamed, OneDelivery, Engaged
  <2> QED
    BY <1>1, <1>3, <2>1, <2>2 DEF KnowsItsCall, Engaged
<1>7. AtMostOneCall' /\ NoCallIsForgotten' /\ ResultMatchesInvocation' /\ HeldInAllowance'
  BY <1>1, <1>3 DEF AtMostOneCall, NoCallIsForgotten, ResultMatchesInvocation, HeldInAllowance,
     Held
<1> QED
  BY <1>4, <1>5, <1>6, <1>7

\* Settling a started invocation: what was called stays counted, and the operator that
\* settles it was the only one at work on it.
LEMMA SettlementKeeps ==
    ASSUME DeliveryInv, NEW d \in Operators, NEW p \in OperatorRow,
           NEW status \in {"RECORDED", "UNCONFIRMED", "NOT_CALLED"},
           Engaged(d), inv[operator[d].req] = "STARTED",
           status = "NOT_CALLED" => ~operator[d].called,
           inv' = [inv EXCEPT ![operator[d].req] = status],
           operator' = [operator EXCEPT ![d] = p],
           \/ p = NoProc
           \/ p = [operator[d] EXCEPT !.pc = "failing"],
           UNCHANGED <<req, repairSurface, aged, calls>>
    PROVE  /\ OperatorsNamed' /\ OneDelivery' /\ KnowsItsCall' /\ DiagnosisAlone'
           /\ AtMostOneCall' /\ NoCallIsForgotten' /\ HeldInAllowance'
           /\ SupersededIsOver'
<1> USE DEF DeliveryInv
<1> DEFINE r == operator[d].req
<1>1. r \in Requests /\ inv'[r] = status /\ \A q \in Requests \ {r} : inv'[q] = inv[q]
  BY DEF OperatorsNamed, Engaged, DeliveryTypeOK
<1>2. /\ operator[d] \in OperatorRow /\ operator'[d] = p
      /\ \A e \in Operators \ {d} : operator'[e] = operator[e]
      /\ p.pc \in {"idle", "failing"}
      /\ p.pc = "failing" => p.req = r /\ p.called = operator[d].called
  BY DEF DeliveryTypeOK, OperatorRow, DeliveryPc, NoProc
<1>3. ASSUME NEW e \in Operators \ {d}, Engaged(e)
      PROVE  operator[e].req \in Requests \ {r}
  BY <1>1, <1>3 DEF OperatorsNamed, OneDelivery, Engaged
<1>4. OperatorsNamed' /\ DiagnosisAlone' /\ OneDelivery'
  BY <1>1, <1>2 DEF OperatorsNamed, DiagnosisAlone, Open, OneDelivery, Engaged
<1>5. KnowsItsCall'
  BY <1>1, <1>2, <1>3 DEF KnowsItsCall, Engaged
<1>6. AtMostOneCall' /\ NoCallIsForgotten'
  <2>1. status = "NOT_CALLED" => calls[r] = 0
    BY DEF KnowsItsCall
  <2> QED
    BY <1>1, <2>1 DEF AtMostOneCall, NoCallIsForgotten
<1>7. HeldInAllowance'
  <2>1. Held' \subseteq Held
    BY <1>1 DEF Held
  <2>2. IsFiniteSet(Held') /\ Cardinality(Held') <= Cardinality(Held)
    BY <2>1, FS_Subset DEF HeldInAllowance
  <2>3. Cardinality(Held) \in Nat /\ Cardinality(Held') \in Nat
    BY <2>2, FS_CardinalityType DEF HeldInAllowance
  <2>4. IsFiniteSet(Held)' /\ Cardinality(Held)' <= TokenLimit
    BY <2>2, <2>3, DeliveryAssumption DEF HeldInAllowance
  <2>5. \A q \in aged : inv'[q] = "RECORDED"
    BY <1>1 DEF HeldInAllowance, DeliveryTypeOK
  <2> QED
    BY <2>4, <2>5 DEF HeldInAllowance
<1>8. SupersededIsOver'
  <2>1. ~(r \in Repairs /\ Superseded(r))
    BY DEF SupersededIsOver
  <2> QED
    BY <1>1, <1>2, <2>1 DEF SupersededIsOver, Superseded, Requests
<1> QED
  BY <1>4, <1>5, <1>6, <1>7, <1>8

LEMMA FinishFailedKeeps ==
    ASSUME DeliveryInv, NEW d \in Operators, FinishFailed(d)
    PROVE  DeliveryInv'
<1> USE DEF DeliveryInv
<1> DEFINE r == operator[d].req
           status == IF operator[d].called THEN "UNCONFIRMED" ELSE "NOT_CALLED"
<1>1. /\ operator[d].pc = "failing" /\ r \in Requests /\ Engaged(d)
      /\ operator' = [operator EXCEPT ![d] = NoProc]
      /\ UNCHANGED <<req, result, head, repairSurface, aged, calls>>
      /\ IF inv[r] = "STARTED" THEN inv' = [inv EXCEPT ![r] = status] ELSE UNCHANGED inv
  BY DEF FinishFailed, OperatorsNamed, Engaged, DeliveryTypeOK
<1>2. NoProc \in OperatorRow /\ NoProc.pc = "idle"
  BY DEF OperatorRow, DeliveryPc, NoProc
<1>3. CASE UNCHANGED inv
  BY <1>1, <1>2, <1>3, OperatorMoves
<1>4. CASE inv[r] = "STARTED" /\ inv' = [inv EXCEPT ![r] = status]
  <2>1. /\ OperatorsNamed' /\ OneDelivery' /\ KnowsItsCall' /\ DiagnosisAlone'
        /\ AtMostOneCall' /\ NoCallIsForgotten' /\ HeldInAllowance' /\ SupersededIsOver'
    BY <1>1, <1>2, <1>4, SettlementKeeps
  <2>2. DeliveryTypeOK'
    BY <1>1, <1>2, <1>4 DEF DeliveryTypeOK, OperatorRow, DeliveryPc
  <2>3. RecheckStands'
    BY <1>1, <1>2 DEF RecheckStands, Superseded, DeliveryTypeOK
  <2>4. ResultMatchesInvocation'
    BY <1>1, <1>4 DEF ResultMatchesInvocation, DeliveryTypeOK
  <2> QED
    BY <2>1, <2>2, <2>3, <2>4
<1> QED
  BY <1>1, <1>3, <1>4

LEMMA SettleKeeps ==
    ASSUME DeliveryInv, NEW d \in Operators, Settle(d)
    PROVE  DeliveryInv'
<1> USE DEF DeliveryInv
<1> DEFINE r == operator[d].req
           status == Disposition(operator[d].called)
<1>1. /\ operator[d].pc = "rechecked" /\ r \in Requests /\ Engaged(d) /\ inv[r] = "STARTED"
      /\ inv' = [inv EXCEPT ![r] = status]
      /\ head' = IF r \in Diagnoses THEN r ELSE head
      /\ UNCHANGED <<req, repairSurface, aged, calls>>
  BY DEF Settle, OperatorsNamed, KnowsItsCall, Engaged
<1>2. PICK out \in {"DIAGNOSED", "PROPOSED", "NO_PROPOSAL"} :
        /\ result' = [result EXCEPT ![r] = out]
        /\ out = "PROPOSED" => operator[d].called
  BY DEF Settle
<1>3. PICK p \in OperatorRow : /\ operator' = [operator EXCEPT ![d] = p]
                               /\ p = NoProc \/ p = [operator[d] EXCEPT !.pc = "failing"]
  <2>1. operator[d] \in OperatorRow
    BY DEF DeliveryTypeOK, OperatorRow, DeliveryPc
  <2>2. NoProc \in OperatorRow /\ [operator[d] EXCEPT !.pc = "failing"] \in OperatorRow
    BY <2>1 DEF OperatorRow, DeliveryPc, NoProc
  <2> QED
    BY <2>2 DEF Settle
<1>4. p.pc \in {"idle", "failing"}
  BY <1>3 DEF DeliveryTypeOK, NoProc
<1>5. /\ status \in {"RECORDED", "NOT_CALLED"}
      /\ status = "NOT_CALLED" => ~operator[d].called
      /\ operator[d].called => status = "RECORDED"
  BY DEF Disposition
<1>6. /\ OperatorsNamed' /\ OneDelivery' /\ KnowsItsCall' /\ DiagnosisAlone'
      /\ AtMostOneCall' /\ NoCallIsForgotten' /\ HeldInAllowance' /\ SupersededIsOver'
  BY <1>1, <1>3, <1>5, SettlementKeeps
<1>7. DeliveryTypeOK'
  <2>1. inv' \in [Requests -> {"none", "STARTED", "RECORDED", "UNCONFIRMED", "NOT_CALLED"}]
    BY <1>1, <1>5 DEF DeliveryTypeOK
  <2>2. result' \in [Requests -> {"none", "PROPOSED", "NO_PROPOSAL", "DIAGNOSED"}]
    BY <1>2 DEF DeliveryTypeOK
  <2>3. operator' \in [Operators -> OperatorRow] /\ head' \in Heads
    BY <1>1, <1>3 DEF DeliveryTypeOK, OperatorRow, DeliveryPc, Heads
  <2> QED
    BY <1>1, <2>1, <2>2, <2>3 DEF DeliveryTypeOK, OperatorRow, DeliveryPc
<1>8. RecheckStands'
  <2>1. ASSUME NEW e \in Operators, operator'[e].pc = "rechecked"
        PROVE  /\ operator'[e] = operator[e] /\ operator[e].pc = "rechecked"
               /\ head' = head
    <3>1. e # d /\ operator'[e] = operator[e]
      BY <1>3, <1>4, <2>1 DEF DeliveryTypeOK
    <3> QED
      BY <1>1, <2>1, <3>1 DEF DiagnosisAlone, Open
  <2> QED
    BY <1>1, <2>1 DEF RecheckStands, Superseded
<1>9. ResultMatchesInvocation'
  BY <1>1, <1>2, <1>5 DEF ResultMatchesInvocation, DeliveryTypeOK
<1> QED
  BY <1>6, <1>7, <1>8, <1>9

LEMMA DeliveryInvariance == DeliverySpec => []DeliveryInv
<1>1. DeliveryInv /\ [DeliveryNext]_deliveryVars => DeliveryInv'
  <2> SUFFICES ASSUME DeliveryInv, [DeliveryNext]_deliveryVars PROVE DeliveryInv'
    OBVIOUS
  <2>1. CASE UNCHANGED deliveryVars
    BY <2>1 DEF deliveryVars, DeliveryInv, DeliveryTypeOK, OperatorsNamed, OneDelivery, Engaged,
       KnowsItsCall, AtMostOneCall, NoCallIsForgotten, HeldInAllowance, Held, SupersededIsOver,
       Superseded, RecheckStands, DiagnosisAlone, Open, ResultMatchesInvocation
  <2>2. ASSUME NEW d \in Operators,
               \/ \E r \in Requests : Authorize(d, r)
               \/ RefuseStart(d) \/ Answer(d) \/ Recheck(d) \/ Fail(d) \/ OperatorCrash(d)
        PROVE  DeliveryInv'
    <3> DEFINE o == operator[d]
    <3>1. o \in OperatorRow /\ NoProc \in OperatorRow /\ NoProc.pc = "idle"
      BY DEF DeliveryInv, DeliveryTypeOK, OperatorRow, DeliveryPc, NoProc
    <3>2. CASE RefuseStart(d) \/ OperatorCrash(d)
      BY <3>1, <3>2, OperatorMoves DEF RefuseStart, OperatorCrash
    <3>3. ASSUME NEW r \in Requests, Authorize(d, r) PROVE DeliveryInv'
      <4> DEFINE p == [pc |-> "authorized", req |-> r, called |-> FALSE]
      <4>1. p \in OperatorRow /\ p.pc = "authorized" /\ ~p.called /\ p.req = r
        BY DEF OperatorRow, DeliveryPc
      <4> HIDE DEF p
      <4>2. operator' = [operator EXCEPT ![d] = p]
        BY <3>3 DEF Authorize, p
      <4> QED
        BY <3>3, <4>1, <4>2, OperatorMoves DEF Authorize, RequireActive
    <3>4. ASSUME NEW c \in {"answered", "failing", "rechecked"},
                 operator' = [operator EXCEPT ![d].pc = c]
          PROVE  /\ operator' = [operator EXCEPT ![d] = [o EXCEPT !.pc = c]]
                 /\ [o EXCEPT !.pc = c] \in OperatorRow
                 /\ [o EXCEPT !.pc = c].pc = c
                 /\ [o EXCEPT !.pc = c].req = o.req
                 /\ [o EXCEPT !.pc = c].called = o.called
      BY <3>1, <3>4 DEF OperatorRow, DeliveryPc
    <3>5. CASE Answer(d)
      BY <3>4, <3>5, OperatorMoves DEF Answer, Engaged
    <3>6. CASE Fail(d)
      BY <3>4, <3>6, OperatorMoves DEF Fail, Engaged
    <3>7. CASE Recheck(d)
      BY <3>4, <3>7, OperatorMoves DEF Recheck
    <3> QED
      BY <2>2, <3>2, <3>3, <3>5, <3>6, <3>7
  <2> QED
    BY <2>1, <2>2, PeopleKeep, ReserveKeeps, CallKeeps, SettleKeeps, FinishFailedKeeps
       DEF DeliveryNext
<1> QED
  BY <1>1, DeliveryInitially, PTL DEF DeliverySpec

\* One call per consent, counted, never forgotten, never bypassed, and kept only while the
\* consent stands, for any requests, operators, allowance and surface revisions.
THEOREM ConsentedDelivery == DeliverySpec => DeliveryIsConsented
<1>1. DeliveryInv => CallsWithinAllowance /\ UncertainIsNeverBypassed
  <2> SUFFICES ASSUME DeliveryInv PROVE CallsWithinAllowance /\ UncertainIsNeverBypassed
    OBVIOUS
  <2> DEFINE made == {r \in Requests : calls[r] > 0} \ aged
  <2>1. made \subseteq Held
    BY DEF DeliveryInv, NoCallIsForgotten, Held
  <2>2. IsFiniteSet(made) /\ Cardinality(made) <= Cardinality(Held)
    BY <2>1, FS_Subset DEF DeliveryInv, HeldInAllowance
  <2>3. Cardinality(made) \in Nat /\ Cardinality(Held) \in Nat
    BY <2>2, FS_CardinalityType DEF DeliveryInv, HeldInAllowance
  <2>4. Cardinality(made) <= TokenLimit
    BY <2>2, <2>3, DeliveryAssumption DEF DeliveryInv, HeldInAllowance
  <2> QED
    BY <2>4 DEF DeliveryInv, CallsWithinAllowance, SupersededIsOver, UncertainIsNeverBypassed
<1>2. DeliveryInv /\ [DeliveryNext]_deliveryVars =>
        [\A r \in Requests : result[r] = "none" /\ result'[r] # "none" =>
           /\ req[r].state = "live" /\ req[r].on = head
           /\ r \in Repairs => req[r].surface = repairSurface /\ ~Superseded(r)]_deliveryVars
  <2> SUFFICES ASSUME DeliveryInv, DeliveryNext, NEW r \in Requests,
                      result[r] = "none", result'[r] # "none"
               PROVE  /\ req[r].state = "live" /\ req[r].on = head
                      /\ r \in Repairs => req[r].surface = repairSurface /\ ~Superseded(r)
    OBVIOUS
  <2>1. PICK d \in Operators : Settle(d)
    BY DEF DeliveryNext, CreateRepair, CreateDiagnosis, Revoke, Lapse, DayPasses,
       ConfigureSurface, Authorize, Reserve, RefuseStart, CallProvider, Answer, Recheck, Fail,
       FinishFailed, OperatorCrash
  <2>2. operator[d].pc = "rechecked" /\ operator[d].req = r
    BY <2>1 DEF Settle, DeliveryInv, DeliveryTypeOK
  <2> QED
    BY <2>2 DEF DeliveryInv, RecheckStands
<1> QED
  BY <1>1, <1>2, DeliveryInvariance, PTL
     DEF DeliverySpec, DeliveryIsConsented, RetainedUnderConsent, DeliveryInv

-----------------------------------------------------------------------------
(* Access to a workspace.                                                  *)

SessionRow == [user : Users \cup {Nobody}, subject : Subjects \cup {Nobody},
               proof : Subjects \cup {Nobody}, state : {"none", "live", "ended"},
               request : PendingDecision]
OfferRow == [state : {"none", "pending", "revoked", "accepted"}, subject : Subjects \cup {Nobody},
             role : Roles \cup {"none"}, by : Users \cup {Nobody}, expired : BOOLEAN]
MemberRow == [role : Roles \cup {"none"}, revoked : BOOLEAN, revision : Nat]

\* A usable session belongs to an account, and one that began with an identity is still
\* issued for it and bound to it.
SessionFits(row) ==
  row.state = "live" =>
    /\ row.user \in Users
    /\ row.proof # Nobody => row.subject = row.proof /\ BoundTo(row.proof, row.user)

\* The invariant: bindings are revoked only once they exist, and memberships too.
AccessInv ==
  /\ AccessTypeOK
  /\ \A k \in Slots : SessionFits(sessions[k])
  /\ \A s \in Subjects : Unbound(s) => ~binding[s].revoked
  /\ \A u \in Users : member[u].revoked => member[u].revision > 0

LEMMA AccessInitially == AccessInit => AccessInv
<1> SUFFICES ASSUME AccessInit PROVE AccessInv
  OBVIOUS
<1>1. PICK joined \in [Subjects -> (Users \ {Founder}) \cup {Nobody}] :
        /\ account \in [Users -> {"absent", "enabled", "disabled"}]
        /\ binding = [s \in Subjects |-> [user |-> joined[s], revoked |-> FALSE]]
        /\ member \in [Users -> [role : Roles \cup {"none"}, revoked : {FALSE}, revision : 0 .. 1]]
        /\ offer = [i \in Offers |-> NoOffer]
        /\ sessions = [k \in Slots |-> NoSession]
        /\ login = [b \in Browsers |-> Nobody]
  <2>1. PICK joined \in {f \in [Subjects -> (Users \ {Founder}) \cup {Nobody}] :
                          \A s, t \in Subjects : f[s] = f[t] => s = t \/ f[s] = Nobody} :
          LET early == {joined[s] : s \in Subjects} \ {Nobody} IN
          /\ account = [u \in Users |-> IF u \in early \cup {Founder} THEN "enabled" ELSE "absent"]
          /\ binding = [s \in Subjects |-> [user |-> joined[s], revoked |-> FALSE]]
          /\ member \in [Users -> [role : Roles \cup {"none"}, revoked : {FALSE},
                                   revision : 0 .. 1]]
          /\ offer = [i \in Offers |-> NoOffer]
          /\ sessions = [k \in Slots |-> NoSession]
          /\ login = [b \in Browsers |-> Nobody]
    BY Zenon DEF AccessInit
  <2>2. joined \in [Subjects -> (Users \ {Founder}) \cup {Nobody}]
    BY <2>1
  <2>3. account \in [Users -> {"absent", "enabled", "disabled"}]
    BY <2>1
  <2> QED
    BY <2>1, <2>2, <2>3, Zenon
<1>2. NoSession \in SessionRow /\ NoSession.state = "none"
  BY DEF NoSession, SessionRow, PendingDecision
<1>3. AccessTypeOK
  <2>1. binding \in [Subjects -> [user : Users \cup {Nobody}, revoked : BOOLEAN]]
    BY <1>1
  <2>2. member \in [Users -> MemberRow]
    <3>1. ASSUME NEW m \in [role : Roles \cup {"none"}, revoked : {FALSE}, revision : 0 .. 1]
          PROVE  m \in MemberRow
      <4>1. m.role \in Roles \cup {"none"} /\ m.revision \in Nat
        OBVIOUS
      <4>2. m.revoked \in BOOLEAN
        BY Zenon
      <4>3. m = [role |-> m.role, revoked |-> m.revoked, revision |-> m.revision]
        BY Zenon
      <4> QED
        BY <4>1, <4>2, <4>3 DEF MemberRow
    <3> QED
      BY <1>1, <3>1
  <2>3. sessions \in [Slots -> SessionRow] /\ login \in [Browsers -> Offers \cup {Nobody}]
    BY <1>1, <1>2
  <2>4. offer \in [Offers -> OfferRow]
    BY <1>1 DEF NoOffer, OfferRow
  <2> QED
    BY <1>1, <2>1, <2>2, <2>3, <2>4 DEF AccessTypeOK, SessionRow, OfferRow, MemberRow
<1> QED
  BY <1>1, <1>2, <1>3 DEF AccessInv, SessionFits

\* Settling a row keeps it a row; a usable one is not touched by it.
LEMMA SettledRow ==
    ASSUME NEW row \in SessionRow
    PROVE  /\ Settled(row) \in SessionRow
           /\ Settled(row).state = "live" => Settled(row) = row
           /\ row.request = NoRequest => Settled(row).request = NoRequest
  BY DEF Settled, SessionRow, NoSession, PendingDecision

\* A session row is replaced: by one that is no longer usable, or is the same session.
LEMMA SessionMoves ==
    ASSUME AccessInv, NEW k \in Slots, NEW row \in SessionRow,
           sessions' = [sessions EXCEPT ![k] = row], UNCHANGED binding,
           row.state = "live" =>
              /\ sessions[k].state = "live" /\ row.user = sessions[k].user
              /\ row.subject = sessions[k].subject /\ row.proof = sessions[k].proof
    PROVE  /\ sessions' \in [Slots -> SessionRow]
           /\ \A j \in Slots : SessionFits(sessions[j])'
  BY DEF AccessInv, AccessTypeOK, SessionRow, SessionFits, BoundTo

\* What a decision about a member leaves behind.
LEMMA DecidedKeeps ==
    ASSUME AccessInv, NEW actor, NEW u \in Users, NEW role \in Roles \cup {"none"}, NEW expected,
           Decided(actor, u, role, expected), member' = Changed(u, role)
    PROVE  /\ member' \in [Users -> MemberRow]
           /\ member'[u].revision > 0
           /\ member'[u].revoked <=> role = "none"
           /\ member'[u].role = IF role = "none" THEN member[u].role ELSE role
           /\ \A v \in Users \ {u} : member'[v] = member[v]
<1>1. member \in [Users -> MemberRow]
  BY DEF AccessInv, AccessTypeOK, MemberRow
<1>2. member' = [member EXCEPT ![u] =
                   [role |-> IF role = "none" THEN member[u].role ELSE role,
                    revoked |-> role = "none", revision |-> member[u].revision + 1]]
  BY DEF Changed
<1> DEFINE row == [role |-> IF role = "none" THEN member[u].role ELSE role,
                   revoked |-> role = "none", revision |-> member[u].revision + 1]
<1>3. /\ row \in MemberRow /\ row.revision > 0 /\ (row.revoked <=> role = "none")
      /\ row.role = IF role = "none" THEN member[u].role ELSE role
  <2>1. PICK x \in Roles \cup {"none"} : x = IF role = "none" THEN member[u].role ELSE role
    BY <1>1 DEF MemberRow
  <2>2. PICK n \in Nat : n = member[u].revision + 1 /\ n > 0
    BY <1>1 DEF MemberRow
  <2>3. PICK b \in BOOLEAN : b <=> role = "none"
    OBVIOUS
  <2>4. row = [role |-> x, revoked |-> b, revision |-> n]
    BY <2>1, <2>2, <2>3
  <2> QED
    BY <2>1, <2>2, <2>3, <2>4 DEF MemberRow
<1> HIDE DEF row
<1>4. member' = [member EXCEPT ![u] = row]
  BY <1>2 DEF row
<1> QED
  BY <1>1, <1>3, <1>4

\* The steps of a session that decide nothing.
LEMMA SessionStepKeeps ==
    ASSUME AccessInv, NEW k \in Slots,
           \/ SignOut(k) \/ ExpireSession(k)
           \/ \E u \in Users, role \in Roles \cup {"none"} : AuthorizeMemberChange(k, u, role)
           \/ \E i \in Offers : ReviewOffer(k, i)
    PROVE  AccessInv' /\ UNCHANGED <<account, binding, member, offer, login>>
<1>1. UNCHANGED <<account, binding, member, offer, login>>
  BY DEF SignOut, ExpireSession, AuthorizeMemberChange, ReviewOffer
<1>2. sessions[k] \in SessionRow
  BY DEF AccessInv, AccessTypeOK, SessionRow
<1>3. ASSUME NEW row \in SessionRow, sessions' = [sessions EXCEPT ![k] = row],
             row.state = "live" =>
              /\ sessions[k].state = "live" /\ row.user = sessions[k].user
              /\ row.subject = sessions[k].subject /\ row.proof = sessions[k].proof
      PROVE  AccessInv'
  <2>1. sessions' \in [Slots -> SessionRow] /\ \A j \in Slots : SessionFits(sessions[j])'
    BY <1>1, <1>3, SessionMoves
  <2> QED
    BY <1>1, <2>1 DEF AccessInv, AccessTypeOK, SessionRow, Unbound
<1>4. CASE SignOut(k) \/ ExpireSession(k)
  <2> DEFINE row == [sessions[k] EXCEPT !.state = "ended"]
  <2>1. row \in SessionRow /\ row.state = "ended"
    BY <1>2 DEF SessionRow
  <2>2. sessions' = [sessions EXCEPT ![k] = Settled(row)]
    BY <1>4 DEF SignOut, ExpireSession, Ended
  <2> HIDE DEF row
  <2>3. Settled(row) \in SessionRow /\ Settled(row).state # "live"
    BY <2>1, SettledRow
  <2>4. PICK z \in SessionRow : sessions' = [sessions EXCEPT ![k] = z] /\ z.state # "live"
    BY <2>2, <2>3
  <2> QED
    BY <1>1, <1>3, <2>4
<1>5. ASSUME NEW r \in PendingDecision, Began(k, r) PROVE AccessInv'
  <2> DEFINE row == [sessions[k] EXCEPT !.request = r]
  <2>1. /\ row \in SessionRow /\ row.state = sessions[k].state /\ row.user = sessions[k].user
        /\ row.subject = sessions[k].subject /\ row.proof = sessions[k].proof
    BY <1>2 DEF SessionRow
  <2>2. sessions' = [sessions EXCEPT ![k] = row]
    BY <1>5 DEF Began
  <2> HIDE DEF row
  <2> QED
    BY <1>3, <2>1, <2>2
<1>6. ASSUME NEW u \in Users, NEW role \in Roles \cup {"none"}, AuthorizeMemberChange(k, u, role)
      PROVE  AccessInv'
  <2>1. [kind |-> "member", target |-> u, role |-> role, expected |-> member[u].revision]
           \in PendingDecision
    BY DEF AccessInv, AccessTypeOK, PendingDecision
  <2> QED
    BY <1>5, <1>6, <2>1 DEF AuthorizeMemberChange
<1>7. ASSUME NEW i \in Offers, ReviewOffer(k, i) PROVE AccessInv'
  <2>1. [kind |-> "accept", offer |-> i] \in PendingDecision
    BY DEF PendingDecision
  <2> QED
    BY <1>5, <1>7, <2>1 DEF ReviewOffer
<1> QED
  BY <1>1, <1>4, <1>6, <1>7

\* The answer to a request: the session is the same and has none in flight.
LEMMA AnsweredRow ==
    ASSUME AccessInv, NEW k \in Slots, Answered(k), UNCHANGED binding
    PROVE  /\ sessions' \in [Slots -> SessionRow]
           /\ \A j \in Slots : SessionFits(sessions[j])'
           /\ sessions'[k].request = NoRequest
<1> DEFINE row == [sessions[k] EXCEPT !.request = NoRequest]
<1>1. sessions[k] \in SessionRow /\ sessions \in [Slots -> SessionRow]
  BY DEF AccessInv, AccessTypeOK, SessionRow
<1>2. /\ row \in SessionRow /\ row.state = sessions[k].state /\ row.user = sessions[k].user
      /\ row.subject = sessions[k].subject /\ row.proof = sessions[k].proof
      /\ row.request = NoRequest
  BY <1>1 DEF SessionRow, PendingDecision
<1>3. sessions' = [sessions EXCEPT ![k] = Settled(row)]
  BY DEF Answered
<1> HIDE DEF row
<1>4. /\ Settled(row) \in SessionRow /\ Settled(row).request = NoRequest
      /\ Settled(row).state = "live" => Settled(row) = row
  BY <1>2, SettledRow
<1>5. sessions' \in [Slots -> SessionRow] /\ \A j \in Slots : SessionFits(sessions[j])'
  BY <1>2, <1>3, <1>4, SessionMoves
<1> QED
  BY <1>1, <1>3, <1>4, <1>5

\* update_member under the workspace lock: decided by a live owner, or nothing.
LEMMA MemberDecision ==
    ASSUME AccessInv, NEW k \in Slots, DecideMemberChange(k)
    PROVE  AccessInv' /\ UNCHANGED <<account, binding, offer, login>>
<1> DEFINE r == sessions[k].request
<1>1. r.kind = "member" /\ Answered(k) /\ UNCHANGED <<account, binding, offer, login>>
  BY DEF DecideMemberChange
<1>2. r.target \in Users /\ r.role \in Roles \cup {"none"}
  <2>1. r \in PendingDecision
    BY DEF AccessInv, AccessTypeOK
  <2> QED
    BY <1>1, <2>1 DEF PendingDecision, NoRequest
<1>3. sessions' \in [Slots -> SessionRow] /\ \A j \in Slots : SessionFits(sessions[j])'
  BY <1>1, AnsweredRow
<1>4. member' \in [Users -> MemberRow] /\ \A u \in Users : member'[u].revoked => member'[u].revision > 0
  <2>1. CASE UNCHANGED member
    BY <2>1 DEF AccessInv, AccessTypeOK, MemberRow
  <2>2. CASE /\ Decided(sessions[k].user, r.target, r.role, r.expected)
             /\ member' = Changed(r.target, r.role)
    <3>1. /\ member' \in [Users -> MemberRow] /\ member'[r.target].revision > 0
          /\ \A v \in Users \ {r.target} : member'[v] = member[v]
      BY <1>2, <2>2, DecidedKeeps
    <3> QED
      BY <3>1 DEF AccessInv
  <2> QED
    BY <2>1, <2>2 DEF DecideMemberChange
<1> QED
  BY <1>1, <1>3, <1>4 DEF AccessInv, AccessTypeOK, SessionRow, MemberRow, Unbound

\* accept_invitation: the account of the session joins by the offer's live issuer, or the
\* request is answered and nothing else happens.
LEMMA Acceptance ==
    ASSUME AccessInv, NEW k \in Slots, DecideAcceptance(k)
    PROVE  AccessInv' /\ UNCHANGED <<account, binding, login>>
<1> DEFINE row == sessions[k]
           i == row.request.offer
<1>1. row.request.kind = "accept" /\ UNCHANGED <<account, binding, login>>
  BY DEF DecideAcceptance
<1>2. i \in Offers /\ row \in SessionRow /\ sessions \in [Slots -> SessionRow]
  <2>1. row.request \in PendingDecision /\ row \in SessionRow /\ sessions \in [Slots -> SessionRow]
    BY DEF AccessInv, AccessTypeOK, SessionRow
  <2> QED
    BY <1>1, <2>1 DEF PendingDecision, NoRequest
<1>3. CASE Answered(k) /\ UNCHANGED <<member, offer>>
  BY <1>1, <1>3, AnsweredRow DEF AccessInv, AccessTypeOK, SessionRow, Unbound
<1>4. CASE /\ Acceptable(k, i)
           /\ member' = Changed(row.user, offer[i].role)
           /\ offer' = [offer EXCEPT ![i].state = "accepted"]
           /\ sessions' = Issue(sessions, k, row.user, row.subject, row.proof)
  <2>1. /\ row.state = "live" /\ row.user \in Users
        /\ offer[i].role \in Roles \cup {"none"}
        /\ Decided(offer[i].by, row.user, offer[i].role, FirstRevision(row.user))
    BY <1>2, <1>4 DEF Acceptable, AccessInv, AccessTypeOK, SessionFits
  <2>2. /\ member' \in [Users -> MemberRow] /\ member'[row.user].revision > 0
        /\ \A v \in Users \ {row.user} : member'[v] = member[v]
    BY <1>4, <2>1, DecidedKeeps
  <2>3. offer' \in [Offers -> OfferRow]
    <3>1. offer' = [offer EXCEPT ![i] = [offer[i] EXCEPT !.state = "accepted"]]
      BY <1>4
    <3>2. [offer[i] EXCEPT !.state = "accepted"] \in OfferRow
      <4>1. PICK o \in OfferRow : o = offer[i]
        BY <1>2 DEF AccessInv, AccessTypeOK, OfferRow
      <4>2. [o EXCEPT !.state = "accepted"] \in OfferRow
        BY DEF OfferRow
      <4> QED
        BY <4>1, <4>2
    <3> QED
      BY <3>1, <3>2 DEF AccessInv, AccessTypeOK, OfferRow
  <2> DEFINE fresh == [user |-> row.user, subject |-> row.subject, proof |-> row.proof,
                       state |-> "live", request |-> NoRequest]
  <2>4. fresh \in SessionRow /\ fresh.user = row.user /\ fresh.subject = row.subject
           /\ fresh.proof = row.proof
    BY <1>2 DEF SessionRow, PendingDecision
  <2>5. sessions' = [sessions EXCEPT ![k] = fresh]
    BY <1>4 DEF Issue
  <2> HIDE DEF fresh
  <2>6. sessions' \in [Slots -> SessionRow] /\ \A j \in Slots : SessionFits(sessions[j])'
    BY <1>1, <2>1, <2>4, <2>5, SessionMoves
  <2>7. \A u \in Users : member'[u].revoked => member'[u].revision > 0
    BY <2>2 DEF AccessInv
  <2> QED
    BY <1>1, <2>2, <2>3, <2>6, <2>7
       DEF AccessInv, AccessTypeOK, SessionRow, MemberRow, OfferRow, Unbound
<1> QED
  BY <1>1, <1>3, <1>4 DEF DecideAcceptance

\* Logins: a session is issued only to the account its subject is bound to.
LEMMA LoginKeeps ==
    ASSUME AccessInv, NEW b \in Browsers, LoginStep(b)
    PROVE  AccessInv' /\ UNCHANGED <<member, offer>>
<1>1. ASSUME NEW c \in Offers \cup {Nobody}, login' = [login EXCEPT ![b] = c],
             UNCHANGED <<account, binding, member, offer, sessions>>
      PROVE  AccessInv'
  BY <1>1 DEF AccessInv, AccessTypeOK, SessionFits, BoundTo, Unbound
<1>2. ASSUME NEW k \in Slots, NEW s \in Subjects, NEW u \in Users, IssueGithubSession(b, k, s, u)
      PROVE  AccessInv' /\ UNCHANGED <<member, offer>>
  <2>1. /\ sessions' = Issue(sessions, k, u, s, s) /\ login' = [login EXCEPT ![b] = Nobody]
        /\ UNCHANGED <<member, offer>>
    BY <1>2 DEF IssueGithubSession
  <2>2. /\ account' \in [Users -> {"absent", "enabled", "disabled"}]
        /\ binding' \in [Subjects -> [user : Users \cup {Nobody}, revoked : BOOLEAN]]
        /\ binding'[s] = [user |-> u, revoked |-> FALSE]
        /\ \A t \in Subjects \ {s} : binding'[t] = binding[t]
        /\ binding'[s] = binding[s] \/ Unbound(s)
    <3>1. CASE BoundTo(s, u) /\ UNCHANGED <<account, binding>>
      BY <3>1 DEF AccessInv, AccessTypeOK, BoundTo
    <3>2. CASE /\ Provisions(s, login[b], u)
               /\ account' = [account EXCEPT ![u] = "enabled"]
               /\ binding' = [binding EXCEPT ![s].user = u]
      <4>1. Unbound(s) /\ ~binding[s].revoked
        BY <3>2 DEF Provisions, AccessInv
      <4>2. binding' = [binding EXCEPT ![s] = [binding[s] EXCEPT !.user = u]]
        BY <3>2
      <4>3. [binding[s] EXCEPT !.user = u] = [user |-> u, revoked |-> FALSE]
        <5>1. PICK w \in [user : Users \cup {Nobody}, revoked : BOOLEAN] : w = binding[s]
          BY DEF AccessInv, AccessTypeOK
        <5>2. w.revoked = FALSE
          BY <4>1, <5>1
        <5>3. [w EXCEPT !.user = u] = [user |-> u, revoked |-> w.revoked]
          OBVIOUS
        <5> QED
          BY <5>1, <5>2, <5>3
      <4>4. binding' = [binding EXCEPT ![s] = [user |-> u, revoked |-> FALSE]]
        BY <4>2, <4>3
      <4>5. binding \in [Subjects -> [user : Users \cup {Nobody}, revoked : BOOLEAN]]
        BY DEF AccessInv, AccessTypeOK
      <4>6. [user |-> u, revoked |-> FALSE] \in [user : Users \cup {Nobody}, revoked : BOOLEAN]
        OBVIOUS
      <4>7. account' \in [Users -> {"absent", "enabled", "disabled"}]
        BY <3>2 DEF AccessInv, AccessTypeOK
      <4> QED
        BY <4>1, <4>4, <4>5, <4>6, <4>7
    <3> QED
      BY <1>2, <3>1, <3>2 DEF IssueGithubSession
  <2> DEFINE fresh == [user |-> u, subject |-> s, proof |-> s, state |-> "live",
                       request |-> NoRequest]
  <2>3. fresh \in SessionRow /\ fresh.user = u /\ fresh.subject = s /\ fresh.proof = s
    BY DEF SessionRow, PendingDecision
  <2>4. sessions' = [sessions EXCEPT ![k] = fresh]
    BY <2>1 DEF Issue
  <2> HIDE DEF fresh
  <2>5. SessionFits(fresh)'
    BY <2>2, <2>3 DEF SessionFits, BoundTo
  <2>6. ASSUME NEW j \in Slots \ {k} PROVE SessionFits(sessions[j])'
    <3>1. sessions'[j] = sessions[j] /\ sessions[j].proof \in Subjects \cup {Nobody}
             /\ SessionFits(sessions[j])
      BY <2>4 DEF AccessInv, AccessTypeOK
    <3>2. sessions[j].proof = s /\ sessions[j].state = "live" => ~Unbound(s)
      BY <3>1, AccessAssumption DEF SessionFits, BoundTo, Unbound
    <3> QED
      BY <2>2, <3>1, <3>2 DEF SessionFits, BoundTo
  <2>7. sessions' \in [Slots -> SessionRow] /\ sessions'[k] = fresh
    BY <2>3, <2>4 DEF AccessInv, AccessTypeOK, SessionRow
  <2>8. \A j \in Slots : SessionFits(sessions[j])'
    BY <2>5, <2>6, <2>7
  <2>9. \A t \in Subjects : Unbound(t)' => ~binding'[t].revoked
    BY <2>2 DEF AccessInv, Unbound
  <2>10. login' \in [Browsers -> Offers \cup {Nobody}]
    BY <2>1 DEF AccessInv, AccessTypeOK
  <2> QED
    BY <2>1, <2>2, <2>7, <2>8, <2>9, <2>10 DEF AccessInv, AccessTypeOK, SessionRow
<1> QED
  BY <1>1, <1>2 DEF LoginStep, GithubLogin, LoginEnds

\* Offers are made, withdrawn or expire; nothing else moves.
LEMMA OfferKeeps ==
    ASSUME AccessInv,
           \/ \E k \in Slots, i \in Offers, s \in Subjects, role \in Roles : Invite(k, i, s, role)
           \/ \E k \in Slots, i \in Offers : Withdraw(k, i)
           \/ \E i \in Offers : ExpireOffer(i)
    PROVE  AccessInv' /\ UNCHANGED <<account, binding, member, sessions, login>>
<1>1. UNCHANGED <<account, binding, member, sessions, login>>
  BY DEF Invite, Withdraw, ExpireOffer
<1>2. offer \in [Offers -> OfferRow]
  BY DEF AccessInv, AccessTypeOK, OfferRow
<1>3. PICK i \in Offers, o \in OfferRow : offer' = [offer EXCEPT ![i] = o]
  <2>1. ASSUME NEW k \in Slots, NEW i \in Offers, NEW s \in Subjects, NEW role \in Roles,
               Invite(k, i, s, role)
        PROVE  \E o \in OfferRow : offer' = [offer EXCEPT ![i] = o]
    <3>1. sessions[k].user \in Users \cup {Nobody}
      BY DEF AccessInv, AccessTypeOK
    <3>2. [state |-> "pending", subject |-> s, role |-> role, by |-> sessions[k].user,
           expired |-> FALSE] \in OfferRow
      BY <3>1 DEF OfferRow
    <3> QED
      BY <2>1, <3>2 DEF Invite
  <2>2. ASSUME NEW k \in Slots, NEW i \in Offers, Withdraw(k, i)
        PROVE  \E o \in OfferRow : offer' = [offer EXCEPT ![i] = o]
    <3>1. [offer[i] EXCEPT !.state = "revoked"] \in OfferRow
      BY <1>2 DEF OfferRow
    <3> QED
      BY <2>2, <3>1 DEF Withdraw
  <2>3. ASSUME NEW i \in Offers, ExpireOffer(i)
        PROVE  \E o \in OfferRow : offer' = [offer EXCEPT ![i] = o]
    <3>1. [offer[i] EXCEPT !.expired = TRUE] \in OfferRow
      BY <1>2 DEF OfferRow
    <3> QED
      BY <2>3, <3>1 DEF ExpireOffer
  <2> QED
    BY <2>1, <2>2, <2>3
<1>4. offer' \in [Offers -> OfferRow]
  BY <1>2, <1>3
<1> QED
  BY <1>1, <1>4 DEF AccessInv, AccessTypeOK, OfferRow, SessionFits, BoundTo, Unbound

\* Accounts and bindings, which the operator and provisioning change, and the local sign-in.
LEMMA AccountKeeps ==
    ASSUME AccessInv,
           \/ \E u \in Users : DisableAccount(u) \/ \E k \in Slots : SignIn(k, u)
           \/ \E s \in Subjects : RevokeBinding(s) \/ \E u \in Users : BindAccount(s, u)
    PROVE  AccessInv' /\ UNCHANGED <<member, offer, login>>
<1> DEFINE Binding == [user : Users \cup {Nobody}, revoked : BOOLEAN]
<1>1. sessions \in [Slots -> SessionRow] /\ binding \in [Subjects -> Binding]
  BY DEF AccessInv, AccessTypeOK, SessionRow
<1>2. ASSUME NEW u \in Users, DisableAccount(u)
      PROVE  AccessInv' /\ UNCHANGED <<member, offer, login>>
  BY <1>2 DEF DisableAccount, AccessInv, AccessTypeOK, SessionFits, BoundTo, Unbound
<1>3. ASSUME NEW u \in Users, NEW k \in Slots, SignIn(k, u)
      PROVE  AccessInv' /\ UNCHANGED <<member, offer, login>>
  <2> DEFINE fresh == [user |-> u, subject |-> Nobody, proof |-> Nobody, state |-> "live",
                       request |-> NoRequest]
  <2>1. fresh \in SessionRow /\ fresh.user = u /\ fresh.proof = Nobody
    BY DEF SessionRow, PendingDecision
  <2>2. /\ sessions' = [sessions EXCEPT ![k] = fresh]
        /\ UNCHANGED <<account, binding, member, offer, login>>
    BY <1>3 DEF SignIn, Issue
  <2> HIDE DEF fresh
  <2>3. sessions' \in [Slots -> SessionRow] /\ \A j \in Slots : SessionFits(sessions[j])'
    BY <1>1, <2>1, <2>2 DEF AccessInv, SessionFits, BoundTo
  <2> QED
    BY <2>2, <2>3 DEF AccessInv, AccessTypeOK, SessionRow, Unbound
<1>4. ASSUME NEW s \in Subjects, RevokeBinding(s)
      PROVE  AccessInv' /\ UNCHANGED <<member, offer, login>>
  <2>1. /\ ~Unbound(s) /\ UNCHANGED <<account, member, offer, login>>
        /\ binding' = [binding EXCEPT ![s] = [binding[s] EXCEPT !.revoked = TRUE]]
        /\ sessions' = [k \in Slots |-> IF sessions[k].subject = s THEN Ended(sessions[k])
                                        ELSE sessions[k]]
    BY <1>4 DEF RevokeBinding
  <2>2. [binding[s] EXCEPT !.revoked = TRUE] \in Binding
           /\ [binding[s] EXCEPT !.revoked = TRUE].user = binding[s].user
    BY <1>1
  <2>3. binding' \in [Subjects -> Binding] /\ \A t \in Subjects : Unbound(t)' => ~binding'[t].revoked
    BY <1>1, <2>1, <2>2 DEF AccessInv, Unbound
  <2>4. ASSUME NEW k \in Slots PROVE sessions'[k] \in SessionRow /\ SessionFits(sessions[k])'
    <3>1. CASE sessions[k].subject = s
      <4> DEFINE row == [sessions[k] EXCEPT !.state = "ended"]
      <4>1. row \in SessionRow /\ row.state = "ended"
        BY <1>1 DEF SessionRow
      <4>2. sessions'[k] = Settled(row)
        BY <2>1, <3>1 DEF Ended
      <4> HIDE DEF row
      <4>3. Settled(row) \in SessionRow /\ Settled(row).state # "live"
        BY <4>1, SettledRow
      <4> QED
        BY <4>2, <4>3 DEF SessionFits
    <3>2. CASE sessions[k].subject # s
      <4>1. sessions'[k] = sessions[k] /\ sessions[k] \in SessionRow /\ SessionFits(sessions[k])
        BY <1>1, <2>1, <3>2 DEF AccessInv
      <4>2. sessions[k].proof \in Subjects \cup {Nobody}
        BY <4>1 DEF SessionRow
      <4> QED
        BY <1>1, <2>1, <3>2, <4>1, <4>2 DEF SessionFits, BoundTo
    <3> QED
      BY <3>1, <3>2
  <2>5. sessions' \in [Slots -> SessionRow]
    BY <2>1, <2>4
  <2> QED
    BY <2>1, <2>3, <2>4, <2>5 DEF AccessInv, AccessTypeOK, SessionRow
<1>5. ASSUME NEW s \in Subjects, NEW u \in Users, BindAccount(s, u)
      PROVE  AccessInv' /\ UNCHANGED <<member, offer, login>>
  <2>1. /\ Unbound(s) /\ UNCHANGED <<account, member, offer, sessions, login>>
        /\ binding' = [binding EXCEPT ![s] = [binding[s] EXCEPT !.user = u]]
    BY <1>5 DEF BindAccount
  <2>2. [binding[s] EXCEPT !.user = u] \in Binding /\ [binding[s] EXCEPT !.user = u].user = u
    BY <1>1
  <2>3. binding' \in [Subjects -> Binding] /\ \A t \in Subjects : Unbound(t)' => ~binding'[t].revoked
    BY <1>1, <2>1, <2>2, AccessAssumption DEF AccessInv, Unbound
  <2>4. ASSUME NEW k \in Slots PROVE SessionFits(sessions[k])'
    <3>1. sessions'[k] = sessions[k] /\ sessions[k].proof \in Subjects \cup {Nobody}
             /\ SessionFits(sessions[k])
      BY <2>1 DEF AccessInv, AccessTypeOK
    <3>2. sessions[k].proof = s /\ sessions[k].state = "live" => ~Unbound(s)
      BY <3>1, AccessAssumption DEF SessionFits, BoundTo, Unbound
    <3> QED
      BY <1>1, <2>1, <3>1, <3>2 DEF SessionFits, BoundTo
  <2> QED
    BY <2>1, <2>3, <2>4 DEF AccessInv, AccessTypeOK
<1> QED
  BY <1>2, <1>3, <1>4, <1>5

LEMMA AccessInvariance == AccessSpec => []AccessInv
<1>1. AccessInv /\ [AccessNext]_accessVars => AccessInv'
  <2> SUFFICES ASSUME AccessInv, [AccessNext]_accessVars PROVE AccessInv'
    OBVIOUS
  <2>1. CASE UNCHANGED accessVars
    BY <2>1 DEF accessVars, AccessInv, AccessTypeOK, SessionFits, BoundTo, Unbound
  <2>2. ASSUME NEW k \in Slots, SessionStep(k) PROVE AccessInv'
    BY <2>2, SessionStepKeeps, OfferKeeps, MemberDecision, Acceptance DEF SessionStep
  <2> QED
    BY <2>1, <2>2, LoginKeeps, OfferKeeps, AccountKeeps DEF AccessNext
<1> QED
  BY <1>1, AccessInitially, PTL DEF AccessSpec

\* Whose decision a request is: the offer's issuer, or the requester.
Decider(k) == IF sessions[k].request.kind = "accept" THEN offer[sessions[k].request.offer].by
              ELSE sessions[k].user

\* Memberships change only by a decision that was asked for, under a live owner.
LEMMA MembersMove ==
    ASSUME AccessInv, AccessNext, member' # member
    PROVE  \E k \in Slots, u \in Users, role \in Roles \cup {"none"}, expected \in Nat :
             /\ sessions[k].request # NoRequest /\ sessions'[k].request = NoRequest
             /\ \/ /\ sessions[k].request.kind = "member" /\ sessions[k].request.target = u
                   /\ offer' = offer
                \/ expected = 0
             /\ Decided(Decider(k), u, role, expected) /\ member' = Changed(u, role)
             /\ account' = account
<1>1. PICK k \in Slots : DecideMemberChange(k) \/ DecideAcceptance(k)
  <2>1. ASSUME NEW k \in Slots, SessionStep(k)
        PROVE  DecideMemberChange(k) \/ DecideAcceptance(k)
    BY <2>1, SessionStepKeeps, OfferKeeps DEF SessionStep
  <2> QED
    BY <2>1, LoginKeeps, OfferKeeps, AccountKeeps DEF AccessNext
<1> DEFINE r == sessions[k].request
<1>2. r \in PendingDecision
  BY DEF AccessInv, AccessTypeOK
<1>3. CASE DecideMemberChange(k)
  <2>1. /\ r.kind = "member" /\ r # NoRequest /\ sessions'[k].request = NoRequest
        /\ UNCHANGED <<account, offer>>
        /\ Decided(sessions[k].user, r.target, r.role, r.expected)
        /\ member' = Changed(r.target, r.role)
    BY <1>3, AnsweredRow DEF DecideMemberChange, NoRequest
  <2>2. r.target \in Users /\ r.role \in Roles \cup {"none"} /\ r.expected \in Nat
    BY <1>2, <2>1 DEF PendingDecision, NoRequest
  <2>3. Decider(k) = sessions[k].user
    BY <2>1 DEF Decider
  <2> QED
    BY <2>1, <2>2, <2>3
<1>4. CASE DecideAcceptance(k)
  <2> DEFINE i == r.offer
  <2>1. /\ r.kind = "accept" /\ r # NoRequest /\ account' = account
        /\ Acceptable(k, i) /\ member' = Changed(sessions[k].user, offer[i].role)
        /\ sessions' = Issue(sessions, k, sessions[k].user, sessions[k].subject,
                             sessions[k].proof)
    BY <1>4 DEF DecideAcceptance, NoRequest
  <2>2. sessions'[k].request = NoRequest
    BY <2>1 DEF Issue, AccessInv, AccessTypeOK
  <2>3. i \in Offers
    BY <1>2, <2>1 DEF PendingDecision, NoRequest
  <2>4. /\ sessions[k].user \in Users /\ offer[i].role \in Roles \cup {"none"}
        /\ Decided(Decider(k), sessions[k].user, offer[i].role, 0)
    BY <2>1, <2>3 DEF Acceptable, FirstRevision, Decider, AccessInv, AccessTypeOK, SessionFits
  <2> QED
    BY <2>1, <2>2, <2>4
<1> QED
  BY <1>1, <1>3, <1>4

\* Sessions follow identity, memberships the live owners of the moment, the removed stay
\* out, and no decision takes the last owner away, for any people, offers and browsers.
THEOREM GovernedAccess == AccessSpec => AccessIsGoverned
<1>1. AccessInv => AccessTypeOK /\ SessionsFollowIdentity
  BY DEF AccessInv, SessionFits, SessionsFollowIdentity
<1>2. \A u \in Users : OwnsNow(u) <=> LiveOwner(u)
  BY DEF OwnsNow, LiveOwner, LiveMember, Enabled
<1>3. AccessInv /\ [AccessNext]_accessVars =>
        [account' = account /\ OwnersNow # {} => OwnersNow' # {}]_accessVars
  <2> SUFFICES ASSUME AccessInv, AccessNext, account' = account, OwnersNow # {}
               PROVE  OwnersNow' # {}
    OBVIOUS
  <2>1. CASE member' = member
    BY <2>1 DEF OwnersNow, OwnsNow
  <2>2. CASE member' # member
    <3>1. PICK k \in Slots, u \in Users, role \in Roles \cup {"none"}, expected \in Nat :
            Decided(Decider(k), u, role, expected) /\ member' = Changed(u, role)
      BY <2>2, MembersMove
    <3>2. /\ member' \in [Users -> MemberRow] /\ member'[u].revision > 0
          /\ member'[u].revoked <=> role = "none"
          /\ member'[u].role = IF role = "none" THEN member[u].role ELSE role
          /\ \A v \in Users \ {u} : member'[v] = member[v]
      BY <3>1, DecidedKeeps
    <3>3. \A v \in Users \ {u} : OwnsNow(v) => v \in OwnersNow'
      BY <3>2 DEF OwnersNow, OwnsNow
    <3>4. CASE OwnsNow(u) /\ role # "OWNER"
      <4>1. Cardinality(LiveOwners) > 1
        BY <3>1, <3>4 DEF Decided, OwnsNow, Active
      <4>2. LiveOwners # {u}
        BY <4>1, FS_Singleton
      <4>3. u \in LiveOwners
        BY <1>2, <3>4 DEF LiveOwners
      <4>4. PICK v \in LiveOwners : v # u
        BY <4>2, <4>3
      <4> QED
        BY <1>2, <3>3, <4>4 DEF LiveOwners
    <3>5. CASE OwnsNow(u) /\ role = "OWNER"
      <4>1. OwnsNow(u)'
        BY <3>2, <3>5 DEF OwnsNow
      <4> QED
        BY <4>1 DEF OwnersNow
    <3>6. CASE ~OwnsNow(u)
      BY <3>3, <3>6 DEF OwnersNow
    <3> QED
      BY <3>4, <3>5, <3>6
  <2> QED
    BY <2>1, <2>2
<1>4. AccessInv /\ [AccessNext]_accessVars =>
        [\A u \in Users :
           member[u].revoked /\ ~member'[u].revoked
             => /\ offer' = offer
                /\ \E k \in Slots :
                     /\ sessions[k].request # NoRequest /\ sessions[k].request.kind = "member"
                     /\ OwnsNow(sessions[k].user) /\ sessions[k].request.target = u]_accessVars
  <2> SUFFICES ASSUME AccessInv, AccessNext, NEW u \in Users,
                      member[u].revoked, ~member'[u].revoked
               PROVE  /\ offer' = offer
                      /\ \E k \in Slots :
                           /\ sessions[k].request # NoRequest
                           /\ sessions[k].request.kind = "member"
                           /\ OwnsNow(sessions[k].user) /\ sessions[k].request.target = u
    OBVIOUS
  <2>1. PICK k \in Slots, w \in Users, role \in Roles \cup {"none"}, expected \in Nat :
          /\ sessions[k].request # NoRequest
          /\ \/ /\ sessions[k].request.kind = "member" /\ sessions[k].request.target = w
                /\ offer' = offer
             \/ expected = 0
          /\ Decided(Decider(k), w, role, expected) /\ member' = Changed(w, role)
    BY MembersMove
  <2>2. u = w
    BY <2>1, DecidedKeeps
  <2>3. expected # 0 /\ LiveOwner(Decider(k))
    BY <2>1, <2>2 DEF Decided, AccessInv
  <2> QED
    BY <2>1, <2>2, <2>3 DEF Decider, OwnsNow, LiveOwner, LiveMember, Enabled
<1>5. AccessInv /\ [AccessNext]_accessVars =>
        [\A u \in Users :
           member'[u] # member[u]
             => \E k \in Slots :
                  /\ sessions[k].request # NoRequest /\ sessions'[k].request = NoRequest
                  /\ OwnsNow(IF sessions[k].request.kind = "accept"
                               THEN offer[sessions[k].request.offer].by
                               ELSE sessions[k].user)]_accessVars
  <2> SUFFICES ASSUME AccessInv, AccessNext, member' # member
               PROVE  \E k \in Slots :
                        /\ sessions[k].request # NoRequest /\ sessions'[k].request = NoRequest
                        /\ OwnsNow(IF sessions[k].request.kind = "accept"
                                     THEN offer[sessions[k].request.offer].by
                                     ELSE sessions[k].user)
    OBVIOUS
  <2>1. PICK k \in Slots :
          /\ sessions[k].request # NoRequest /\ sessions'[k].request = NoRequest
          /\ LiveOwner(Decider(k))
    BY MembersMove DEF Decided
  <2> QED
    BY <2>1 DEF Decider, OwnsNow, LiveOwner, LiveMember, Enabled
<1> QED
  BY <1>1, <1>3, <1>4, <1>5, AccessInvariance, PTL
     DEF AccessSpec, AccessIsGoverned, OwnershipSurvivesDecisions, RemovedStayOut,
         DecidedByLiveOwners

=============================================================================
