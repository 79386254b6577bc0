--------------------------- MODULE ExecutionProofs ---------------------------
(***************************************************************************)
(* Executions around the desktop: the unpatched original with its trial    *)
(* and reader, and the navigator, bridge and runner of a native execution. *)
(*                                                                         *)
(* The original.  The places of builder and coordinator say what their     *)
(* attempts, containers and socket have gone through (BuildPlace,          *)
(* TrialPlace), a desktop is leased only when nothing is under way         *)
(* (DeskOrder), and a POST needs its socket and its consumed permit        *)
(* (FormPlace); with VerdictLeavesNothing these are inductive.             *)
(*                                                                         *)
(* The native execution, for any navigators and bounds.  One navigator at  *)
(* most holds a turn, and it is the last (TurnsInv).  The request a runner *)
(* works on is that of the last turn, so no other turn opens meanwhile     *)
(* (RequestInv); the runner's place says how far server, journal and       *)
(* desktop have come with the action (ActionInv), and what they say of an  *)
(* action never contradicts (AgreementInv).  A run is received once, and   *)
(* nothing moves after it is finished (ReceptionInv).                      *)
(*                                                                         *)
(* The row locks.  No row is held by two that conflict over it (HeldApart);*)
(* rows are taken upwards in one order, and those under a run only after   *)
(* the run (InOrder), so that waiting leads upwards (WaitsUpwards).        *)
(***************************************************************************)
EXTENDS BaselineRun, NativeExecution, RowLocks, FiniteSetTheorems, SequenceTheorems, TLAPS

-----------------------------------------------------------------------------
(* The unpatched original of a run.                                        *)

\* The states of a build that was dispatched and has no verdict.
Undecided == {"DISPATCHED", "UNKNOWN"}

\* What the build worker's place says of its attempt and its container.
BuildPlace ==
  /\ builder \in {"idle", "prepared"} => build.state = "none"
  /\ builder = "claimed" => build.state \in {"CLAIMED", "UNKNOWN"}
  /\ builder \in {"dispatched", "creating", "running", "built", "failing", "unclean"} =>
       build.state \in Undecided
  /\ builder \in {"claimed", "dispatched"} => build.container = "none"
  /\ builder \in {"built", "failing"} => build.container = "gone"
  /\ builder \in {"captured", "uploading", "uploaded"} => build.state = "CAPTURED"
  /\ build.state = "none" => build.container = "none"
  /\ build.state \in {"CAPTURED", "FAILED"} => build.container \notin {"created", "recorded"}

\* What the coordinator's place says of the trial, its process and its endpoint.
TrialPlace ==
  /\ tester \in {"idle", "read"} => trial.state = "none"
  /\ tester = "claimed" => trial.state \in {"CLAIMED", "UNKNOWN"}
  /\ tester \notin {"idle", "read", "claimed", "over"} => trial.state \in Undecided
  /\ trial.state \in {"PASSED", "FAILED"} => tester = "over"
  /\ trial.state = "none" => trial.row = "none"
  /\ tester \in {"claimed", "launching"} => trial.row = "none"
  /\ tester = "creating" => trial.row = "PLANNED"
  /\ tester = "failing" => trial.row \in {"none", "REMOVED"}
  /\ trial.row = "none" => trial.container = "none"
  /\ trial.row = "REMOVED" => trial.container = "gone"
  /\ site.socket => tester \in {"serving", "closing", "broken", "tainted", "unclean", "over"}
  /\ site.socket => trial.state \in Undecided

\* A desktop is leased to a run whose baseline is not under way, and once it is, nothing of the
\* baseline starts: what is up belongs to the session whose reader it is.
DeskOrder ==
  /\ desk.reader => desk.lease # "none"
  /\ desk.lease # "none" =>
       /\ build.state \in {"none", "CAPTURED"}
       /\ desk.reader \/ trial.state \in {"none", "PASSED"}

\* The form's permit is opened, consumed and answered once, and only a socket carries a POST.
FormPlace ==
  /\ form.http # "idle" => site.socket /\ form.permit = "consumed"
  /\ form.http \in {"begun", "checked"} \/ form.permit \in {"none", "open"} => form.posts = 0
  /\ form.posts <= 1
  /\ form.action = "none" => form.permit = "none"
  /\ form.action = "known" => form.permit # "consumed"

BaselineInv ==
  /\ BaselineTypeOK /\ BuildPlace /\ TrialPlace /\ DeskOrder /\ FormPlace /\ VerdictLeavesNothing


\* An original that nothing was done with yet.
LEMMA BaselineBegins == BaselineInit => BaselineInv
<1> SUFFICES ASSUME BaselineInit PROVE BaselineInv
    OBVIOUS
<1>1. BaselineTypeOK
    BY DEF BaselineInit, BaselineTypeOK
<1>2. BuildPlace /\ TrialPlace /\ DeskOrder /\ FormPlace /\ VerdictLeavesNothing
    BY DEF BaselineInit, BuildPlace, TrialPlace, DeskOrder, FormPlace, VerdictLeavesNothing
<1> QED
    BY <1>1, <1>2 DEF BaselineInv

\* The invariant gives what the run checks.
LEMMA BaselineInvGives == BaselineInv => BaselineIsTrustworthy
<1> SUFFICES ASSUME BaselineInv PROVE BaselineIsTrustworthy
    OBVIOUS
<1>0. BaselineTypeOK /\ VerdictLeavesNothing
    BY DEF BaselineInv
<1>1. DesktopMeetsSettledBaseline
  <2> SUFFICES ASSUME desk.lease # "none" PROVE DesktopMeetsSettledBaseline
      BY DEF DesktopMeetsSettledBaseline
  <2>1. build.container \notin {"created", "recorded"}
      BY DEF BaselineInv, DeskOrder, BuildPlace
  <2>2. trial.container = "up" \/ site.socket => desk.reader
      BY <1>0 DEF BaselineInv, DeskOrder, TrialPlace, Undecided, VerdictLeavesNothing
  <2> QED
      BY <2>1, <2>2 DEF DesktopMeetsSettledBaseline
<1>2. FormIsOnce
  <2>1. form.permit \in {"none", "open", "consumed", "responded"}
      BY <1>0 DEF BaselineTypeOK
  <2> QED
      BY <2>1 DEF BaselineInv, FormPlace, FormIsOnce
<1> QED
    BY <1>0, <1>1, <1>2 DEF BaselineIsTrustworthy

\* The rows the steps write, one set for each.
BuildRow == [state : {"none", "CLAIMED", "DISPATCHED", "CAPTURED", "FAILED", "UNKNOWN"},
             leased : BOOLEAN, container : {"none", "created", "recorded", "gone"}]
StockRow == [state : {"none", "QUARANTINED", "RETAINED", "DELETED"},
             object : {"none", "stored", "tombstone"},
             retire : {"none", "requested", "completed"}, aged : BOOLEAN]
TrialRow == [state : {"none", "CLAIMED", "DISPATCHED", "PASSED", "FAILED", "UNKNOWN"},
             leased : BOOLEAN, served : BOOLEAN, row : {"none", "PLANNED", "CREATED", "REMOVED"},
             container : {"none", "up", "gone"}]
SiteRow == [state : {"none", "PLANNED", "BOUND", "CLOSED", "UNKNOWN"}, live : BOOLEAN,
            receipt : BOOLEAN, socket : BOOLEAN, session : BOOLEAN]
DeskRow == [lease : {"none", "held", "stopped", "fenced"}, reader : BOOLEAN]
FormRow == [action : {"none", "dispatched", "known", "ambiguous"},
            permit : {"none", "open", "consumed", "responded"}, live : BOOLEAN,
            http : {"idle", "begun", "checked", "sent"}, posts : 0 .. 2]
BuilderPlace == {"idle", "prepared", "claimed", "dispatched", "creating", "running", "built",
                 "failing", "unclean", "captured", "uploading", "uploaded", "over"}
TesterPlace == {"idle", "read", "claimed", "launching", "creating", "created", "planned", "serving",
                "closing", "broken", "checking", "sweeping", "tainted", "passing", "failing", "unclean", "over"}

\* Every row is in its set.
LEMMA BaselineTyped ==
    BaselineTypeOK <=>
      /\ consented \in BOOLEAN
      /\ queued \in [status : {"QUEUED", "LEASED", "COMPLETED"}, cancelled : BOOLEAN]
      /\ build \in BuildRow /\ stock \in StockRow /\ trial \in TrialRow /\ site \in SiteRow
      /\ desk \in DeskRow /\ form \in FormRow
      /\ builder \in BuilderPlace /\ tester \in TesterPlace /\ keeper \in {"idle", "retiring", "retired"}
BY DEF BaselineTypeOK, BuildRow, StockRow, TrialRow, SiteRow, DeskRow, FormRow, BuilderPlace,
   TesterPlace

\* The same of the next state.
LEMMA BaselineTypedNext ==
    ASSUME /\ consented' \in BOOLEAN
           /\ queued' \in [status : {"QUEUED", "LEASED", "COMPLETED"}, cancelled : BOOLEAN]
           /\ build' \in BuildRow /\ stock' \in StockRow /\ trial' \in TrialRow /\ site' \in SiteRow
           /\ desk' \in DeskRow /\ form' \in FormRow
           /\ builder' \in BuilderPlace /\ tester' \in TesterPlace /\ keeper' \in {"idle", "retiring", "retired"}
    PROVE  BaselineTypeOK'
BY DEF BaselineTypeOK, BuildRow, StockRow, TrialRow, SiteRow, DeskRow, FormRow, BuilderPlace,
   TesterPlace

\* The steps of the build, and of its archive.
LEMMA BaselineBuildKeeps == ASSUME BaselineInv, BuildStep PROVE BaselineInv'
<1>0. /\ BaselineTypeOK /\ BuildPlace /\ TrialPlace /\ DeskOrder /\ FormPlace /\ VerdictLeavesNothing
      /\ build \in BuildRow /\ stock \in StockRow /\ builder \in BuilderPlace
    BY BaselineTyped DEF BaselineInv
<1>1. /\ UNCHANGED <<consented, queued, desk, trial, site, form, tester, keeper>>
      /\ build' \in BuildRow /\ builder' \in BuilderPlace /\ BuildPlace'
      /\ desk.lease # "none" => build'.state \in {"none", "CAPTURED"}

  <2>1. CASE PrepareSource
      BY <1>0, <2>1 DEF PrepareSource, Building, runSide, trialSide, BuildRow, BuilderPlace,
         BuildPlace, DeskOrder, Undecided
  <2>2. CASE ClaimBaseline
      BY <1>0, <2>2 DEF ClaimBaseline, Building, Unleased, runSide, trialSide, BuildRow,
         BuilderPlace, BuildPlace, DeskOrder, Undecided
  <2>3. CASE DispatchBaseline
      BY <1>0, <2>3 DEF DispatchBaseline, Building, BuildOwned, runSide, trialSide, BuildRow,
         BuilderPlace, BuildPlace, DeskOrder, Undecided
  <2>4. CASE CreateBaseline
      BY <1>0, <2>4 DEF CreateBaseline, Building, runSide, trialSide, BuildRow, BuilderPlace,
         BuildPlace, DeskOrder, Undecided
  <2>5. CASE RecordBaseline
      BY <1>0, <2>5 DEF RecordBaseline, Building, runSide, trialSide, BuildRow, BuilderPlace,
         BuildPlace, DeskOrder, Undecided
  <2>6. CASE BaselineEnds
      BY <1>0, <2>6 DEF BaselineEnds, Building, runSide, trialSide, BuildRow, BuilderPlace,
         BuildPlace, DeskOrder, Undecided
  <2>7. CASE CaptureBaseline
      BY <1>0, <2>7 DEF CaptureBaseline, Building, BuildOwned, Unleased, runSide, trialSide,
         BuildRow, BuilderPlace, BuildPlace, DeskOrder, Undecided
  <2>8. CASE FailBaseline
      BY <1>0, <2>8 DEF FailBaseline, Building, BuildOwned, FencedBuild, runSide, trialSide,
         BuildRow, BuilderPlace, BuildPlace, DeskOrder, Undecided
  <2>9. CASE BuildLeaseLapses
      BY <1>0, <2>9 DEF BuildLeaseLapses, runSide, trialSide, BuildRow, BuilderPlace, BuildPlace,
         DeskOrder, Undecided
  <2>10. CASE FenceBuild
      BY <1>0, <2>10 DEF FenceBuild, FencedBuild, runSide, trialSide, BuildRow, BuilderPlace,
         BuildPlace, DeskOrder, Undecided
  <2>11. CASE RetainBaseline
      BY <1>0, <2>11 DEF RetainBaseline, Building, runSide, trialSide, BuildRow, BuilderPlace,
         BuildPlace, DeskOrder, Undecided
  <2>12. CASE UploadBaseline
      BY <1>0, <2>12 DEF UploadBaseline, Building, runSide, trialSide, BuildRow, BuilderPlace,
         BuildPlace, DeskOrder, Undecided
  <2>13. CASE PromoteBaseline
      BY <1>0, <2>13 DEF PromoteBaseline, Building, runSide, trialSide, BuildRow, BuilderPlace,
         BuildPlace, DeskOrder, Undecided
  <2>14. CASE CrashBuilder
      BY <1>0, <2>14 DEF CrashBuilder, runSide, trialSide, BuildRow, BuilderPlace, BuildPlace,
         DeskOrder, Undecided
  <2> QED
      BY <2>1, <2>2, <2>3, <2>4, <2>5, <2>6, <2>7, <2>8, <2>9, <2>10, <2>11, <2>12, <2>13, <2>14
         DEF BuildStep
<1>2. stock' \in StockRow
    BY <1>0 DEF BuildStep, StockRow, PrepareSource, ClaimBaseline, DispatchBaseline,
       CreateBaseline, RecordBaseline, BaselineEnds, CaptureBaseline, FailBaseline,
       BuildLeaseLapses, FenceBuild, RetainBaseline, UploadBaseline, PromoteBaseline,
       CrashBuilder
<1>3. DeskOrder' /\ VerdictLeavesNothing'
    BY <1>0, <1>1 DEF DeskOrder, BuildPlace, VerdictLeavesNothing
<1>4. TrialPlace' /\ FormPlace' /\ BaselineTypeOK'
  <2>1. TrialPlace' /\ FormPlace'
      BY <1>0, <1>1 DEF TrialPlace, FormPlace
  <2>2. BaselineTypeOK'
      BY <1>0, <1>1, <1>2, BaselineTyped, BaselineTypedNext
  <2> QED
      BY <2>1, <2>2
<1> QED
    BY <1>1, <1>3, <1>4 DEF BaselineInv

\* The retention of its archive.
LEMMA BaselineRetentionKeeps == ASSUME BaselineInv, KeepStep PROVE BaselineInv'
<1>0. /\ BaselineTypeOK /\ BuildPlace /\ TrialPlace /\ DeskOrder /\ FormPlace /\ VerdictLeavesNothing
      /\ stock \in StockRow /\ keeper \in {"idle", "retiring", "retired"}
    BY BaselineTyped DEF BaselineInv
<1>1. /\ UNCHANGED <<consented, queued, desk, trial, site, form, tester, build, builder>>
      /\ keeper' \in {"idle", "retiring", "retired"}
    BY <1>0 DEF KeepStep, Ages, RequestRetirement, RetireBaselineObject, CompleteRetirement,
       CrashKeeper,
                Keeping, runSide, trialSide
<1>2. stock' \in StockRow
    BY <1>0 DEF KeepStep, Ages, RequestRetirement, RetireBaselineObject, CompleteRetirement,
       CrashKeeper,
                Keeping, StockRow
<1>3. BaselineTypeOK'
    BY <1>0, <1>1, <1>2, BaselineTyped, BaselineTypedNext
<1>4. BuildPlace' /\ TrialPlace' /\ DeskOrder' /\ FormPlace' /\ VerdictLeavesNothing'
    BY <1>0, <1>1 DEF BuildPlace, TrialPlace, DeskOrder, FormPlace, VerdictLeavesNothing
<1> QED
    BY <1>3, <1>4 DEF BaselineInv

\* The steps of the trial, its process and its endpoint.
LEMMA BaselineTrialKeeps == ASSUME BaselineInv, TrialStep PROVE BaselineInv'
<1>0. /\ BaselineTypeOK /\ BuildPlace /\ TrialPlace /\ DeskOrder /\ FormPlace /\ VerdictLeavesNothing
      /\ trial \in TrialRow /\ site \in SiteRow /\ form \in FormRow /\ tester \in TesterPlace
      /\ desk \in DeskRow
    BY BaselineTyped DEF BaselineInv
<1>1. UNCHANGED <<consented, queued, desk, build, builder, stock, keeper>>
    BY DEF TrialStep, Testing, runSide, buildSide, ReadBaseline, ClaimTrial, DispatchTrial,
       PlanTrialProcess, CreateTrialProcess, PlanSite, BindSite, PrepareSession, SessionEnds,
       CloseSite, ChecksEnd, Sweep, FinishTrial, FailTrial, TrialLeaseLapses, FenceTrial,
       SiteExpires, CrashTester
<1>2. /\ trial' \in TrialRow /\ tester' \in TesterPlace
      /\ TrialPlace' /\ (form.http # "idle" /\ form'.http # "idle" => site'.socket)
      /\ trial'.state \in {"PASSED", "FAILED"} =>
           trial'.container # "up" /\ ~site'.socket /\ (desk.reader => desk.lease = "stopped")
      /\ desk.lease # "none" => desk.reader \/ trial'.state \in {"none", "PASSED"}

  <2>1. CASE ReadBaseline
      BY <1>0, <1>1, <2>1 DEF ReadBaseline, Testing, TrialRow, TesterPlace, TrialPlace,
         DeskOrder, FormPlace, VerdictLeavesNothing, Undecided, SiteRow
  <2>2. CASE (\E b \in BOOLEAN : ClaimTrial(b))
      BY ZenonT(30), <1>0, <1>1, <2>2 DEF ClaimTrial, TrialAuthority, StillBound, Unleased,
         BoundReader, Testing, TrialRow, TesterPlace, TrialPlace, DeskOrder, FormPlace,
         VerdictLeavesNothing, Undecided, SiteRow
  <2>3. CASE DispatchTrial
      BY <1>0, <1>1, <2>3 DEF DispatchTrial, TrialOwned, Testing, TrialRow, TesterPlace,
         TrialPlace, DeskOrder, FormPlace, VerdictLeavesNothing, Undecided, SiteRow
  <2>4. CASE PlanTrialProcess
      BY <1>0, <1>1, <2>4 DEF PlanTrialProcess, Testing, TrialRow, TesterPlace, TrialPlace,
         DeskOrder, FormPlace, VerdictLeavesNothing, Undecided, SiteRow
  <2>5. CASE CreateTrialProcess
      BY <1>0, <1>1, <2>5 DEF CreateTrialProcess, Testing, TrialRow, TesterPlace, TrialPlace,
         DeskOrder, FormPlace, VerdictLeavesNothing, Undecided, SiteRow
  <2>6. CASE PlanSite
      BY ZenonT(30), <1>0, <1>1, <2>6 DEF PlanSite, Testing, TrialRow, TesterPlace, TrialPlace,
         DeskOrder, FormPlace, VerdictLeavesNothing, Undecided, SiteRow
  <2>7. CASE BindSite
      BY <1>0, <1>1, <2>7 DEF BindSite, Testing, TrialRow, TesterPlace, TrialPlace, DeskOrder,
         FormPlace, VerdictLeavesNothing, Undecided, SiteRow
  <2>8. CASE PrepareSession
      BY <1>0, <1>1, <2>8 DEF PrepareSession, Testing, TrialRow, TesterPlace, TrialPlace,
         DeskOrder, FormPlace, VerdictLeavesNothing, Undecided, SiteRow
  <2>9. CASE SessionEnds
      BY <1>0, <1>1, <2>9 DEF SessionEnds, Testing, TrialRow, TesterPlace, TrialPlace, DeskOrder,
         FormPlace, VerdictLeavesNothing, Undecided, SiteRow
  <2>10. CASE CloseSite
      BY ZenonT(30), <1>0, <1>1, <2>10 DEF CloseSite, Testing, TrialRow, TesterPlace, TrialPlace,
         DeskOrder, FormPlace, VerdictLeavesNothing, Undecided, SiteRow
  <2>11. CASE ChecksEnd
      BY <1>0, <1>1, <2>11 DEF ChecksEnd, Testing, TrialRow, TesterPlace, TrialPlace, DeskOrder,
         FormPlace, VerdictLeavesNothing, Undecided, SiteRow
  <2>12. CASE Sweep
      BY ZenonT(30), <1>0, <1>1, <2>12 DEF Sweep, Testing, TrialRow, TesterPlace, TrialPlace,
         DeskOrder, FormPlace, VerdictLeavesNothing, Undecided, SiteRow
  <2>13. CASE FinishTrial
      BY <1>0, <1>1, <2>13 DEF FinishTrial, ReaderReleased, TrialActive, TrialOwned, Testing,
         TrialRow, TesterPlace, TrialPlace, DeskOrder, FormPlace, VerdictLeavesNothing,
         Undecided, SiteRow
  <2>14. CASE FailTrial
      BY <1>0, <1>1, <2>14 DEF FailTrial, TrialOwned, FencedTrial, SiteFenced, NothingLeft,
         ReaderReleased, Testing, TrialRow, TesterPlace, TrialPlace, DeskOrder, FormPlace,
         VerdictLeavesNothing, Undecided, SiteRow
  <2>15. CASE TrialLeaseLapses
    <3>1. trial' = [trial EXCEPT !.leased = FALSE] /\ UNCHANGED <<site, form, tester>>
        BY <2>15 DEF TrialLeaseLapses
    <3>2. /\ trial' \in TrialRow /\ trial'.state = trial.state /\ trial'.row = trial.row
          /\ trial'.container = trial.container
        BY <1>0, <3>1 DEF TrialRow
    <3>3. TrialPlace'
        BY <1>0, <3>1, <3>2 DEF TrialPlace
    <3> QED
        BY <1>0, <3>1, <3>2, <3>3 DEF DeskOrder, FormPlace, VerdictLeavesNothing
  <2>16. CASE FenceTrial
      BY <1>0, <1>1, <2>16 DEF FenceTrial, FencedTrial, SiteFenced, Testing, TrialRow,
         TesterPlace, TrialPlace, DeskOrder, FormPlace, VerdictLeavesNothing, Undecided, SiteRow
  <2>17. CASE SiteExpires
      BY <1>0, <1>1, <2>17 DEF SiteExpires, Testing, TrialRow, TesterPlace, TrialPlace,
         DeskOrder, FormPlace, VerdictLeavesNothing, Undecided, SiteRow
  <2>18. CASE CrashTester
      BY <1>0, <1>1, <2>18 DEF CrashTester, Testing, TrialRow, TesterPlace, TrialPlace,
         DeskOrder, FormPlace, VerdictLeavesNothing, Undecided, SiteRow
  <2> QED
      BY <2>1, <2>2, <2>3, <2>4, <2>5, <2>6, <2>7, <2>8, <2>9, <2>10, <2>11, <2>12, <2>13, <2>14,
         <2>15, <2>16, <2>17, <2>18 DEF TrialStep
<1>3. site' \in SiteRow /\ form' \in {form, [form EXCEPT !.http = "idle"]}
    BY <1>0 DEF TrialStep, SiteRow, SiteFenced, ReadBaseline, ClaimTrial, DispatchTrial,
       PlanTrialProcess, CreateTrialProcess, PlanSite, BindSite, PrepareSession, SessionEnds,
       CloseSite, ChecksEnd, Sweep, FinishTrial, FailTrial, TrialLeaseLapses, FenceTrial,
       SiteExpires, CrashTester
<1>4. form' \in FormRow /\ FormPlace' /\ (form.http = "idle" => form'.http = "idle")
    BY <1>0, <1>2, <1>3 DEF FormRow, FormPlace
<1>5. DeskOrder' /\ VerdictLeavesNothing' /\ BuildPlace'
  <2>1. DeskOrder' /\ BuildPlace'
      BY <1>0, <1>1, <1>2 DEF DeskOrder, BuildPlace
  <2>2. VerdictLeavesNothing'
      BY <1>0, <1>1, <1>2, <1>4 DEF VerdictLeavesNothing, FormPlace
  <2> QED
      BY <2>1, <2>2
<1>6. BaselineTypeOK'
    BY <1>0, <1>1, <1>2, <1>3, <1>4, BaselineTyped, BaselineTypedNext
<1> QED
    BY <1>2, <1>4, <1>5, <1>6 DEF BaselineInv

\* The desktop and the run.
LEMMA BaselineDeskKeeps == ASSUME BaselineInv, DeskStep PROVE BaselineInv'
<1>0. /\ BaselineTypeOK /\ BuildPlace /\ TrialPlace /\ DeskOrder /\ FormPlace /\ VerdictLeavesNothing
      /\ desk \in DeskRow /\ site \in SiteRow /\ consented \in BOOLEAN
      /\ queued \in [status : {"QUEUED", "LEASED", "COMPLETED"}, cancelled : BOOLEAN]
    BY BaselineTyped DEF BaselineInv
<1>1. UNCHANGED <<build, stock, builder, keeper, trial, site, form, tester>>
    BY DEF DeskStep, AdmitDesktop, ReaderStops, DeskFenced, RunCompletes, RunCancelled, ConsentEnds,
           buildSide, trialSide
<1>2. /\ consented' \in BOOLEAN
      /\ queued' \in [status : {"QUEUED", "LEASED", "COMPLETED"}, cancelled : BOOLEAN]
    BY <1>0 DEF DeskStep, AdmitDesktop, ReaderStops, DeskFenced, RunCompletes, RunCancelled,
       ConsentEnds
<1>3. /\ desk' \in DeskRow /\ DeskOrder'
      /\ trial.state \in {"PASSED", "FAILED"} => (desk'.reader => desk'.lease = "stopped")
  <2>1. CASE AdmitDesktop
    <3>1. desk' = [lease |-> "held", reader |-> site.session] /\ BuildSettled /\ TrialSettled
          /\ (site.session => trial.state = "DISPATCHED")
        BY <2>1 DEF AdmitDesktop, SiteLive, TrialActive, TrialOwned
    <3>2. desk'.lease = "held" /\ desk'.reader = site.session /\ desk' \in DeskRow
        BY <1>0, <3>1 DEF DeskRow, SiteRow
    <3> QED
        BY <1>1, <3>1, <3>2 DEF DeskOrder, BuildSettled, TrialSettled
  <2>2. CASE ReaderStops \/ DeskFenced
    <3>1. desk.lease = "held" /\ desk' \in {[desk EXCEPT !.lease = "stopped"], [desk EXCEPT !.lease = "fenced"]}
        BY <2>2 DEF ReaderStops, DeskFenced
    <3>2. desk' \in DeskRow /\ desk'.reader = desk.reader /\ desk'.lease # "none"
        BY <1>0, <3>1 DEF DeskRow
    <3> QED
        BY <1>0, <1>1, <3>1, <3>2 DEF DeskOrder, VerdictLeavesNothing
  <2>3. CASE desk' = desk
      BY <1>0, <1>1, <2>3 DEF DeskOrder, VerdictLeavesNothing
  <2> QED
      BY <2>1, <2>2, <2>3 DEF DeskStep, RunCompletes, RunCancelled, ConsentEnds
<1>4. BaselineTypeOK'
    BY <1>0, <1>1, <1>2, <1>3, BaselineTyped, BaselineTypedNext
<1>5. BuildPlace' /\ TrialPlace' /\ FormPlace' /\ VerdictLeavesNothing'
    BY <1>0, <1>1, <1>3 DEF BuildPlace, TrialPlace, FormPlace, VerdictLeavesNothing
<1> QED
    BY <1>3, <1>4, <1>5 DEF BaselineInv

\* The reader's form.
LEMMA BaselineFormKeeps == ASSUME BaselineInv, FormStep PROVE BaselineInv'
<1>0. /\ BaselineTypeOK /\ BuildPlace /\ TrialPlace /\ DeskOrder /\ FormPlace /\ VerdictLeavesNothing
      /\ form \in FormRow
    BY BaselineTyped DEF BaselineInv
<1>1. /\ UNCHANGED <<consented, queued, desk, build, stock, builder, keeper, trial, site, tester>>
      /\ form' \in FormRow /\ FormPlace'

  <2>1. CASE DispatchForm
      BY <1>0, <2>1 DEF DispatchForm, Acting, runSide, buildSide, FormRow, FormPlace
  <2>2. CASE PermitForm
      BY <1>0, <2>2 DEF PermitForm, Acting, runSide, buildSide, FormRow, FormPlace
  <2>3. CASE BeginForm
      BY <1>0, <2>3 DEF BeginForm, Unconsumed, DeliveryLive, Acting, runSide, buildSide, FormRow,
         FormPlace
  <2>4. CASE CheckForm
      BY <1>0, <2>4 DEF CheckForm, Acting, runSide, buildSide, FormRow, FormPlace
  <2>5. CASE SendForm
    <3>1. /\ form.http = "checked" /\ form.posts = 0 /\ form.permit = "consumed" /\ site.socket
          /\ form' = [form EXCEPT !.posts = form.posts + 1, !.http = "sent"]
        BY <1>0, <2>5 DEF SendForm, FormPlace
    <3>2. /\ form' \in FormRow /\ form'.posts = 1 /\ form'.http = "sent"
          /\ form'.permit = form.permit /\ form'.action = form.action
      <4>1. form.posts + 1 = 1 /\ 1 \in 0..2
          BY <3>1
      <4>2. form' = [form EXCEPT !.posts = 1, !.http = "sent"]
          BY <3>1, <4>1
      <4> QED
          BY <1>0, <4>1, <4>2 DEF FormRow
    <3>3. UNCHANGED <<consented, queued, desk, build, stock, builder, keeper, trial, site, tester>>
        BY <2>5 DEF SendForm, Acting, runSide, buildSide
    <3> QED
        BY <1>0, <3>1, <3>2, <3>3 DEF FormPlace
  <2>6. CASE AnswerForm
      BY <1>0, <2>6 DEF AnswerForm, Acting, runSide, buildSide, FormRow, FormPlace
  <2>7. CASE PermitLapses
      BY <1>0, <2>7 DEF PermitLapses, Acting, runSide, buildSide, FormRow, FormPlace
  <2>8. CASE (\E r \in {"known", "ambiguous"} : ReportForm(r))
      BY <1>0, <2>8 DEF ReportForm, FormUnresolved, Acting, runSide, buildSide, FormRow, FormPlace
  <2> QED
      BY <2>1, <2>2, <2>3, <2>4, <2>5, <2>6, <2>7, <2>8 DEF FormStep
<1>2. VerdictLeavesNothing'
  <2>1. form'.http # "idle" => site.socket
      BY <1>1 DEF FormPlace
  <2> QED
      BY <1>0, <1>1, <2>1 DEF VerdictLeavesNothing
<1>3. BaselineTypeOK' /\ BuildPlace' /\ TrialPlace' /\ DeskOrder'
  <2>1. BuildPlace' /\ TrialPlace' /\ DeskOrder'
      BY <1>0, <1>1 DEF BuildPlace, TrialPlace, DeskOrder
  <2>2. BaselineTypeOK'
      BY <1>0, <1>1, BaselineTyped, BaselineTypedNext
  <2> QED
      BY <2>1, <2>2
<1> QED
    BY <1>1, <1>2, <1>3 DEF BaselineInv

\* Every step of the original keeps the invariant.
LEMMA BaselineKeeps == BaselineInv /\ [BaselineNext]_baselineVars => BaselineInv'
<1> SUFFICES ASSUME BaselineInv, [BaselineNext]_baselineVars PROVE BaselineInv'
    OBVIOUS
<1>1. CASE UNCHANGED baselineVars
    BY <1>1 DEF baselineVars, BaselineInv, BaselineTypeOK, BuildPlace, TrialPlace, DeskOrder,
       FormPlace,
                VerdictLeavesNothing
<1>2. CASE BaselineNext
    BY <1>2, BaselineBuildKeeps, BaselineRetentionKeeps, BaselineTrialKeeps, BaselineDeskKeeps,
        BaselineFormKeeps DEF BaselineNext
<1> QED
    BY <1>1, <1>2

\* The property the run checks: the desktop meets a settled baseline, a verdict leaves nothing
\* behind, and the reader's form is submitted once and never hidden.
THEOREM TrustworthyBaseline == BaselineSpec => []BaselineIsTrustworthy
<1>1. BaselineSpec => []BaselineInv
    BY BaselineBegins, BaselineKeeps, PTL DEF BaselineSpec
<1> QED
    BY <1>1, BaselineInvGives, PTL

-----------------------------------------------------------------------------
(* The invariant of a native execution.                                    *)

Turns == [at : 0..MaxActions, called : BOOLEAN,
          status : {"STARTED", "RECORDED", "UNCONFIRMED", "NOT_CALLED"}]
ActionRows == [act : Acts, seen : BOOLEAN, state : Known \cup {"INTENDED", "COMMITTED", "AMBIGUOUS"}]
Entries == [id : 1..MaxActions, res : Known \cup {"INTENT", "AMBIGUOUS"}]
Runners == [pc : RunnerStage, id : 0..MaxActions, act : Acts, by : Navigators,
            res : Results, fenced : BOOLEAN, stopping : BOOLEAN, started : BOOLEAN]
NavRows == [pc : NavStage, seq : 0..MaxActions, turn : 0..MaxCalls, fence : BOOLEAN, act : Acts,
            res : Results, disp : {"RECORDED", "UNCONFIRMED", "NOT_CALLED"}]
Bridges == [closed : BOOLEAN, stopped : BOOLEAN, next : 1..(MaxActions + 1)]

\* The types again, with the sequences as such.
NativeTypes ==
  /\ modelConsent \in {"none", "live", "ended"}
  /\ authority \in BOOLEAN /\ observed \in BOOLEAN /\ finished \in BOOLEAN
  /\ claim \in BOOLEAN /\ received \in BOOLEAN
  /\ turns \in Seq(Turns) /\ rows \in Seq(ActionRows) /\ journal \in Seq(Entries)
  /\ host \in [up : BOOLEAN, starts : 0..MaxStarts]
  /\ bridge \in Bridges /\ runner \in Runners /\ nav \in [Navigators -> NavRows]
  /\ entered \in [1..MaxActions -> Nat] /\ unsettled \subseteq 1..MaxActions

Holding == {"reserved", "called", "proposed", "sending", "finish"}
InFlight == {"commit", "journal", "act", "acting", "result", "report"}
Busy == InFlight \cup {"intend", "reply"}
LastTurn == turns[Len(turns)]

\* A navigator past its reservation holds the last turn, and alone; it is RECORDED by its holder
\* only after the provider was entered.
HoldsTurn(s) ==
  /\ s.pc \in Holding =>
       /\ Len(turns) > 0 /\ s.turn = Len(turns)
       /\ LastTurn.status = "STARTED" /\ LastTurn.at = s.seq
       /\ s.seq < MaxActions
  /\ s.pc \in {"called", "proposed", "sending"} => LastTurn.called
  /\ s.pc \in {"reserved", "called", "proposed", "sending"} => s.disp # "RECORDED"
  /\ s.pc = "finish" /\ s.disp = "RECORDED" => LastTurn.called

TurnsInv ==
  /\ OneCallPerBoundary
  /\ \A i \in 1..Len(turns) : turns[i].status = "RECORDED" => turns[i].called
  /\ \A n \in Navigators : HoldsTurn(nav[n])
  /\ \A n, m \in Navigators : nav[n].pc \in Holding /\ nav[m].pc \in Holding => n = m

\* The request a runner works on is that of the last turn, which its holder cannot record meanwhile.
RequestInv ==
  /\ runner.pc \in Busy =>
       /\ Len(turns) > 0 /\ LastTurn.called /\ LastTurn.status # "RECORDED"
       /\ \A n \in Navigators : nav[n].pc \in Holding =>
            /\ n = runner.by /\ nav[n].pc \in {"sending", "finish"} /\ nav[n].disp # "RECORDED"
  /\ runner.pc = "intend" => LastTurn.at = Len(rows)
  /\ runner.pc \in InFlight => /\ Len(rows) > 0 /\ runner.id = Len(rows)
                               /\ LastTurn.at = Len(rows) - 1
  /\ runner.pc = "idle" /\ ~bridge.closed =>
       \A n \in Navigators : nav[n].pc = "sending" => nav[n].seq = Len(rows)

\* What the runner's place says of the action it works on.
ActionInv ==
  /\ runner.pc \in {"commit", "journal", "act"} => entered[runner.id] = 0
  /\ runner.pc = "acting" => entered[runner.id] = 1
  /\ runner.pc \in {"journal", "act", "acting", "result"} => rows[runner.id].state = "COMMITTED"
  /\ runner.pc = "act" => \E i \in 1..Len(journal) : journal[i] = [id |-> runner.id, res |-> "INTENT"]
  /\ runner.pc \in {"result", "report"} =>
       /\ runner.res \in Known \cup {"AMBIGUOUS"}
       /\ runner.res \in Known => entered[runner.id] = 1 /\ runner.id \notin unsettled
  /\ runner.pc \in InFlight \ {"report"} =>
       \A i \in 1..Len(journal) : journal[i].id = runner.id => journal[i].res = "INTENT"
  /\ runner.pc = "report" /\ runner.res \in Known =>
       \A i \in 1..Len(journal) :
         journal[i].id = runner.id /\ journal[i].res \in Known => journal[i].res = runner.res

\* What server, journal and desktop say of an action agrees, whoever works on it.
AgreementInv ==
  /\ Len(rows) <= MaxActions
  /\ \A k \in 1..Len(rows) : rows[k].state \in Known => entered[k] = 1
  /\ \A k \in unsettled : k <= Len(rows) /\ rows[k].state \notin Known
  /\ \A i \in 1..Len(journal) :
       /\ journal[i].id <= Len(rows)
       /\ journal[i].res \in Known /\ rows[journal[i].id].state \in Known =>
            rows[journal[i].id].state = journal[i].res

\* A run is received once, and what is finished stays so.
ReceptionInv ==
  /\ ~received => (host.up => runner.pc = "new") /\ \A n \in Navigators : nav[n].pc = "off"
  /\ ~claim => finished \/ (~received /\ ~host.up)
  /\ bridge.closed => runner.stopping
  /\ finished => /\ ~authority /\ received /\ runner.pc \in {"new", "idle"}
                 /\ runner.pc = "idle" => bridge.closed

NativeInv ==
  /\ NativeTypes /\ TurnsInv /\ RequestInv /\ ActionInv /\ AgreementInv
  /\ InputIsAttributed /\ ReceptionInv /\ ReleasedIsSettled

\* A host that has not started and navigators that were not launched.
LEMMA NativeBegins == NativeInit => NativeInv
<1> SUFFICES ASSUME NativeInit PROVE NativeInv
    OBVIOUS
<1>1. NoNav \in NavRows /\ NoNav.pc = "off"
    BY NativeAssumption DEF NoNav, NavRows, NavStage, Acts, Results, Known
<1>2. NoRunner \in Runners /\ NoRunner.pc = "new"
    BY NativeAssumption DEF NoRunner, Runners, RunnerStage, Acts, Results, Known
<1>3. NoBridge \in Bridges /\ ~NoBridge.closed
    BY NativeAssumption DEF NoBridge, Bridges
<1>4. NativeTypes
  <2>1. <<>> \in Seq(Turns) /\ <<>> \in Seq(ActionRows) /\ <<>> \in Seq(Entries)
      BY EmptySeq
  <2>2. nav \in [Navigators -> NavRows] /\ entered \in [1..MaxActions -> Nat] /\ unsettled \subseteq 1..MaxActions
      BY <1>1 DEF NativeInit
  <2>3. host \in [up : BOOLEAN, starts : 0..MaxStarts]
      BY NativeAssumption DEF NativeInit
  <2> QED
      BY <1>2, <1>3, <2>1, <2>2, <2>3 DEF NativeInit, NativeTypes
<1>5. TurnsInv
    BY <1>1, NativeAssumption DEF NativeInit, TurnsInv, OneCallPerBoundary, HoldsTurn, Holding
<1>6. RequestInv /\ ActionInv
    BY <1>2, <1>3 DEF NativeInit, RequestInv, ActionInv, Busy, InFlight
<1>7. AgreementInv /\ InputIsAttributed
    BY NativeAssumption DEF NativeInit, AgreementInv, InputIsAttributed
<1>8. ReceptionInv /\ ReleasedIsSettled
    BY <1>1, <1>2, <1>3 DEF NativeInit, ReceptionInv, ReleasedIsSettled
<1> QED
    BY <1>4, <1>5, <1>6, <1>7, <1>8 DEF NativeInv

\* What the runs check, from the invariant.
LEMMA NativeInvGives ==
    NativeInv => NativeTypeOK /\ OneCallPerBoundary /\ InputIsAttributed /\ ReleasedIsSettled
<1> SUFFICES ASSUME NativeInv PROVE NativeTypeOK
    BY DEF NativeInv, TurnsInv
<1>1. NativeTypes
    BY DEF NativeInv
<1>2. /\ \A i \in 1..Len(turns) : turns[i] \in Turns
      /\ \A k \in 1..Len(rows) : rows[k] \in ActionRows
      /\ \A i \in 1..Len(journal) : journal[i] \in Entries
    BY <1>1, ElementOfSeq DEF NativeTypes
<1> QED
    BY <1>1, <1>2 DEF NativeTypes, NativeTypeOK, Turns, ActionRows, Entries, Runners, NavRows, Bridges

-----------------------------------------------------------------------------
(* The navigator processes.                                                *)

\* A navigator that keeps its turn, or leaves it, disturbs nobody.
LEMMA MoveKeeps ==
    ASSUME NativeInv, NEW n \in Navigators, NEW r \in NavRows, nav' = [nav EXCEPT ![n] = r],
           UNCHANGED <<serverVars, diskVars, host, bridge, runner, deskVars>>,
           received \/ r.pc = "off", HoldsTurn(r),
           r.pc \in Holding => nav[n].pc \in Holding,
           runner.pc \in Busy /\ r.pc \in Holding => r.pc \in {"sending", "finish"} /\ r.disp # "RECORDED",
           r.pc = "sending" => (nav[n].pc = "sending" /\ r.seq = nav[n].seq) \/ r.seq = Len(rows)
    PROVE  NativeInv'
<1>0. /\ NativeTypes /\ TurnsInv /\ RequestInv /\ ActionInv /\ AgreementInv
      /\ InputIsAttributed /\ ReceptionInv /\ ReleasedIsSettled
    BY DEF NativeInv
<1>1. /\ nav \in [Navigators -> NavRows] /\ nav'[n] = r /\ nav' \in [Navigators -> NavRows]
      /\ \A m \in Navigators : m # n => nav'[m] = nav[m]
    BY <1>0 DEF NativeTypes
<1>2. /\ UNCHANGED <<modelConsent, authority, turns, rows, observed, finished, claim, received, journal>>
      /\ UNCHANGED <<host, bridge, runner, entered, unsettled>>
    BY DEF serverVars, diskVars, deskVars
<1>3. NativeTypes'
    BY <1>0, <1>1, <1>2 DEF NativeTypes
<1>4. TurnsInv'
  <2>1. \A m \in Navigators : HoldsTurn(nav[m])'
      BY <1>0, <1>1, <1>2 DEF TurnsInv, HoldsTurn, LastTurn
  <2> QED
      BY <2>1, <1>0, <1>1, <1>2 DEF TurnsInv, OneCallPerBoundary
<1>5. RequestInv'
    BY <1>0, <1>1, <1>2 DEF RequestInv, LastTurn, TurnsInv
<1>6. ActionInv' /\ AgreementInv' /\ InputIsAttributed' /\ ReleasedIsSettled'
    BY <1>0, <1>2 DEF ActionInv, AgreementInv, InputIsAttributed, ReleasedIsSettled
<1>7. ReceptionInv'
    BY <1>0, <1>1, <1>2 DEF ReceptionInv
<1> QED
    BY <1>3, <1>4, <1>5, <1>6, <1>7 DEF NativeInv

\* The steps of a navigator that write nothing at the server.
LEMMA QuietNavigatorKeeps ==
    ASSUME NativeInv, NEW n \in Navigators,
           \/ LaunchNavigator(n) \/ LoadTurn(n) \/ Propose(n) \/ SubmitAction(n)
           \/ LoseTransport(n) \/ CancelNavigator(n) \/ CrashNavigator(n)
    PROVE  NativeInv'
<1>0. /\ TurnsInv /\ RequestInv /\ ReceptionInv /\ HoldsTurn(nav[n])
      /\ nav \in [Navigators -> NavRows] /\ nav[n] \in NavRows
    BY DEF NativeInv, NativeTypes, TurnsInv
<1>1. {"idle", "loaded", "ended", "proposed", "finish", "sending"} \subseteq NavStage
    BY DEF NavStage
<1>10. /\ nav[n].pc # "off" => received
       /\ host.up /\ runner.pc # "new" => received
       /\ "MOVE" \in Acts /\ 0 \in 0..MaxCalls
    BY <1>0, NativeAssumption DEF ReceptionInv, Acts
<1>2. UNCHANGED <<serverVars, diskVars, host, bridge, runner, deskVars>>
    BY DEF LaunchNavigator, LoadTurn, Propose, SubmitAction, LoseTransport, CancelNavigator, CrashNavigator
<1>3. CASE LaunchNavigator(n)
  <2>1. PICK r : r = [nav[n] EXCEPT !.pc = "idle"]
      OBVIOUS
  <2>2. nav' = [nav EXCEPT ![n] = r] /\ received /\ r \in NavRows /\ r.pc = "idle"
      BY <1>0, <1>1, <1>3, <2>1, <1>10 DEF LaunchNavigator, NavRows
  <2> QED
      BY <1>2, <2>2, MoveKeeps DEF HoldsTurn, Holding
<1>4. CASE LoadTurn(n)
  <2>1. PICK q \in {"loaded", "ended"} : nav' = [nav EXCEPT ![n].pc = q]
      BY <1>4 DEF LoadTurn
  <2>2. PICK r : r = [nav[n] EXCEPT !.pc = q]
      OBVIOUS
  <2>3. nav' = [nav EXCEPT ![n] = r] /\ received /\ r \in NavRows /\ r.pc = q
    <3>1. nav' = [nav EXCEPT ![n] = r] /\ received
        BY <1>0, <1>4, <1>10, <2>1, <2>2 DEF LoadTurn
    <3> QED
        BY <1>0, <1>1, <2>1, <2>2, <3>1 DEF NavRows, Results, Known
  <2> QED
      BY <1>2, <2>3, MoveKeeps DEF HoldsTurn, Holding
<1>5. CASE Propose(n)
  <2>1. PICK r : /\ nav' = [nav EXCEPT ![n] = r]
                 /\ \/ \E a \in Acts : r = [nav[n] EXCEPT !.pc = "proposed", !.act = a]
                    \/ r = [nav[n] EXCEPT !.pc = "finish", !.fence = TRUE]
    <3>1. \/ \E a \in Acts : nav' = [nav EXCEPT ![n].pc = "proposed", ![n].act = a]
          \/ nav' = [nav EXCEPT ![n].pc = "finish", ![n].fence = TRUE]
        BY <1>5 DEF Propose
    <3>2. CASE \E a \in Acts : nav' = [nav EXCEPT ![n].pc = "proposed", ![n].act = a]
      <4>1. PICK a \in Acts : nav' = [nav EXCEPT ![n].pc = "proposed", ![n].act = a]
          BY <3>2
      <4>2. nav' = [nav EXCEPT ![n] = [nav[n] EXCEPT !.pc = "proposed", !.act = a]]
          BY <1>0, <4>1
      <4> QED
          BY <4>2
    <3>3. CASE nav' = [nav EXCEPT ![n].pc = "finish", ![n].fence = TRUE]
      <4>1. nav' = [nav EXCEPT ![n] = [nav[n] EXCEPT !.pc = "finish", !.fence = TRUE]]
          BY <1>0, <3>3
      <4> QED
          BY <4>1
    <3> QED
        BY <3>1, <3>2, <3>3
  <2>2. /\ nav[n].pc = "called" /\ received /\ r \in NavRows /\ r.pc \in {"proposed", "finish"}
        /\ r.seq = nav[n].seq /\ r.turn = nav[n].turn /\ r.disp = nav[n].disp
    <3>1. nav[n].pc = "called" /\ received
        BY <1>5, <1>10 DEF Propose
    <3>2. CASE \E a \in Acts : r = [nav[n] EXCEPT !.pc = "proposed", !.act = a]
        BY <1>0, <1>1, <3>1, <3>2 DEF NavRows, Results, Known
    <3>3. CASE r = [nav[n] EXCEPT !.pc = "finish", !.fence = TRUE]
        BY <1>0, <1>1, <3>1, <3>3 DEF NavRows, Results, Known
    <3> QED
        BY <2>1, <3>2, <3>3
  <2>3. runner.pc \notin Busy
      BY <1>0, <2>2 DEF RequestInv, Holding
  <2> QED
      BY <1>0, <1>2, <2>1, <2>2, <2>3, MoveKeeps DEF HoldsTurn, Holding
<1>6. CASE SubmitAction(n)
  <2>1. PICK r : /\ nav' = [nav EXCEPT ![n] = r]
                 /\ \/ r = [nav[n] EXCEPT !.pc = "sending"] /\ RecheckTurn(n)
                    \/ r = [nav[n] EXCEPT !.pc = "finish", !.fence = TRUE]
      BY <1>6 DEF SubmitAction
  <2>2. /\ nav[n].pc = "proposed" /\ received /\ r \in NavRows /\ r.pc \in {"sending", "finish"}
        /\ r.seq = nav[n].seq /\ r.turn = nav[n].turn /\ r.disp = nav[n].disp
        /\ r.pc = "sending" => r.seq = Len(rows)
    <3>1. nav[n].pc = "proposed" /\ received
        BY <1>6, <1>10 DEF SubmitAction
    <3>2. CASE r = [nav[n] EXCEPT !.pc = "sending"] /\ RecheckTurn(n)
      <4>1. Len(rows) = nav[n].seq
          BY <3>2 DEF RecheckTurn, ResolvedThrough
      <4> QED
          BY <1>0, <1>1, <3>1, <3>2, <4>1 DEF NavRows, Results, Known
    <3>3. CASE r = [nav[n] EXCEPT !.pc = "finish", !.fence = TRUE]
        BY <1>0, <1>1, <3>1, <3>3 DEF NavRows, Results, Known
    <3> QED
        BY <2>1, <3>2, <3>3
  <2>3. runner.pc \notin Busy
      BY <1>0, <2>2 DEF RequestInv, Holding
  <2> QED
      BY <1>0, <1>2, <2>1, <2>2, <2>3, MoveKeeps DEF HoldsTurn, Holding
<1>7. CASE LoseTransport(n)
  <2>1. PICK r : r = [nav[n] EXCEPT !.pc = "finish", !.fence = TRUE, !.res = "AMBIGUOUS"]
      OBVIOUS
  <2>2. /\ nav' = [nav EXCEPT ![n] = r]
        /\ nav[n].pc = "sending" /\ received /\ r \in NavRows /\ r.pc = "finish"
        /\ r.seq = nav[n].seq /\ r.turn = nav[n].turn /\ r.disp = nav[n].disp
    <3>1. nav' = [nav EXCEPT ![n] = r] /\ nav[n].pc = "sending" /\ received
        BY <1>0, <1>7, <1>10, <2>1 DEF LoseTransport
    <3> QED
        BY <1>0, <1>1, <2>1, <3>1 DEF NavRows, Results, Known
  <2>3. runner.pc \in Busy => r.disp # "RECORDED"
      BY <1>0, <2>2 DEF RequestInv, Holding
  <2> QED
      BY <1>0, <1>2, <2>2, <2>3, MoveKeeps DEF HoldsTurn, Holding
<1>8. CASE CancelNavigator(n)
  <2>1. PICK q \in {"ended", "finish"} :
          /\ nav' = [nav EXCEPT ![n].fence = TRUE, ![n].pc = q]
          /\ q = "finish" => nav[n].pc \in {"reserved", "called", "proposed", "sending"}
      BY <1>8 DEF CancelNavigator
  <2>2. PICK r : r = [nav[n] EXCEPT !.fence = TRUE, !.pc = q]
      OBVIOUS
  <2>3. /\ nav' = [nav EXCEPT ![n] = r] /\ received /\ r \in NavRows /\ r.pc = q
        /\ r.seq = nav[n].seq /\ r.turn = nav[n].turn /\ r.disp = nav[n].disp
    <3>1. nav' = [nav EXCEPT ![n] = r] /\ received
        BY <1>0, <1>8, <1>10, <2>1, <2>2 DEF CancelNavigator
    <3> QED
        BY <1>0, <1>1, <2>1, <2>2, <3>1 DEF NavRows, Results, Known
  <2>4. runner.pc \in Busy /\ q = "finish" => r.disp # "RECORDED"
      BY <1>0, <2>1, <2>3 DEF RequestInv, Holding
  <2>5. HoldsTurn(r) /\ (r.pc \in Holding => nav[n].pc \in Holding)
      BY <1>0, <2>1, <2>3 DEF HoldsTurn, Holding
  <2>6. /\ runner.pc \in Busy /\ r.pc \in Holding => r.pc \in {"sending", "finish"} /\ r.disp # "RECORDED"
        /\ r.pc # "sending"
      BY <2>1, <2>3, <2>4 DEF Holding
  <2> QED
      BY <1>2, <2>3, <2>5, <2>6, MoveKeeps
<1>9. CASE CrashNavigator(n)
  <2>1. PICK r : r = [nav[n] EXCEPT !.pc = "ended"]
      OBVIOUS
  <2>2. nav' = [nav EXCEPT ![n] = r] /\ received /\ r \in NavRows /\ r.pc = "ended"
      BY <1>0, <1>1, <1>9, <2>1, <1>10 DEF CrashNavigator, NavRows
  <2> QED
      BY <1>2, <2>2, MoveKeeps DEF HoldsTurn, Holding
<1> QED
    BY <1>3, <1>4, <1>5, <1>6, <1>7, <1>8, <1>9

\* A turn is reserved on a boundary that no turn was reserved on, and only when every earlier
\* one was recorded; its commit may be lost.
LEMMA ReserveKeeps == ASSUME NativeInv, NEW n \in Navigators, ReserveTurn(n) PROVE NativeInv'
<1>0. /\ NativeTypes /\ TurnsInv /\ RequestInv /\ ActionInv /\ AgreementInv
      /\ InputIsAttributed /\ ReceptionInv /\ ReleasedIsSettled
      /\ nav \in [Navigators -> NavRows] /\ nav[n] \in NavRows
      /\ turns \in Seq(Turns) /\ Len(turns) \in Nat
    BY DEF NativeInv, NativeTypes
<1>1. /\ nav[n].pc = "loaded" /\ received
      /\ UNCHANGED <<modelConsent, authority, rows, observed, finished, claim, received, journal>>
      /\ UNCHANGED <<host, bridge, runner, entered, unsettled>>
      /\ nav[n].seq \in 0..MaxActions
    BY <1>0 DEF ReserveTurn, ReceptionInv, diskVars, deskVars, NavRows
<1>2. ASSUME nav' = [nav EXCEPT ![n].pc = "ended"], UNCHANGED turns PROVE NativeInv'
  <2>1. PICK r : r = [nav[n] EXCEPT !.pc = "ended"]
      OBVIOUS
  <2>2. nav' = [nav EXCEPT ![n] = r] /\ r \in NavRows /\ r.pc = "ended"
      BY <1>0, <1>2, <2>1 DEF NavRows, NavStage
  <2> QED
      BY <1>1, <1>2, <2>2, MoveKeeps DEF HoldsTurn, Holding, serverVars, diskVars, deskVars
<1>3. ASSUME TurnReservable(nav[n].seq),
             turns' = Append(turns, [at |-> nav[n].seq, status |-> "STARTED", called |-> FALSE]),
             NEW r \in NavRows, nav' = [nav EXCEPT ![n] = r],
             \/ r.pc = "ended"
             \/ r.pc = "reserved" /\ r.turn = Len(turns') /\ r.seq = nav[n].seq /\ r.disp = "NOT_CALLED"
      PROVE  NativeInv'
  <2>1. PICK t : t = [at |-> nav[n].seq, status |-> "STARTED", called |-> FALSE]
      OBVIOUS
  <2>2. /\ t \in Turns /\ t.at = nav[n].seq /\ t.status = "STARTED" /\ ~t.called
        /\ nav[n].seq < MaxActions
      BY <1>1, <1>3, <2>1 DEF Turns, TurnReservable, ResolvedThrough
  <2>3. /\ turns' \in Seq(Turns) /\ Len(turns') = Len(turns) + 1 /\ turns'[Len(turns) + 1] = t
        /\ \A i \in 1..Len(turns) : turns'[i] = turns[i]
        /\ LastTurn' = t
      BY <1>0, <1>3, <2>1, <2>2, AppendProperties DEF LastTurn
  <2>4. /\ Len(turns) < MaxCalls
        /\ \A i \in 1..Len(turns) : turns[i].at < nav[n].seq /\ turns[i].status = "RECORDED"
      BY <1>3 DEF TurnReservable, NewBoundary
  <2>5. /\ runner.pc \notin Busy
        /\ \A m \in Navigators : nav[m].pc \notin Holding
    <3>1. Len(turns) > 0 => LastTurn.status = "RECORDED"
        BY <1>0, <2>4 DEF LastTurn
    <3> QED
        BY <1>0, <3>1 DEF RequestInv, TurnsInv, HoldsTurn
  <2>6. /\ nav'[n] = r /\ nav' \in [Navigators -> NavRows]
        /\ \A m \in Navigators : m # n => nav'[m] = nav[m]
      BY <1>0, <1>3
  <2>7. NativeTypes'
      BY <1>0, <1>1, <2>3, <2>6 DEF NativeTypes
  <2>8. TurnsInv'
    <3>1. OneCallPerBoundary' /\ (\A i \in 1..Len(turns) : turns[i].status = "RECORDED" => turns[i].called)'
      <4>1. \A i \in 1..Len(turns) : turns'[i] = turns[i] /\ turns[i].called
          BY <1>0, <2>3, <2>4 DEF TurnsInv
      <4>2. Len(turns') <= MaxCalls
          BY <1>0, <2>3, <2>4, NativeAssumption
      <4>3. ASSUME NEW i \in 1..Len(turns'), NEW j \in 1..Len(turns'), i < j
            PROVE  turns'[i].at < turns'[j].at
        <5>1. i \in 1..Len(turns) /\ (j \in 1..Len(turns) \/ j = Len(turns) + 1)
            BY <1>0, <2>3, <4>3
        <5>2. CASE j \in 1..Len(turns)
            BY <1>0, <2>3, <4>3, <5>1, <5>2 DEF TurnsInv, OneCallPerBoundary
        <5>3. CASE j = Len(turns) + 1
            BY <2>2, <2>3, <2>4, <5>1, <5>3
        <5> QED
            BY <5>1, <5>2, <5>3
      <4>4. ASSUME NEW i \in 1..(Len(turns') - 1) PROVE turns'[i].status = "RECORDED" /\ turns'[i].called
          BY <1>0, <2>3, <2>4, <4>1
      <4>5. ASSUME NEW i \in 1..Len(turns'), turns'[i].status = "RECORDED" PROVE turns'[i].called
          BY <1>0, <2>2, <2>3, <4>1, <4>5
      <4> QED
          BY <4>2, <4>3, <4>4, <4>5 DEF OneCallPerBoundary
    <3>2. \A m \in Navigators : nav'[m].pc \in Holding => m = n /\ r.pc = "reserved"
        BY <1>3, <2>5, <2>6 DEF Holding
    <3>3. \A m \in Navigators : HoldsTurn(nav[m])'
        BY <1>0, <1>3, <2>2, <2>3, <2>6, <3>2 DEF HoldsTurn, Holding
    <3> QED
        BY <3>1, <3>2, <3>3 DEF TurnsInv
  <2>9. RequestInv'
      BY <1>0, <1>1, <1>3, <2>5, <2>6 DEF RequestInv, Busy
  <2>10. ActionInv' /\ AgreementInv' /\ ReleasedIsSettled'
      BY <1>0, <1>1 DEF ActionInv, AgreementInv, ReleasedIsSettled
  <2>11. InputIsAttributed'
    <3>1. ASSUME NEW k \in 1..MaxActions, entered[k] > 0
          PROVE  \E i \in 1..Len(turns') : turns'[i].at = k - 1 /\ turns'[i].called
      <4>1. PICK i \in 1..Len(turns) : turns[i].at = k - 1 /\ turns[i].called
          BY <1>0, <3>1 DEF InputIsAttributed
      <4>2. i \in 1..Len(turns') /\ turns'[i] = turns[i]
          BY <1>0, <2>3
      <4> QED
          BY <4>1, <4>2
    <3> QED
        BY <1>0, <1>1, <3>1 DEF InputIsAttributed
  <2>12. ReceptionInv'
      BY <1>0, <1>1 DEF ReceptionInv
  <2> QED
      BY <2>7, <2>8, <2>9, <2>10, <2>11, <2>12 DEF NativeInv
<1>4. \/ TurnReservable(nav[n].seq) /\ turns' = Append(turns, [at |-> nav[n].seq, status |-> "STARTED", called |-> FALSE])
      \/ nav' = [nav EXCEPT ![n].pc = "ended"] /\ UNCHANGED turns
    BY DEF ReserveTurn
<1>5. CASE TurnReservable(nav[n].seq) /\ turns' = Append(turns, [at |-> nav[n].seq, status |-> "STARTED", called |-> FALSE])
  <2>0. Len(turns') \in 0..MaxCalls /\ Len(turns') # Len(turns)
    <3>1. Len(turns') = Len(turns) + 1 /\ Len(turns) < MaxCalls
        BY <1>0, <1>5, AppendProperties DEF TurnReservable, NewBoundary, Turns
    <3> QED
        BY <1>0, <3>1, NativeAssumption
  <2>1. PICK r : /\ nav' = [nav EXCEPT ![n] = r]
                 /\ \/ r = [nav[n] EXCEPT !.pc = "ended"]
                    \/ r = [nav[n] EXCEPT !.pc = "reserved", !.turn = Len(turns'),
                                          !.disp = "NOT_CALLED", !.res = "REFUSED"]
    <3>1. \/ nav' = [nav EXCEPT ![n].pc = "ended"]
          \/ nav' = [nav EXCEPT ![n].pc = "reserved", ![n].turn = Len(turns'),
                                ![n].disp = "NOT_CALLED", ![n].res = "REFUSED"]
        BY DEF ReserveTurn
    <3>2. CASE nav' = [nav EXCEPT ![n].pc = "ended"]
      <4>1. nav' = [nav EXCEPT ![n] = [nav[n] EXCEPT !.pc = "ended"]]
          BY <1>0, <3>2
      <4> QED
          BY <4>1
    <3>3. CASE nav' = [nav EXCEPT ![n].pc = "reserved", ![n].turn = Len(turns'),
                                  ![n].disp = "NOT_CALLED", ![n].res = "REFUSED"]
      <4>1. nav' = [nav EXCEPT ![n] = [nav[n] EXCEPT !.pc = "reserved", !.turn = Len(turns'),
                                                     !.disp = "NOT_CALLED", !.res = "REFUSED"]]
          BY <1>0, <3>3
      <4> QED
          BY <4>1
    <3> QED
        BY <3>1, <3>2, <3>3
  <2>2. /\ r \in NavRows
        /\ \/ r.pc = "ended"
           \/ r.pc = "reserved" /\ r.turn = Len(turns') /\ r.seq = nav[n].seq /\ r.disp = "NOT_CALLED"
      BY <1>0, <2>0, <2>1 DEF NavRows, NavStage, Results, Known
  <2> QED
      BY <1>3, <1>5, <2>1, <2>2
<1> QED
    BY <1>2, <1>4, <1>5

\* The holder of the last turn writes it: the call that was entered, or its disposition.
LEMMA TurnWritten ==
    ASSUME NativeInv, NEW n \in Navigators, nav[n].pc \in Holding,
           NEW t \in Turns, NEW r \in NavRows,
           turns' = [turns EXCEPT ![nav[n].turn] = t], nav' = [nav EXCEPT ![n] = r],
           UNCHANGED <<modelConsent, authority, rows, observed, finished, diskVars, host, bridge,
                       runner, deskVars>>,
           t.at = LastTurn.at, LastTurn.called => t.called, t.status = "RECORDED" => t.called,
           \/ r.pc \notin Holding /\ (runner.pc \in Busy => t.status # "RECORDED")
           \/ /\ r.pc = "called" /\ runner.pc \notin Busy /\ r.turn = nav[n].turn /\ r.seq = nav[n].seq
              /\ r.disp = "UNCONFIRMED" /\ t.called /\ t.status = "STARTED"
    PROVE  NativeInv'
<1>0. /\ NativeTypes /\ TurnsInv /\ RequestInv /\ ActionInv /\ AgreementInv
      /\ InputIsAttributed /\ ReceptionInv /\ ReleasedIsSettled
      /\ nav \in [Navigators -> NavRows]
      /\ turns \in Seq(Turns) /\ Len(turns) \in Nat
    BY DEF NativeInv, NativeTypes
<1>1. /\ UNCHANGED <<modelConsent, authority, rows, observed, finished, claim, received, journal>>
      /\ UNCHANGED <<host, bridge, runner, entered, unsettled>>
      /\ received
    BY <1>0 DEF diskVars, deskVars, ReceptionInv, Holding
<1>2. /\ Len(turns) > 0 /\ nav[n].turn = Len(turns) /\ LastTurn.at = nav[n].seq
      /\ LastTurn.status = "STARTED" /\ nav[n].seq < MaxActions
    BY <1>0 DEF TurnsInv, HoldsTurn
<1>3. /\ turns' \in Seq(Turns) /\ Len(turns') = Len(turns) /\ LastTurn' = t
      /\ turns'[Len(turns)] = t
      /\ \A i \in 1..Len(turns) : i # Len(turns) => turns'[i] = turns[i]
    BY <1>0, <1>2, ExceptSeq DEF LastTurn
<1>4. /\ nav'[n] = r /\ nav' \in [Navigators -> NavRows]
      /\ \A m \in Navigators : m # n => nav'[m] = nav[m] /\ nav[m].pc \notin Holding
    BY <1>0 DEF TurnsInv
<1>5. \A i \in 1..Len(turns) : turns'[i].at = turns[i].at /\ (turns[i].called => turns'[i].called)
    BY <1>3 DEF LastTurn
<1>6. NativeTypes'
    BY <1>0, <1>1, <1>3, <1>4 DEF NativeTypes
<1>7. TurnsInv'
  <2>1. OneCallPerBoundary' /\ (\A i \in 1..Len(turns) : turns[i].status = "RECORDED" => turns[i].called)'
    <3>1. \A i, j \in 1..Len(turns') : i < j => turns'[i].at < turns'[j].at
      <4>1. \A i, j \in 1..Len(turns) : i < j => turns[i].at < turns[j].at
          BY <1>0 DEF TurnsInv, OneCallPerBoundary
      <4> QED
          BY <1>3, <1>5, <4>1
    <3>2. \A i \in 1..(Len(turns') - 1) : turns'[i].status = "RECORDED" /\ turns'[i].called
      <4>1. ASSUME NEW i \in 1..(Len(turns) - 1) PROVE turns'[i].status = "RECORDED" /\ turns'[i].called
        <5>1. i \in 1..Len(turns) /\ i # Len(turns)
            BY <1>0
        <5> QED
            BY <1>0, <1>3, <5>1 DEF TurnsInv, OneCallPerBoundary
      <4> QED
          BY <1>3, <4>1
    <3>3. \A i \in 1..Len(turns') : turns'[i].status = "RECORDED" => turns'[i].called
        BY <1>0, <1>3 DEF TurnsInv
    <3> QED
        BY <1>0, <1>3, <3>1, <3>2, <3>3 DEF TurnsInv, OneCallPerBoundary
  <2>2. \A m \in Navigators : HoldsTurn(nav[m])'
    <3>1. HoldsTurn(nav[n])'
        BY <1>2, <1>3, <1>4 DEF HoldsTurn, Holding
    <3>2. ASSUME NEW m \in Navigators, m # n PROVE HoldsTurn(nav[m])'
        BY <1>4, <3>2 DEF HoldsTurn, Holding
    <3> QED
        BY <3>1, <3>2
  <2>3. \A m, o \in Navigators : nav'[m].pc \in Holding /\ nav'[o].pc \in Holding => m = o
      BY <1>4
  <2> QED
      BY <2>1, <2>2, <2>3 DEF TurnsInv
<1>8. RequestInv'
  <2>1. \A m \in Navigators : nav'[m].pc \in Holding => m = n /\ r.pc = "called" /\ runner.pc \notin Busy
      BY <1>4
  <2>2. runner.pc \in Busy => /\ Len(turns') > 0 /\ LastTurn'.called /\ LastTurn'.status # "RECORDED"
                              /\ \A m \in Navigators : nav'[m].pc \notin Holding
    <3>1. runner.pc \in Busy => LastTurn.called /\ (\A m \in Navigators : nav'[m].pc \notin Holding)
        BY <1>0, <2>1 DEF RequestInv
    <3>2. runner.pc \in Busy => t.status # "RECORDED"
        OBVIOUS
    <3> QED
        BY <1>2, <1>3, <3>1, <3>2
  <2>3. /\ runner.pc = "intend" => LastTurn'.at = Len(rows)
        /\ runner.pc \in InFlight => Len(rows) > 0 /\ runner.id = Len(rows) /\ LastTurn'.at = Len(rows) - 1
      BY <1>0, <1>3 DEF RequestInv
  <2>4. \A m \in Navigators : nav'[m].pc # "sending"
      BY <1>4 DEF Holding
  <2> QED
      BY <1>1, <2>2, <2>3, <2>4 DEF RequestInv
<1>9. ActionInv' /\ AgreementInv' /\ ReleasedIsSettled' /\ ReceptionInv'
  <2>1. ActionInv' /\ AgreementInv' /\ ReleasedIsSettled'
      BY <1>0, <1>1 DEF ActionInv, AgreementInv, ReleasedIsSettled
  <2>2. ReceptionInv'
      BY <1>0, <1>1 DEF ReceptionInv
  <2> QED
      BY <2>1, <2>2
<1>10. InputIsAttributed'
  <2>1. ASSUME NEW k \in 1..MaxActions, entered[k] > 0
        PROVE  \E i \in 1..Len(turns') : turns'[i].at = k - 1 /\ turns'[i].called
    <3>1. PICK i \in 1..Len(turns) : turns[i].at = k - 1 /\ turns[i].called
        BY <1>0, <2>1 DEF InputIsAttributed
    <3> QED
        BY <1>3, <1>5, <3>1
  <2> QED
      BY <1>0, <1>1, <2>1 DEF InputIsAttributed
<1> QED
    BY <1>6, <1>7, <1>8, <1>9, <1>10 DEF NativeInv

\* The provider is entered once for the reservation; what is refused is fenced.
LEMMA EnterProviderKeeps == ASSUME NativeInv, NEW n \in Navigators, EnterProvider(n) PROVE NativeInv'
<1>0. /\ TurnsInv /\ RequestInv /\ HoldsTurn(nav[n]) /\ nav[n].pc = "reserved" /\ received
      /\ nav \in [Navigators -> NavRows] /\ nav[n] \in NavRows /\ turns \in Seq(Turns)
    BY DEF NativeInv, NativeTypes, TurnsInv, ReceptionInv, EnterProvider
<1>1. /\ Len(turns) > 0 /\ nav[n].turn = Len(turns) /\ LastTurn.status = "STARTED" /\ LastTurn \in Turns
      /\ runner.pc \notin Busy
  <2>1. /\ Len(turns) > 0 /\ nav[n].turn = Len(turns) /\ LastTurn.status = "STARTED"
        /\ runner.pc \notin Busy
      BY <1>0 DEF HoldsTurn, Holding, RequestInv
  <2> QED
      BY <1>0, <2>1, ElementOfSeq DEF LastTurn
<1>2. UNCHANGED <<modelConsent, authority, rows, observed, finished, diskVars, host, bridge, runner, deskVars>>
    BY DEF EnterProvider
<1>3. CASE /\ turns' = [turns EXCEPT ![nav[n].turn].called = TRUE]
           /\ nav' = [nav EXCEPT ![n].pc = "called", ![n].disp = "UNCONFIRMED"]
  <2>1. PICK r : r = [nav[n] EXCEPT !.pc = "called", !.disp = "UNCONFIRMED"]
      OBVIOUS
  <2>2. PICK t : t = [LastTurn EXCEPT !.called = TRUE]
      OBVIOUS
  <2>3. /\ nav' = [nav EXCEPT ![n] = r] /\ r \in NavRows /\ r.pc = "called"
        /\ r.disp = "UNCONFIRMED" /\ r.turn = nav[n].turn /\ r.seq = nav[n].seq
      BY <1>0, <1>3, <2>1 DEF NavRows, NavStage
  <2>4. /\ t \in Turns /\ t.called /\ t.at = LastTurn.at /\ t.status = "STARTED"
      BY <1>1, <2>2 DEF Turns
  <2>5. turns' = [turns EXCEPT ![nav[n].turn] = t]
      BY <1>1, <1>3, <2>2 DEF LastTurn
  <2> QED
      BY <1>0, <1>1, <1>2, <2>3, <2>4, <2>5, TurnWritten DEF Holding
<1>4. CASE nav' = [nav EXCEPT ![n].pc = "finish", ![n].fence = TRUE] /\ UNCHANGED turns
  <2>1. PICK r : r = [nav[n] EXCEPT !.pc = "finish", !.fence = TRUE]
      OBVIOUS
  <2>2. /\ nav' = [nav EXCEPT ![n] = r] /\ r \in NavRows /\ r.pc = "finish"
        /\ r.disp = nav[n].disp /\ r.turn = nav[n].turn /\ r.seq = nav[n].seq
      BY <1>0, <1>4, <2>1 DEF NavRows, NavStage
  <2>3. HoldsTurn(r) /\ (r.pc \in Holding => nav[n].pc \in Holding)
      BY <1>0, <2>2 DEF HoldsTurn, Holding
  <2> QED
      BY <1>0, <1>1, <1>2, <1>4, <2>2, <2>3, MoveKeeps DEF serverVars
<1> QED
    BY <1>3, <1>4 DEF EnterProvider

\* The disposition is written by the holder, or the process ends without it.
LEMMA FinishTurnKeeps == ASSUME NativeInv, NEW n \in Navigators, FinishTurn(n) PROVE NativeInv'
<1>0. /\ TurnsInv /\ RequestInv /\ HoldsTurn(nav[n]) /\ nav[n].pc = "finish" /\ received
      /\ nav \in [Navigators -> NavRows] /\ nav[n] \in NavRows
      /\ turns \in Seq(Turns)
    BY DEF NativeInv, NativeTypes, TurnsInv, RequestInv, ReceptionInv, FinishTurn
<1>1. /\ Len(turns) > 0 /\ nav[n].turn = Len(turns) /\ LastTurn.at = nav[n].seq /\ LastTurn \in Turns
      /\ nav[n].seq < MaxActions
      /\ runner.pc \in Busy => nav[n].disp # "RECORDED"
      /\ nav[n].disp = "RECORDED" => LastTurn.called
    BY <1>0, ElementOfSeq DEF HoldsTurn, Holding, LastTurn, RequestInv
<1>2. UNCHANGED <<modelConsent, authority, rows, observed, finished, diskVars, host, bridge, runner, deskVars>>
    BY DEF FinishTurn
<1>3. PICK q, i : /\ nav' = [nav EXCEPT ![n].pc = q, ![n].seq = i] \/ nav' = [nav EXCEPT ![n].pc = q]
                  /\ q \in {"idle", "stopped", "ended"} /\ i \in {nav[n].seq, nav[n].seq + 1}
                  /\ \/ turns' = [turns EXCEPT ![nav[n].turn].status = nav[n].disp]
                     \/ UNCHANGED turns
    BY DEF FinishTurn
<1>4. PICK r : /\ r = [nav[n] EXCEPT !.pc = q, !.seq = i] \/ r = [nav[n] EXCEPT !.pc = q]
               /\ nav' = [nav EXCEPT ![n] = r]
    BY <1>3
<1>5. r \in NavRows /\ r.pc = q /\ r.pc \notin Holding
  <2>1. i \in 0..MaxActions /\ q \in NavStage /\ q \notin Holding
      BY <1>0, <1>1, <1>3, NativeAssumption DEF NavRows, NavStage, Holding
  <2> QED
      BY <1>0, <1>4, <2>1 DEF NavRows
<1>6. CASE turns' = [turns EXCEPT ![nav[n].turn].status = nav[n].disp]
  <2>1. PICK t : t = [LastTurn EXCEPT !.status = nav[n].disp]
      OBVIOUS
  <2>2. t \in Turns /\ t.called = LastTurn.called /\ t.at = LastTurn.at /\ t.status = nav[n].disp
      BY <1>0, <1>1, <2>1 DEF Turns, NavRows
  <2>3. turns' = [turns EXCEPT ![nav[n].turn] = t]
      BY <1>1, <1>6, <2>1 DEF LastTurn
  <2> QED
      BY <1>0, <1>1, <1>2, <1>4, <1>5, <2>2, <2>3, TurnWritten DEF Holding
<1>7. CASE UNCHANGED turns
    BY <1>0, <1>2, <1>3, <1>4, <1>5, <1>7, MoveKeeps DEF HoldsTurn, Holding, serverVars
<1> QED
    BY <1>3, <1>6, <1>7

-----------------------------------------------------------------------------
(* The host.                                                               *)

\* A consent or an authority that changes before the run is finished.
LEMMA ConsentKeeps == ASSUME NativeInv, IssueConsent \/ RevokeConsent \/ EndAuthority PROVE NativeInv'
<1>0. /\ NativeTypes /\ TurnsInv /\ RequestInv /\ ActionInv /\ AgreementInv
      /\ InputIsAttributed /\ ReceptionInv /\ ReleasedIsSettled
    BY DEF NativeInv
<1>1. /\ UNCHANGED <<turns, rows, observed, finished, claim, received, journal>>
      /\ UNCHANGED <<host, bridge, runner, entered, unsettled, nav>>
      /\ modelConsent' \in {"none", "live", "ended"} /\ authority' \in BOOLEAN /\ (authority' => authority)
  <2>1. authority \in BOOLEAN /\ modelConsent \in {"none", "live", "ended"}
      BY <1>0 DEF NativeTypes
  <2>2. CASE IssueConsent
      BY <2>1, <2>2 DEF IssueConsent, diskVars, deskVars
  <2>3. CASE RevokeConsent
      BY <2>1, <2>3 DEF RevokeConsent, diskVars, deskVars
  <2>4. CASE EndAuthority
    <3>1. authority' = FALSE
        BY <2>4 DEF EndAuthority
    <3> QED
        BY <2>1, <2>4, <3>1 DEF EndAuthority, diskVars, deskVars
  <2> QED
      BY <2>2, <2>3, <2>4
<1>2. NativeTypes'
    BY <1>0, <1>1 DEF NativeTypes
<1>3. TurnsInv'
    BY <1>0, <1>1 DEF TurnsInv, OneCallPerBoundary, HoldsTurn, LastTurn
<1>4. RequestInv'
    BY <1>0, <1>1 DEF RequestInv, LastTurn
<1>5. ActionInv' /\ AgreementInv' /\ InputIsAttributed' /\ ReleasedIsSettled'
    BY <1>0, <1>1 DEF ActionInv, AgreementInv, InputIsAttributed, ReleasedIsSettled
<1>6. ReceptionInv'
    BY <1>0, <1>1 DEF ReceptionInv
<1> QED
    BY <1>2, <1>3, <1>4, <1>5, <1>6 DEF NativeInv

\* A host that starts, opens, fences or dies: no action is in flight afterwards that was not
\* before, and an open bridge with an idle runner is the first of the run.
LEMMA HostMoves ==
    ASSUME NativeInv, runner' \in Runners, bridge' \in Bridges,
           host' \in [up : BOOLEAN, starts : 0..MaxStarts], claim' \in BOOLEAN, received' \in BOOLEAN,
           UNCHANGED <<serverVars, journal, deskVars, nav>>,
           \/ runner'.pc \in {"new", "idle"}
           \/ /\ runner'.pc = runner.pc /\ runner'.id = runner.id /\ runner'.by = runner.by
              /\ runner'.res = runner.res,
           runner'.pc = "idle" /\ ~bridge'.closed =>
              \A n \in Navigators : nav[n].pc # "sending" \/ (runner.pc = "idle" /\ ~bridge.closed),
           ReceptionInv', received' /\ ~claim' => finished
    PROVE  NativeInv'
<1>0. /\ NativeTypes /\ TurnsInv /\ RequestInv /\ ActionInv /\ AgreementInv
      /\ InputIsAttributed /\ ReceptionInv /\ ReleasedIsSettled
    BY DEF NativeInv
<1>1. /\ UNCHANGED <<modelConsent, authority, turns, rows, observed, finished, journal>>
      /\ UNCHANGED <<entered, unsettled, nav>>
    BY DEF serverVars, deskVars
<1>2. NativeTypes'
    BY <1>0, <1>1 DEF NativeTypes
<1>3. TurnsInv'
    BY <1>0, <1>1 DEF TurnsInv, OneCallPerBoundary, HoldsTurn, LastTurn
<1>4. RequestInv'
    BY <1>0, <1>1 DEF RequestInv, LastTurn, Busy, InFlight
<1>5. ActionInv'
    BY <1>0, <1>1 DEF ActionInv, InFlight
<1>6. AgreementInv' /\ InputIsAttributed' /\ ReleasedIsSettled'
    BY <1>0, <1>1 DEF AgreementInv, InputIsAttributed, ReleasedIsSettled
<1> QED
    BY <1>2, <1>3, <1>4, <1>5, <1>6 DEF NativeInv

\* A runner's record and a bridge's, moved and fenced.
LEMMA RunnerRows ==
    ASSUME NEW r \in Runners, NEW b \in Bridges
    PROVE  /\ Stopping(r) \in Runners /\ Stopping(r).stopping
           /\ Stopping(r).pc = r.pc /\ Stopping(r).id = r.id /\ Stopping(r).by = r.by
           /\ Stopping(r).res = r.res /\ Stopping(r).act = r.act /\ Stopping(r).fenced = r.fenced
           /\ Fence(r) \in Runners /\ Fence(r).fenced /\ Fence(r).pc = r.pc /\ Fence(r).id = r.id
           /\ Fence(r).by = r.by /\ Fence(r).res = r.res /\ Fence(r).act = r.act
           /\ Fence(r).stopping = r.stopping
           /\ Closed(b) \in Bridges /\ Closed(b).closed /\ Closed(b).stopped = b.stopped
           /\ Closed(b).next = b.next
    BY DEF Stopping, Fence, Closed, Runners, Bridges

\* The runner put to rest.
LEMMA RunnerIdles ==
    ASSUME NEW r \in Runners, NEW q \in RunnerStage
    PROVE  LET s == [r EXCEPT !.pc = q]
           IN  /\ s \in Runners /\ s.pc = q /\ s.id = r.id /\ s.by = r.by /\ s.res = r.res
               /\ s.act = r.act /\ s.stopping = r.stopping /\ s.fenced = r.fenced
    BY DEF Runners

LEMMA HostKeeps == ASSUME NativeInv, StartHost \/ OpenSession \/ FenceHost \/ CrashHost PROVE NativeInv'
<1>0. /\ NativeTypes /\ RequestInv /\ ReceptionInv /\ ReleasedIsSettled
      /\ runner \in Runners /\ bridge \in Bridges /\ claim \in BOOLEAN /\ received \in BOOLEAN
      /\ host \in [up : BOOLEAN, starts : 0..MaxStarts]
    BY DEF NativeInv, NativeTypes
<1>1. UNCHANGED <<serverVars, journal, deskVars, nav>> /\ UNCHANGED <<authority, finished>>
    BY DEF StartHost, OpenSession, FenceHost, CrashHost, diskVars, serverVars
<1>2. PICK i : i = [runner EXCEPT !.pc = "idle"]
    OBVIOUS
<1>3. /\ i \in Runners /\ i.pc = "idle" /\ i.stopping = runner.stopping
      /\ Stopping(i) \in Runners /\ Stopping(i).pc = "idle" /\ Stopping(i).stopping
      /\ Closed(bridge) \in Bridges /\ Closed(bridge).closed
      /\ Stopping(runner) \in Runners /\ Stopping(runner).stopping
      /\ Stopping(runner).pc = runner.pc /\ Stopping(runner).id = runner.id
      /\ Stopping(runner).by = runner.by /\ Stopping(runner).res = runner.res
  <2>1. i \in Runners /\ i.pc = "idle" /\ i.stopping = runner.stopping
      BY <1>0, <1>2 DEF Runners, RunnerStage
  <2> QED
      BY <1>0, <2>1, RunnerRows
<1>4. CASE StartHost
  <2>1. /\ NoRunner \in Runners /\ NoRunner.pc = "new" /\ NoBridge \in Bridges /\ ~NoBridge.closed
      BY NativeAssumption DEF NoRunner, Runners, RunnerStage, Acts, Results, Known, NoBridge, Bridges
  <2>2. /\ host' \in [up : BOOLEAN, starts : 0..MaxStarts] /\ claim' = TRUE /\ UNCHANGED received
        /\ runner' = NoRunner /\ bridge' = NoBridge /\ UNCHANGED nav
      BY <1>0, <1>4, NativeAssumption DEF StartHost
  <2>3. ReceptionInv'
      BY <1>0, <1>1, <2>1, <2>2 DEF ReceptionInv
  <2> QED
      BY <1>0, <1>1, <2>1, <2>2, <2>3, HostMoves
<1>5. CASE OpenSession
  <2>1. /\ received' = TRUE /\ UNCHANGED <<claim, host, nav>> /\ host.up
        /\ \/ ~received /\ authority /\ ~bridge.closed /\ runner' = i /\ bridge' = bridge
           \/ runner' = Stopping(i) /\ bridge' = Closed(bridge)
      BY <1>2, <1>5 DEF OpenSession
  <2>2. ReceptionInv'
      BY <1>0, <1>1, <1>3, <2>1 DEF ReceptionInv
  <2>3. runner' \in Runners /\ bridge' \in Bridges /\ runner'.pc = "idle"
      BY <1>0, <1>3, <2>1
  <2>4. ~bridge'.closed => \A n \in Navigators : nav[n].pc # "sending"
      BY <1>0, <1>3, <2>1 DEF ReceptionInv
  <2>5. received' /\ ~claim' => finished
      BY <1>0, <2>1 DEF ReceptionInv
  <2> QED
      BY <1>0, <1>1, <2>1, <2>2, <2>3, <2>4, <2>5, HostMoves
<1>6. CASE FenceHost
  <2>1. /\ UNCHANGED <<claim, host, nav, received>> /\ runner' = Stopping(runner) /\ bridge' = Closed(bridge)
      BY <1>6 DEF FenceHost, diskVars
  <2>2. ReceptionInv'
      BY <1>0, <1>1, <1>3, <2>1 DEF ReceptionInv
  <2> QED
      BY <1>0, <1>1, <1>3, <2>1, <2>2, HostMoves DEF ReleasedIsSettled
<1>7. CASE CrashHost
  <2>1. /\ UNCHANGED <<claim, nav, received>> /\ runner' = Stopping(i) /\ bridge' = Closed(bridge)
        /\ host' \in [up : BOOLEAN, starts : 0..MaxStarts] /\ ~host'.up /\ host.up
      BY <1>0, <1>2, <1>7 DEF CrashHost, diskVars
  <2>2. ReceptionInv'
      BY <1>0, <1>1, <1>3, <2>1 DEF ReceptionInv
  <2> QED
      BY <1>0, <1>1, <1>3, <2>1, <2>2, HostMoves DEF ReleasedIsSettled
<1> QED
    BY <1>4, <1>5, <1>6, <1>7

-----------------------------------------------------------------------------
(* Requests and answers.                                                   *)

\* A request is taken by an idle runner whose rows are those its navigator saw.
LEMMA AcceptKeeps == ASSUME NativeInv, NEW n \in Navigators, AcceptRequest(n) PROVE NativeInv'
<1>0. /\ NativeTypes /\ TurnsInv /\ RequestInv /\ ActionInv /\ AgreementInv
      /\ InputIsAttributed /\ ReceptionInv /\ ReleasedIsSettled
      /\ runner \in Runners /\ bridge \in Bridges /\ nav \in [Navigators -> NavRows]
      /\ nav[n] \in NavRows /\ turns \in Seq(Turns) /\ rows \in Seq(ActionRows)
      /\ Len(turns) \in Nat /\ Len(rows) \in Nat
    BY DEF NativeInv, NativeTypes
<1>1. /\ UNCHANGED <<modelConsent, authority, turns, rows, observed, finished, claim, received, journal>>
      /\ UNCHANGED <<host, entered, unsettled>>
      /\ host.up /\ nav[n].pc = "sending" /\ runner.pc # "new" /\ received
    BY <1>0 DEF AcceptRequest, serverVars, diskVars, deskVars, ReceptionInv
<1>2. AgreementInv' /\ InputIsAttributed' /\ ReleasedIsSettled'
    BY <1>0, <1>1 DEF AgreementInv, InputIsAttributed, ReleasedIsSettled
<1>3. CASE /\ Binding(n) /\ bridge' = [bridge EXCEPT !.next = @ + 1] /\ UNCHANGED nav
           /\ runner' = [runner EXCEPT !.pc = "intend", !.id = 0, !.act = nav[n].act, !.by = n]
  <2>1. /\ runner' \in Runners /\ runner'.pc = "intend" /\ runner'.by = n
        /\ runner'.stopping = runner.stopping
    <3>1. PICK a \in Acts : a = nav[n].act
        BY <1>0 DEF NavRows
    <3>2. /\ runner' = [runner EXCEPT !.pc = "intend", !.id = 0, !.act = a, !.by = n]
          /\ 0 \in 0..MaxActions
        BY <1>3, <3>1, NativeAssumption
    <3> QED
        BY <1>0, <3>2 DEF Runners, RunnerStage
  <2>2. bridge' \in Bridges /\ ~bridge'.closed /\ ~bridge.closed /\ runner.pc = "idle"
      BY <1>0, <1>3, NativeAssumption DEF Bridges, Binding
  <2>3. NativeTypes'
      BY <1>0, <1>1, <1>3, <2>1, <2>2 DEF NativeTypes
  <2>4. TurnsInv'
      BY <1>0, <1>1, <1>3 DEF TurnsInv, OneCallPerBoundary, HoldsTurn, LastTurn
  <2>5. RequestInv'
    <3>1. /\ Len(turns) > 0 /\ LastTurn.called /\ LastTurn.status # "RECORDED"
          /\ LastTurn.at = Len(rows) /\ nav[n].disp # "RECORDED"
        BY <1>0, <1>1, <2>2 DEF TurnsInv, HoldsTurn, Holding, RequestInv
    <3>2. \A m \in Navigators : nav[m].pc \in Holding => m = n
        BY <1>0, <1>1 DEF TurnsInv, Holding
    <3> QED
        BY <1>1, <1>3, <2>1, <2>2, <3>1, <3>2 DEF RequestInv, InFlight, LastTurn
  <2>6. ActionInv'
      BY <2>1 DEF ActionInv, InFlight
  <2>7. ReceptionInv'
      BY <1>0, <1>1, <1>3, <2>1, <2>2 DEF ReceptionInv
  <2> QED
      BY <1>2, <2>3, <2>4, <2>5, <2>6, <2>7 DEF NativeInv
<1>4. CASE /\ bridge' = Closed(bridge) /\ runner' = Stopping(runner)
           /\ nav' = [nav EXCEPT ![n].pc = "finish", ![n].fence = TRUE, ![n].res = "AMBIGUOUS"]
  <2>1. /\ runner' \in Runners /\ runner'.stopping /\ runner'.pc = runner.pc
        /\ runner'.id = runner.id /\ runner'.by = runner.by /\ runner'.res = runner.res
        /\ bridge' \in Bridges /\ bridge'.closed
      BY <1>0, <1>4, RunnerRows
  <2>2. PICK r : r = [nav[n] EXCEPT !.pc = "finish", !.fence = TRUE, !.res = "AMBIGUOUS"]
      OBVIOUS
  <2>3. /\ nav' = [nav EXCEPT ![n] = r] /\ r \in NavRows /\ r.pc = "finish"
        /\ r.disp = nav[n].disp /\ r.turn = nav[n].turn /\ r.seq = nav[n].seq
      BY <1>0, <1>4, <2>2 DEF NavRows, NavStage, Results
  <2>4. /\ nav' \in [Navigators -> NavRows] /\ nav'[n] = r
        /\ \A m \in Navigators : m # n => nav'[m] = nav[m]
      BY <1>0, <2>3
  <2>5. NativeTypes'
      BY <1>0, <1>1, <2>1, <2>4 DEF NativeTypes
  <2>6. TurnsInv'
    <3>1. \A m \in Navigators : HoldsTurn(nav[m])'
        BY <1>0, <1>1, <2>3, <2>4 DEF TurnsInv, HoldsTurn, LastTurn, Holding
    <3> QED
        BY <1>0, <1>1, <2>3, <2>4, <3>1 DEF TurnsInv, OneCallPerBoundary, Holding
  <2>7. RequestInv'
      BY <1>0, <1>1, <2>1, <2>3, <2>4 DEF RequestInv, LastTurn, Holding
  <2>8. ActionInv'
      BY <1>0, <1>1, <2>1 DEF ActionInv
  <2>9. ReceptionInv'
      BY <1>0, <1>1, <2>1 DEF ReceptionInv
  <2> QED
      BY <1>2, <2>5, <2>6, <2>7, <2>8, <2>9 DEF NativeInv
<1> QED
    BY <1>3, <1>4 DEF AcceptRequest

\* An answer is delivered to the navigator that waits for it, or the bridge is closed.
LEMMA ReplyKeeps == ASSUME NativeInv, ReplyToNavigator PROVE NativeInv'
<1>0. /\ NativeTypes /\ TurnsInv /\ RequestInv /\ ActionInv /\ AgreementInv
      /\ InputIsAttributed /\ ReceptionInv /\ ReleasedIsSettled
      /\ runner \in Runners /\ bridge \in Bridges /\ nav \in [Navigators -> NavRows]
      /\ runner.by \in Navigators /\ nav[runner.by] \in NavRows
    BY DEF NativeInv, NativeTypes, Runners
<1>1. /\ UNCHANGED <<modelConsent, authority, turns, rows, observed, finished, claim, received, journal>>
      /\ UNCHANGED <<host, entered, unsettled>>
      /\ host.up /\ runner.pc = "reply" /\ received /\ ~finished
    BY <1>0 DEF ReplyToNavigator, serverVars, diskVars, deskVars, ReceptionInv
<1>2. PICK i : i = [runner EXCEPT !.pc = "idle"]
    OBVIOUS
<1>3. i \in Runners /\ i.pc = "idle" /\ i.stopping = runner.stopping
    BY <1>0, <1>2 DEF Runners, RunnerStage
<1>4. CASE /\ bridge' = Closed(bridge) /\ runner' = Stopping(i) /\ UNCHANGED nav
  <2>1. /\ runner' \in Runners /\ runner'.pc = "idle" /\ runner'.stopping
        /\ bridge' \in Bridges /\ bridge'.closed
      BY <1>0, <1>3, <1>4, RunnerRows
  <2>2. ReceptionInv'
      BY <1>0, <1>1, <1>4, <2>1 DEF ReceptionInv
  <2> QED
      BY <1>0, <1>1, <1>4, <2>1, <2>2, HostMoves DEF serverVars, deskVars, NativeTypes, ReleasedIsSettled
<1>5. ASSUME nav[runner.by].pc = "sending", ~bridge.closed,
             nav' = [nav EXCEPT ![runner.by] = Answered(@, runner.res)],
             NEW clean, NEW stop, clean \in BOOLEAN, stop \in BOOLEAN,
             bridge' = [bridge EXCEPT !.stopped = @ \/ stop, !.closed = ~clean /\ ~stop],
             runner' = [runner EXCEPT !.pc = "idle", !.stopping = @ \/ (~clean /\ ~stop)]
      PROVE  NativeInv'
  <2>1. PICK n \in Navigators : n = runner.by
      BY <1>0
  <2>2. PICK r : r = Answered(nav[n], runner.res)
      OBVIOUS
  <2>3. /\ nav' = [nav EXCEPT ![n] = r] /\ r \in NavRows /\ r.pc = "finish"
        /\ r.turn = nav[n].turn /\ r.seq = nav[n].seq
      BY <1>0, <1>5, <2>1, <2>2 DEF NavRows, NavStage, Runners, Answered
  <2>4. /\ nav' \in [Navigators -> NavRows] /\ nav'[n] = r
        /\ \A m \in Navigators : m # n => nav'[m] = nav[m] /\ nav[m].pc \notin Holding
    <3>1. \A m \in Navigators : m # n => nav[m].pc \notin Holding
        BY <1>0, <1>1, <2>1 DEF RequestInv, Busy
    <3> QED
        BY <1>0, <2>3, <3>1
  <2>5. /\ runner' \in Runners /\ runner'.pc = "idle" /\ bridge' \in Bridges
        /\ bridge'.closed => runner'.stopping
      BY <1>0, <1>5 DEF Runners, RunnerStage, Bridges
  <2>6. NativeTypes'
      BY <1>0, <1>1, <2>4, <2>5 DEF NativeTypes
  <2>7. TurnsInv'
    <3>1. HoldsTurn(nav[n])'
        BY <1>0, <1>1, <1>5, <2>1, <2>3, <2>4 DEF TurnsInv, HoldsTurn, LastTurn, Holding
    <3>2. ASSUME NEW m \in Navigators, m # n PROVE HoldsTurn(nav[m])'
        BY <2>4, <3>2 DEF HoldsTurn, Holding
    <3> QED
        BY <1>0, <1>1, <2>4, <3>1, <3>2 DEF TurnsInv, OneCallPerBoundary
  <2>8. RequestInv'
      BY <2>3, <2>4, <2>5 DEF RequestInv, Busy, InFlight, Holding
  <2>9. ActionInv'
      BY <2>5 DEF ActionInv, InFlight
  <2>10. AgreementInv' /\ InputIsAttributed' /\ ReleasedIsSettled'
      BY <1>0, <1>1 DEF AgreementInv, InputIsAttributed, ReleasedIsSettled
  <2>11. ReceptionInv'
      BY <1>0, <1>1, <2>5 DEF ReceptionInv
  <2> QED
      BY <2>6, <2>7, <2>8, <2>9, <2>10, <2>11 DEF NativeInv
<1> QED
    BY <1>2, <1>4, <1>5 DEF ReplyToNavigator

-----------------------------------------------------------------------------
(* The runner's steps on one action.                                       *)

\* A step of the runner that leaves the navigators, their turns, the bridge and the reception.
LEMMA RunnerStepKeeps ==
    ASSUME NativeInv, host.up, runner.pc \in Busy, runner'.pc \in Busy, runner' \in Runners,
           UNCHANGED <<modelConsent, turns, observed, finished, claim, received, host, bridge, nav>>,
           authority' \in BOOLEAN, authority' => authority,
           rows' \in Seq(ActionRows), journal' \in Seq(Entries),
           entered' \in [1..MaxActions -> Nat], unsettled' \subseteq 1..MaxActions,
           runner'.by = runner.by, runner.stopping => runner'.stopping, runner'.pc # "intend",
           runner'.pc \in InFlight =>
              /\ Len(rows') > 0 /\ runner'.id = Len(rows')
              /\ runner.pc = "intend" => Len(rows') = Len(rows) + 1
              /\ runner.pc # "intend" => runner.pc \in InFlight /\ Len(rows') = Len(rows),
           ActionInv', AgreementInv', InputIsAttributed'
    PROVE  NativeInv'
<1>0. /\ NativeTypes /\ TurnsInv /\ RequestInv /\ ReceptionInv /\ ReleasedIsSettled
      /\ Len(rows) \in Nat /\ Len(rows') \in Nat
    BY DEF NativeInv, NativeTypes
<1>1. received /\ ~finished /\ claim
    BY <1>0 DEF ReceptionInv, Busy, InFlight
<1>2. NativeTypes'
    BY <1>0 DEF NativeTypes
<1>3. TurnsInv'
    BY <1>0 DEF TurnsInv, OneCallPerBoundary, HoldsTurn, LastTurn
<1>4. RequestInv'
    BY <1>0 DEF RequestInv, LastTurn, Busy, InFlight
<1>5. ReceptionInv' /\ ReleasedIsSettled'
    BY <1>0, <1>1 DEF ReceptionInv, ReleasedIsSettled
<1> QED
    BY <1>2, <1>3, <1>4, <1>5 DEF NativeInv

\* What the runner does with a refusal, a doubt and a late answer.
LEMMA RunnerGivesUp ==
    ASSUME NEW r \in Runners
    PROVE  /\ Refuse(r) \in Runners /\ Refuse(r).pc = "reply" /\ Refuse(r).by = r.by
           /\ Refuse(r).stopping = r.stopping
           /\ Ambiguous(r) \in Runners /\ Ambiguous(r).pc = "report" /\ Ambiguous(r).res = "AMBIGUOUS"
           /\ Ambiguous(r).by = r.by /\ Ambiguous(r).id = r.id /\ Ambiguous(r).stopping = r.stopping
           /\ Unresolved(r) \in Runners /\ Unresolved(r).pc = "result" /\ Unresolved(r).res = "AMBIGUOUS"
           /\ Unresolved(r).by = r.by /\ Unresolved(r).id = r.id /\ Unresolved(r).stopping = r.stopping
    BY DEF Refuse, Ambiguous, Unresolved, Fence, Runners, RunnerStage, Results, Known

\* The action in flight has a row, and it is the last.
LEMMA InFlightRow ==
    ASSUME NativeInv, runner.pc \in InFlight
    PROVE  /\ runner.id = Len(rows) /\ runner.id \in 1..Len(rows) /\ runner.id \in 1..MaxActions
           /\ rows[runner.id] \in ActionRows /\ rows \in Seq(ActionRows) /\ Len(rows) \in Nat
           /\ journal \in Seq(Entries) /\ Len(journal) \in Nat
           /\ \E i \in 1..Len(turns) : turns[i].at = runner.id - 1 /\ turns[i].called
<1>1. /\ runner.id = Len(rows) /\ Len(rows) > 0 /\ Len(rows) <= MaxActions /\ rows \in Seq(ActionRows)
      /\ LastTurn.at = Len(rows) - 1 /\ LastTurn.called /\ Len(turns) > 0
      /\ turns \in Seq(Turns) /\ journal \in Seq(Entries)
    BY DEF NativeInv, RequestInv, AgreementInv, NativeTypes, Busy
<1>2. Len(rows) \in Nat /\ Len(turns) \in Nat /\ Len(journal) \in Nat
    BY <1>1
<1> QED
    BY <1>1, <1>2, NativeAssumption, ElementOfSeq DEF LastTurn

\* The row and the journal entry of an action that entered the adapter.
LEMMA EnteredRow ==
    ASSUME InputIsAttributed, NEW k \in 1..MaxActions, entered[k] > 0
    PROVE  /\ entered[k] = 1 /\ k <= Len(rows) /\ rows[k].state # "INTENDED"
           /\ \E i \in 1..Len(journal) : journal[i] = [id |-> k, res |-> "INTENT"]
           /\ \E i \in 1..Len(turns) : turns[i].at = k - 1 /\ turns[i].called
    BY Zenon DEF InputIsAttributed

\* The server writes the row of the action in flight.
LEMMA RowWritten ==
    ASSUME NativeInv, runner.pc \in InFlight, NEW t \in ActionRows,
           rows' = [rows EXCEPT ![runner.id] = t],
           UNCHANGED <<turns, journal, entered>>, unsettled' \subseteq unsettled,
           t.state = "INTENDED" => rows[runner.id].state = "INTENDED",
           t.state \in Known =>
              /\ entered[runner.id] = 1 /\ runner.id \notin unsettled'
              /\ \A i \in 1..Len(journal) :
                   journal[i].id = runner.id /\ journal[i].res \in Known => journal[i].res = t.state
    PROVE  /\ rows' \in Seq(ActionRows) /\ Len(rows') = Len(rows) /\ rows'[runner.id] = t
           /\ AgreementInv' /\ InputIsAttributed'
<1>1. /\ runner.id = Len(rows) /\ runner.id \in 1..Len(rows) /\ rows \in Seq(ActionRows)
      /\ Len(rows) \in Nat /\ AgreementInv /\ InputIsAttributed
    BY InFlightRow DEF NativeInv
<1>2. /\ rows' \in Seq(ActionRows) /\ Len(rows') = Len(rows) /\ rows'[runner.id] = t
      /\ \A k \in 1..Len(rows) : k # runner.id => rows'[k] = rows[k]
    BY <1>1, ExceptSeq
<1>3. InputIsAttributed'
  <2>1. ASSUME NEW k \in 1..MaxActions, entered[k] > 0
        PROVE  k \in 1..Len(rows) /\ rows[k].state # "INTENDED"
    <3>1. k <= Len(rows) /\ rows[k].state # "INTENDED"
        BY <1>1, <2>1, EnteredRow, Zenon
    <3> QED
        BY <1>1, <2>1, <3>1, NativeAssumption
  <2>2. \A k \in 1..Len(rows) : rows[k].state # "INTENDED" => rows'[k].state # "INTENDED"
      BY <1>2
  <2> QED
      BY <1>1, <1>2, <2>1, <2>2 DEF InputIsAttributed
<1>4. AgreementInv'
  <2>1. \A k \in 1..Len(rows') : rows'[k].state \in Known => entered'[k] = 1
      BY <1>1, <1>2 DEF AgreementInv
  <2>2. \A k \in unsettled' : k <= Len(rows') /\ rows'[k].state \notin Known
    <3>1. unsettled \subseteq 1..MaxActions
        BY DEF NativeInv, NativeTypes
    <3>2. ASSUME NEW k \in unsettled' PROVE k \in 1..Len(rows) /\ rows[k].state \notin Known
        BY <1>1, <3>1 DEF AgreementInv
    <3> QED
        BY <1>2, <3>2
  <2>3. ASSUME NEW i \in 1..Len(journal)
        PROVE  /\ journal[i].id <= Len(rows)
               /\ journal[i].res \in Known /\ rows'[journal[i].id].state \in Known =>
                    rows'[journal[i].id].state = journal[i].res
    <3>1. journal[i].id \in 1..Len(rows)
      <4>1. journal[i] \in Entries /\ journal[i].id <= Len(rows)
          BY <1>1, ElementOfSeq DEF NativeInv, NativeTypes, AgreementInv
      <4> QED
          BY <1>1, <4>1 DEF Entries
    <3> QED
        BY <1>1, <1>2, <3>1 DEF AgreementInv
  <2> QED
      BY <1>1, <1>2, <2>1, <2>2, <2>3 DEF AgreementInv
<1> QED
    BY <1>2, <1>3, <1>4

\* The journal grows by an entry of the action in flight.
LEMMA JournalGrows ==
    ASSUME NativeInv, runner.pc \in InFlight, NEW e \in Entries, journal' = Append(journal, e),
           UNCHANGED <<turns, rows, entered, unsettled>>, e.id = runner.id,
           e.res \in Known => rows[runner.id].state \notin Known
    PROVE  /\ journal' \in Seq(Entries) /\ Len(journal') = Len(journal) + 1 /\ journal'[Len(journal) + 1] = e
           /\ \A i \in 1..Len(journal) : journal'[i] = journal[i]
           /\ AgreementInv' /\ InputIsAttributed'
<1>1. /\ runner.id = Len(rows) /\ runner.id \in 1..Len(rows) /\ journal \in Seq(Entries)
      /\ Len(rows) \in Nat /\ Len(journal) \in Nat /\ AgreementInv /\ InputIsAttributed
    BY InFlightRow DEF NativeInv
<1>2. /\ journal' \in Seq(Entries) /\ Len(journal') = Len(journal) + 1 /\ journal'[Len(journal) + 1] = e
      /\ \A i \in 1..Len(journal) : journal'[i] = journal[i]
    BY <1>1, AppendProperties
<1>3. InputIsAttributed'
  <2>1. ASSUME NEW x, \E i \in 1..Len(journal) : journal[i] = x
        PROVE  \E i \in 1..Len(journal') : journal'[i] = x
    <3>1. PICK i \in 1..Len(journal) : journal[i] = x
        BY <2>1
    <3>2. i \in 1..Len(journal') /\ journal'[i] = x
        BY <1>1, <1>2, <3>1
    <3> QED
        BY <3>2
  <2>2. ASSUME NEW k \in 1..MaxActions, entered[k] > 0
        PROVE  \E i \in 1..Len(journal') : journal'[i] = [id |-> k, res |-> "INTENT"]
      BY <1>1, <2>1, <2>2 DEF InputIsAttributed
  <2> QED
      BY <1>1, <2>2 DEF InputIsAttributed
<1>4. AgreementInv'
  <2>1. ASSUME NEW i \in 1..Len(journal')
        PROVE  /\ journal'[i].id <= Len(rows)
               /\ journal'[i].res \in Known /\ rows[journal'[i].id].state \in Known =>
                    rows[journal'[i].id].state = journal'[i].res
    <3>1. i \in 1..Len(journal) \/ i = Len(journal) + 1
        BY <1>1, <1>2
    <3> QED
        BY <1>1, <1>2, <3>1 DEF AgreementInv
  <2> QED
      BY <1>1, <2>1 DEF AgreementInv
<1> QED
    BY <1>2, <1>3, <1>4

\* The intent is stored, also when its identity never arrives.
LEMMA IntentKeeps == ASSUME NativeInv, RetainIntent PROVE NativeInv'
<1>0. /\ NativeTypes /\ AgreementInv /\ InputIsAttributed /\ runner \in Runners
      /\ rows \in Seq(ActionRows) /\ Len(rows) \in Nat /\ journal \in Seq(Entries)
      /\ entered \in [1..MaxActions -> Nat] /\ authority \in BOOLEAN /\ unsettled \subseteq 1..MaxActions
    BY DEF NativeInv, NativeTypes
<1>1. /\ host.up /\ runner.pc = "intend"
      /\ UNCHANGED <<modelConsent, authority, turns, observed, finished, claim, received, journal>>
      /\ UNCHANGED <<host, bridge, entered, unsettled, nav>>
    BY DEF RetainIntent, diskVars, deskVars
<1>2. /\ Refuse(runner) \in Runners /\ Refuse(runner).pc = "reply" /\ Refuse(runner).by = runner.by
      /\ Refuse(runner).stopping = runner.stopping
    BY <1>0, RunnerGivesUp
<1>3. CASE runner' = Refuse(runner) /\ UNCHANGED rows
  <2>1. ActionInv' /\ AgreementInv' /\ InputIsAttributed'
      BY <1>0, <1>1, <1>2, <1>3 DEF ActionInv, InFlight, AgreementInv, InputIsAttributed
  <2> QED
      BY <1>0, <1>1, <1>2, <1>3, <2>1, RunnerStepKeeps DEF Busy, InFlight
<1>4. ASSUME IntentAdmitted,
             rows' = Append(rows, [act |-> runner.act, state |-> "INTENDED", seen |-> FALSE]),
             \/ runner' = [runner EXCEPT !.pc = "commit", !.id = Len(rows'), !.started = TRUE]
             \/ runner' = Refuse(runner)
      PROVE  NativeInv'
  <2>1. PICK t : t = [act |-> runner.act, state |-> "INTENDED", seen |-> FALSE]
      OBVIOUS
  <2>2. t \in ActionRows /\ t.state = "INTENDED"
      BY <1>0, <2>1 DEF ActionRows, Runners
  <2>3. /\ rows' \in Seq(ActionRows) /\ Len(rows') = Len(rows) + 1 /\ rows'[Len(rows) + 1] = t
        /\ \A k \in 1..Len(rows) : rows'[k] = rows[k]
        /\ Len(rows') \in 1..MaxActions
    <3>1. Len(rows) < MaxActions
        BY <1>4 DEF IntentAdmitted
    <3>2. rows' = Append(rows, t)
        BY <1>4, <2>1
    <3> QED
        BY <1>0, <2>2, <3>1, <3>2, AppendProperties, NativeAssumption
  <2>4. InputIsAttributed'
    <3>1. ASSUME NEW k \in 1..MaxActions, entered[k] > 0
          PROVE  k \in 1..Len(rows) /\ k <= Len(rows') /\ rows'[k].state # "INTENDED"
      <4>1. k \in 1..Len(rows) /\ rows[k].state # "INTENDED"
        <5>1. k <= Len(rows) /\ rows[k].state # "INTENDED"
            BY <1>0, <3>1, EnteredRow, Zenon
        <5> QED
            BY <1>0, <3>1, <5>1, NativeAssumption
      <4> QED
          BY <1>0, <2>3, <4>1
    <3> QED
        BY <1>0, <1>1, <3>1 DEF InputIsAttributed
  <2>5. AgreementInv'
    <3>1. \A k \in 1..Len(rows') : rows'[k].state \in Known => entered[k] = 1
      <4>1. ASSUME NEW k \in 1..Len(rows'), rows'[k].state \in Known PROVE k \in 1..Len(rows)
          BY <1>0, <2>2, <2>3, <4>1 DEF Known
      <4> QED
          BY <1>0, <1>1, <2>3, <4>1 DEF AgreementInv
    <3>2. \A k \in unsettled : k <= Len(rows') /\ rows'[k].state \notin Known
      <4>1. ASSUME NEW k \in unsettled PROVE k \in 1..Len(rows)
          BY <1>0 DEF AgreementInv
      <4> QED
        <5>1. ASSUME NEW k \in unsettled PROVE k \in 1..Len(rows) /\ rows[k].state \notin Known
            BY <1>0, <4>1, <5>1 DEF AgreementInv
        <5> QED
            BY <1>0, <2>3, <5>1
    <3>3. ASSUME NEW i \in 1..Len(journal)
          PROVE  /\ journal[i].id <= Len(rows')
                 /\ journal[i].res \in Known /\ rows'[journal[i].id].state \in Known =>
                      rows'[journal[i].id].state = journal[i].res
      <4>1. journal[i] \in Entries /\ journal[i].id <= Len(rows)
          BY <1>0, ElementOfSeq DEF AgreementInv
      <4>2. journal[i].id \in 1..Len(rows)
          BY <1>0, <4>1 DEF Entries
      <4> QED
          BY <1>0, <2>3, <4>2 DEF AgreementInv
    <3> QED
        BY <1>0, <1>1, <2>3, <3>1, <3>2, <3>3 DEF AgreementInv
  <2>6. CASE runner' = [runner EXCEPT !.pc = "commit", !.id = Len(rows'), !.started = TRUE]
    <3>1. /\ runner' \in Runners /\ runner'.pc = "commit" /\ runner'.id = Len(rows) + 1
          /\ runner'.by = runner.by /\ runner'.stopping = runner.stopping
      <4>1. PICK k \in 0..MaxActions : k = Len(rows')
          BY <2>3
      <4>2. /\ runner' \in Runners /\ runner'.pc = "commit" /\ runner'.id = k
            /\ runner'.by = runner.by /\ runner'.stopping = runner.stopping
          BY <1>0, <2>6, <4>1 DEF Runners, RunnerStage
      <4> QED
          BY <2>3, <4>1, <4>2
    <3>2. entered'[Len(rows) + 1] = 0
      <4>1. Len(rows) + 1 \in 1..MaxActions /\ entered[Len(rows) + 1] \in Nat
          BY <1>0, <2>3
      <4> QED
        <5>1. ~(entered[Len(rows) + 1] > 0)
          <6>1. ASSUME NEW k \in 1..MaxActions, k = Len(rows) + 1, entered[k] > 0 PROVE FALSE
            <7>1. k <= Len(rows)
                BY <1>0, <6>1, EnteredRow, Zenon
            <7> QED
                BY <1>0, <6>1, <7>1
          <6> QED
              BY <4>1, <6>1
        <5> QED
            BY <1>1, <4>1, <5>1
    <3>3. \A i \in 1..Len(journal) : journal[i].id # Len(rows) + 1
      <4>1. ASSUME NEW i \in 1..Len(journal) PROVE journal[i] \in Entries /\ journal[i].id <= Len(rows)
          BY <1>0, ElementOfSeq DEF AgreementInv
      <4> QED
          BY <1>0, <4>1 DEF Entries
    <3>4. ActionInv'
        BY <1>1, <3>1, <3>2, <3>3 DEF ActionInv
    <3> QED
        BY <1>0, <1>1, <2>3, <2>4, <2>5, <3>1, <3>4, RunnerStepKeeps DEF Busy, InFlight
  <2>7. CASE runner' = Refuse(runner)
    <3>1. ActionInv'
        BY <1>2, <2>7 DEF ActionInv, InFlight
    <3> QED
        BY <1>0, <1>1, <1>2, <2>3, <2>4, <2>5, <2>7, <3>1, RunnerStepKeeps DEF Busy, InFlight
  <2> QED
      BY <1>4, <2>6, <2>7
<1> QED
    BY <1>3, <1>4 DEF RetainIntent

\* The row, rewritten field by field.
LEMMA RowRewritten ==
    ASSUME NEW t \in ActionRows
    PROVE  /\ \A q \in Known \cup {"INTENDED", "COMMITTED", "AMBIGUOUS"} :
                /\ [t EXCEPT !.state = q] \in ActionRows /\ [t EXCEPT !.state = q].state = q
           /\ [t EXCEPT !.seen = TRUE] \in ActionRows /\ [t EXCEPT !.seen = TRUE].state = t.state
    BY DEF ActionRows

\* The dispatch is committed, or stays in doubt.
LEMMA CommitKeeps == ASSUME NativeInv, CommitDispatch PROVE NativeInv'
<1>0. /\ NativeTypes /\ AgreementInv /\ InputIsAttributed /\ ActionInv /\ runner \in Runners
      /\ entered \in [1..MaxActions -> Nat] /\ authority \in BOOLEAN /\ unsettled \subseteq 1..MaxActions
    BY DEF NativeInv, NativeTypes
<1>1. /\ host.up /\ runner.pc = "commit" /\ runner.pc \in InFlight
      /\ UNCHANGED <<modelConsent, authority, turns, observed, finished, claim, received, journal>>
      /\ UNCHANGED <<host, bridge, entered, unsettled, nav>>
    BY DEF CommitDispatch, diskVars, deskVars, InFlight
<1>2. /\ runner.id = Len(rows) /\ runner.id \in 1..Len(rows) /\ rows[runner.id] \in ActionRows
      /\ rows \in Seq(ActionRows) /\ journal \in Seq(Entries) /\ Len(rows) > 0
    BY <1>1, InFlightRow
<1>3. /\ Ambiguous(runner) \in Runners /\ Ambiguous(runner).pc = "report"
      /\ Ambiguous(runner).res = "AMBIGUOUS" /\ Ambiguous(runner).by = runner.by
      /\ Ambiguous(runner).id = runner.id /\ Ambiguous(runner).stopping = runner.stopping
    BY <1>0, RunnerGivesUp
<1>4. ASSUME runner' = Ambiguous(runner), rows' \in Seq(ActionRows), Len(rows') = Len(rows),
             AgreementInv', InputIsAttributed'
      PROVE  NativeInv'
  <2>1. ActionInv'
      BY <1>3, <1>4 DEF ActionInv, Known
  <2> QED
      BY <1>0, <1>1, <1>2, <1>3, <1>4, <2>1, RunnerStepKeeps DEF Busy, InFlight
<1>5. CASE runner' = Ambiguous(runner) /\ UNCHANGED rows
  <2>1. AgreementInv' /\ InputIsAttributed'
      BY <1>0, <1>1, <1>5 DEF AgreementInv, InputIsAttributed
  <2> QED
      BY <1>2, <1>4, <1>5, <2>1
<1>6. ASSUME rows[runner.id].state = "INTENDED", rows' = [rows EXCEPT ![runner.id].state = "COMMITTED"],
             runner' = [runner EXCEPT !.pc = "journal"] \/ runner' = Ambiguous(runner)
      PROVE  NativeInv'
  <2>1. PICK t : t = [rows[runner.id] EXCEPT !.state = "COMMITTED"]
      OBVIOUS
  <2>2. t \in ActionRows /\ t.state = "COMMITTED" /\ rows' = [rows EXCEPT ![runner.id] = t]
      BY <1>2, <1>6, <2>1, RowRewritten
  <2>3. /\ rows' \in Seq(ActionRows) /\ Len(rows') = Len(rows) /\ rows'[runner.id] = t
        /\ AgreementInv' /\ InputIsAttributed'
      BY <1>1, <2>2, RowWritten DEF Known
  <2>4. CASE runner' = [runner EXCEPT !.pc = "journal"]
    <3>1. /\ runner' \in Runners /\ runner'.pc = "journal" /\ runner'.id = runner.id
          /\ runner'.by = runner.by /\ runner'.stopping = runner.stopping
        BY <1>0, <2>4 DEF Runners, RunnerStage
    <3>2. ActionInv'
        BY <1>0, <1>1, <2>2, <2>3, <3>1 DEF ActionInv, InFlight
    <3> QED
        BY <1>0, <1>1, <1>2, <2>3, <3>1, <3>2, RunnerStepKeeps DEF Busy, InFlight
  <2>5. CASE runner' = Ambiguous(runner)
      BY <1>4, <2>3, <2>5
  <2> QED
      BY <1>6, <2>4, <2>5
<1> QED
    BY <1>5, <1>6 DEF CommitDispatch

\* The intent is durable before the adapter may be entered.
LEMMA JournalIntentKeeps == ASSUME NativeInv, JournalIntent PROVE NativeInv'
<1>0. /\ NativeTypes /\ AgreementInv /\ InputIsAttributed /\ ActionInv /\ runner \in Runners
      /\ entered \in [1..MaxActions -> Nat] /\ authority \in BOOLEAN /\ unsettled \subseteq 1..MaxActions
    BY DEF NativeInv, NativeTypes
<1>1. /\ host.up /\ runner.pc = "journal" /\ runner.pc \in InFlight
      /\ UNCHANGED <<modelConsent, authority, turns, rows, observed, finished, claim, received>>
      /\ UNCHANGED <<host, bridge, entered, unsettled, nav>>
    BY DEF JournalIntent, serverVars, deskVars, InFlight
<1>2. /\ runner.id = Len(rows) /\ runner.id \in 1..Len(rows) /\ runner.id \in 1..MaxActions
      /\ rows \in Seq(ActionRows) /\ journal \in Seq(Entries) /\ Len(rows) > 0 /\ Len(journal) \in Nat
    BY <1>1, InFlightRow
<1>3. /\ Ambiguous(runner) \in Runners /\ Ambiguous(runner).pc = "report"
      /\ Ambiguous(runner).res = "AMBIGUOUS" /\ Ambiguous(runner).by = runner.by
      /\ Ambiguous(runner).id = runner.id /\ Ambiguous(runner).stopping = runner.stopping
    BY <1>0, RunnerGivesUp
<1>4. ASSUME runner' = Ambiguous(runner), journal' \in Seq(Entries), AgreementInv', InputIsAttributed'
      PROVE  NativeInv'
  <2>1. ActionInv'
      BY <1>3, <1>4 DEF ActionInv, Known
  <2> QED
      BY <1>0, <1>1, <1>2, <1>3, <1>4, <2>1, RunnerStepKeeps DEF Busy, InFlight
<1>5. CASE runner' = Ambiguous(runner) /\ UNCHANGED journal
  <2>1. AgreementInv' /\ InputIsAttributed'
      BY <1>0, <1>1, <1>5 DEF AgreementInv, InputIsAttributed
  <2> QED
      BY <1>2, <1>4, <1>5, <2>1
<1>6. ASSUME journal' = Append(journal, [id |-> runner.id, res |-> "INTENT"]),
             runner' = [runner EXCEPT !.pc = "act"] \/ runner' = Ambiguous(runner)
      PROVE  NativeInv'
  <2>1. PICK e : e = [id |-> runner.id, res |-> "INTENT"]
      OBVIOUS
  <2>2. e \in Entries /\ e.id = runner.id /\ e.res = "INTENT" /\ e.res \notin Known
      BY <1>2, <2>1 DEF Entries, Known
  <2>3. /\ journal' \in Seq(Entries) /\ Len(journal') = Len(journal) + 1 /\ journal'[Len(journal) + 1] = e
        /\ \A i \in 1..Len(journal) : journal'[i] = journal[i]
        /\ AgreementInv' /\ InputIsAttributed'
      BY <1>1, <1>6, <2>1, <2>2, JournalGrows
  <2>4. CASE runner' = [runner EXCEPT !.pc = "act"]
    <3>1. /\ runner' \in Runners /\ runner'.pc = "act" /\ runner'.id = runner.id
          /\ runner'.by = runner.by /\ runner'.stopping = runner.stopping
        BY <1>0, <2>4 DEF Runners, RunnerStage
    <3>2. \E i \in 1..Len(journal') : journal'[i] = [id |-> runner.id, res |-> "INTENT"]
      <4>1. Len(journal) + 1 \in 1..Len(journal') /\ journal'[Len(journal) + 1] = [id |-> runner.id, res |-> "INTENT"]
          BY <1>2, <2>1, <2>3
      <4> QED
          BY <4>1
    <3>3. ASSUME NEW i \in 1..Len(journal'), journal'[i].id = runner.id PROVE journal'[i].res = "INTENT"
      <4>1. i \in 1..Len(journal) \/ i = Len(journal) + 1
          BY <1>2, <2>3
      <4> QED
          BY <1>0, <1>1, <2>2, <2>3, <3>3, <4>1 DEF ActionInv
    <3>4. ActionInv'
        BY <1>0, <1>1, <3>1, <3>2, <3>3 DEF ActionInv
    <3> QED
        BY <1>0, <1>1, <1>2, <2>3, <3>1, <3>4, RunnerStepKeeps DEF Busy, InFlight
  <2>5. CASE runner' = Ambiguous(runner)
      BY <1>4, <2>3, <2>5
  <2> QED
      BY <1>6, <2>4, <2>5
<1> QED
    BY <1>5, <1>6 DEF JournalIntent

\* The adapter is entered for an action that is committed, durable and proposed.
LEMMA EntryKeeps == ASSUME NativeInv, EnterAdapter PROVE NativeInv'
<1>0. /\ NativeTypes /\ AgreementInv /\ InputIsAttributed /\ ActionInv /\ runner \in Runners
      /\ entered \in [1..MaxActions -> Nat] /\ authority \in BOOLEAN /\ unsettled \subseteq 1..MaxActions
    BY DEF NativeInv, NativeTypes
<1>1. /\ host.up /\ runner.pc = "act" /\ runner.pc \in InFlight
      /\ UNCHANGED <<modelConsent, authority, turns, rows, observed, finished, claim, received, journal>>
      /\ UNCHANGED <<host, bridge, nav>>
      /\ unsettled' = unsettled \cup {runner.id} /\ entered' = [entered EXCEPT ![runner.id] = @ + 1]
      /\ runner' = [runner EXCEPT !.pc = "acting"]
    BY DEF EnterAdapter, serverVars, diskVars, InFlight
<1>2. /\ runner.id = Len(rows) /\ runner.id \in 1..Len(rows) /\ runner.id \in 1..MaxActions
      /\ rows \in Seq(ActionRows) /\ journal \in Seq(Entries) /\ Len(rows) > 0
      /\ \E i \in 1..Len(turns) : turns[i].at = runner.id - 1 /\ turns[i].called
    BY <1>1, InFlightRow
<1>3. /\ runner' \in Runners /\ runner'.pc = "acting" /\ runner'.id = runner.id
      /\ runner'.by = runner.by /\ runner'.stopping = runner.stopping
    BY <1>0, <1>1 DEF Runners, RunnerStage
<1>4. /\ entered[runner.id] = 0 /\ rows[runner.id].state = "COMMITTED"
      /\ \E i \in 1..Len(journal) : journal[i] = [id |-> runner.id, res |-> "INTENT"]
    BY <1>0, <1>1 DEF ActionInv
<1>5. /\ entered'[runner.id] = 1 /\ entered' \in [1..MaxActions -> Nat]
      /\ \A k \in 1..MaxActions : k # runner.id => entered'[k] = entered[k]
    BY <1>0, <1>1, <1>2, <1>4
<1>6. InputIsAttributed'
  <2>1. ASSUME NEW k \in 1..MaxActions, entered'[k] > 0
        PROVE  /\ entered'[k] = 1 /\ k <= Len(rows) /\ rows[k].state # "INTENDED"
               /\ \E i \in 1..Len(journal) : journal[i] = [id |-> k, res |-> "INTENT"]
               /\ \E i \in 1..Len(turns) : turns[i].at = k - 1 /\ turns[i].called
    <3>1. CASE k = runner.id
      <4>1. k <= Len(rows) /\ rows[k].state # "INTENDED" /\ entered'[k] = 1
          BY <1>2, <1>4, <1>5, <3>1
      <4> QED
          BY <1>2, <1>4, <3>1, <4>1, Zenon
    <3>2. CASE k # runner.id
      <4>1. entered'[k] = entered[k]
          BY <1>5, <3>2
      <4> QED
          BY <1>0, <2>1, <4>1, EnteredRow, Zenon
    <3> QED
        BY <3>1, <3>2
  <2> QED
      BY <1>1, <2>1 DEF InputIsAttributed
<1>7. AgreementInv'
  <2>1. \A k \in 1..Len(rows) : rows[k].state \in Known => entered'[k] = 1
    <3>1. ASSUME NEW k \in 1..Len(rows), rows[k].state \in Known PROVE entered'[k] = 1
      <4>1. k \in 1..MaxActions /\ k # runner.id
          BY <1>0, <1>2, <1>4, <3>1, NativeAssumption DEF AgreementInv, Known
      <4> QED
          BY <1>0, <1>5, <3>1, <4>1 DEF AgreementInv
    <3> QED
        BY <3>1
  <2>2. \A k \in unsettled' : k <= Len(rows) /\ rows[k].state \notin Known
      BY <1>0, <1>1, <1>2, <1>4 DEF AgreementInv, Known
  <2> QED
      BY <1>0, <1>1, <2>1, <2>2 DEF AgreementInv
<1>8. ActionInv'
    BY <1>0, <1>1, <1>3, <1>4, <1>5 DEF ActionInv, InFlight
<1> QED
    BY <1>0, <1>1, <1>2, <1>3, <1>5, <1>6, <1>7, <1>8, RunnerStepKeeps DEF Busy, InFlight

\* The adapter answers; only a known answer settles it.
LEMMA AnswerKeeps == ASSUME NativeInv, ReaderRetained PROVE NativeInv'
<1>0. /\ NativeTypes /\ AgreementInv /\ InputIsAttributed /\ ActionInv /\ runner \in Runners
      /\ entered \in [1..MaxActions -> Nat] /\ authority \in BOOLEAN /\ unsettled \subseteq 1..MaxActions
    BY DEF NativeInv, NativeTypes
<1>1. /\ host.up /\ runner.pc = "acting" /\ runner.pc \in InFlight
      /\ UNCHANGED <<modelConsent, authority, turns, observed, finished, claim, received, journal>>
      /\ UNCHANGED <<host, bridge, entered, nav>> /\ unsettled' = unsettled \ {runner.id}
    BY DEF ReaderRetained, diskVars, InFlight
<1>2. /\ runner.id = Len(rows) /\ runner.id \in 1..Len(rows) /\ rows[runner.id] \in ActionRows
      /\ rows \in Seq(ActionRows) /\ journal \in Seq(Entries) /\ Len(rows) > 0
    BY <1>1, InFlightRow
<1>3. PICK q \in Known \cup {"AMBIGUOUS"} :
         \/ runner' = [runner EXCEPT !.pc = "result", !.res = q]
         \/ runner' = Fence([runner EXCEPT !.pc = "result", !.res = q])
    BY DEF ReaderRetained
<1>4. /\ runner' \in Runners /\ runner'.pc = "result" /\ runner'.id = runner.id /\ runner'.res = q
      /\ runner'.by = runner.by /\ runner'.stopping = runner.stopping
  <2>1. PICK r : r = [runner EXCEPT !.pc = "result", !.res = q]
      OBVIOUS
  <2>2. /\ r \in Runners /\ r.pc = "result" /\ r.id = runner.id /\ r.res = q
        /\ r.by = runner.by /\ r.stopping = runner.stopping
      BY <1>0, <2>1 DEF Runners, RunnerStage, Results
  <2> QED
    <3>1. /\ Fence(r) \in Runners /\ Fence(r).pc = r.pc /\ Fence(r).id = r.id /\ Fence(r).res = r.res
          /\ Fence(r).by = r.by /\ Fence(r).stopping = r.stopping
      <4>1. bridge \in Bridges
          BY <1>0 DEF NativeTypes
      <4> QED
          BY <2>2, <4>1, RunnerRows
    <3> QED
        BY <1>3, <2>1, <2>2, <3>1
<1>5. /\ rows' \in Seq(ActionRows) /\ Len(rows') = Len(rows) /\ rows'[runner.id].state = "COMMITTED"
      /\ AgreementInv' /\ InputIsAttributed'
  <2>0. rows[runner.id].state = "COMMITTED"
      BY <1>0, <1>1 DEF ActionInv
  <2>1. CASE rows' = [rows EXCEPT ![runner.id].seen = TRUE]
    <3>1. PICK t : t = [rows[runner.id] EXCEPT !.seen = TRUE]
        OBVIOUS
    <3>2. t \in ActionRows /\ t.state = "COMMITTED" /\ rows' = [rows EXCEPT ![runner.id] = t]
        BY <1>2, <2>0, <2>1, <3>1, RowRewritten
    <3> QED
        BY <1>1, <3>2, RowWritten DEF Known
  <2>2. CASE UNCHANGED rows
      BY <1>0, <1>1, <1>2, <2>0, <2>2 DEF AgreementInv, InputIsAttributed
  <2> QED
      BY <2>1, <2>2 DEF ReaderRetained
<1>6. ActionInv'
    BY <1>0, <1>1, <1>4, <1>5 DEF ActionInv, InFlight
<1> QED
    BY <1>0, <1>1, <1>2, <1>4, <1>5, <1>6, RunnerStepKeeps DEF Busy, InFlight

\* A call that times out is in doubt and stays unsettled until the adapter ends.
LEMMA TimeoutKeeps == ASSUME NativeInv, ActionTimesOut PROVE NativeInv'
<1>0. /\ NativeTypes /\ AgreementInv /\ InputIsAttributed /\ ActionInv /\ runner \in Runners
      /\ entered \in [1..MaxActions -> Nat] /\ authority \in BOOLEAN /\ unsettled \subseteq 1..MaxActions
    BY DEF NativeInv, NativeTypes
<1>1. /\ host.up /\ runner.pc \in {"act", "acting"} /\ runner.pc \in InFlight
      /\ UNCHANGED <<modelConsent, authority, turns, rows, observed, finished, claim, received, journal>>
      /\ UNCHANGED <<host, bridge, entered, unsettled, nav>> /\ runner' = Unresolved(runner)
    BY DEF ActionTimesOut, serverVars, diskVars, deskVars, InFlight
<1>2. /\ runner.id = Len(rows) /\ rows \in Seq(ActionRows) /\ journal \in Seq(Entries) /\ Len(rows) > 0
    BY <1>1, InFlightRow
<1>3. /\ runner' \in Runners /\ runner'.pc = "result" /\ runner'.id = runner.id
      /\ runner'.res = "AMBIGUOUS" /\ runner'.by = runner.by /\ runner'.stopping = runner.stopping
    BY <1>0, <1>1, RunnerGivesUp
<1>4. ActionInv' /\ AgreementInv' /\ InputIsAttributed'
  <2>1. ActionInv'
      BY <1>0, <1>1, <1>3 DEF ActionInv, InFlight, Known
  <2>2. AgreementInv' /\ InputIsAttributed'
      BY <1>0, <1>1 DEF AgreementInv, InputIsAttributed
  <2> QED
      BY <2>1, <2>2
<1> QED
    BY <1>0, <1>1, <1>2, <1>3, <1>4, RunnerStepKeeps DEF Busy, InFlight

\* A late adapter ends, whoever works on what by then.
LEMMA LateKeeps == ASSUME NativeInv, NEW k \in 1..MaxActions, LateAdapterEnds(k) PROVE NativeInv'
<1>0. /\ NativeTypes /\ TurnsInv /\ RequestInv /\ ActionInv /\ AgreementInv
      /\ InputIsAttributed /\ ReceptionInv /\ ReleasedIsSettled
    BY DEF NativeInv
<1>1. /\ UNCHANGED <<modelConsent, authority, turns, rows, observed, finished, claim, received, journal>>
      /\ UNCHANGED <<host, bridge, runner, entered, nav>> /\ unsettled' = unsettled \ {k}
    BY DEF LateAdapterEnds, serverVars, diskVars
<1>2. NativeTypes'
    BY <1>0, <1>1 DEF NativeTypes
<1>3. TurnsInv'
    BY <1>0, <1>1 DEF TurnsInv, OneCallPerBoundary, HoldsTurn, LastTurn
<1>4. RequestInv'
    BY <1>0, <1>1 DEF RequestInv, LastTurn
<1>5. ActionInv'
    BY <1>0, <1>1 DEF ActionInv
<1>6. AgreementInv' /\ InputIsAttributed' /\ ReleasedIsSettled'
    BY <1>0, <1>1 DEF AgreementInv, InputIsAttributed, ReleasedIsSettled
<1>7. ReceptionInv'
    BY <1>0, <1>1 DEF ReceptionInv
<1> QED
    BY <1>2, <1>3, <1>4, <1>5, <1>6, <1>7 DEF NativeInv

\* The result is durable before it is reported, or it is in doubt.
LEMMA JournalResultKeeps == ASSUME NativeInv, JournalResult PROVE NativeInv'
<1>0. /\ NativeTypes /\ AgreementInv /\ InputIsAttributed /\ ActionInv /\ runner \in Runners
      /\ entered \in [1..MaxActions -> Nat] /\ authority \in BOOLEAN /\ unsettled \subseteq 1..MaxActions
    BY DEF NativeInv, NativeTypes
<1>1. /\ host.up /\ runner.pc = "result" /\ runner.pc \in InFlight
      /\ UNCHANGED <<modelConsent, authority, turns, rows, observed, finished, claim, received>>
      /\ UNCHANGED <<host, bridge, entered, unsettled, nav>>
    BY DEF JournalResult, serverVars, deskVars, InFlight
<1>2. /\ runner.id = Len(rows) /\ runner.id \in 1..Len(rows) /\ runner.id \in 1..MaxActions
      /\ rows \in Seq(ActionRows) /\ journal \in Seq(Entries) /\ Len(rows) > 0 /\ Len(journal) \in Nat
    BY <1>1, InFlightRow
<1>3. /\ runner.res \in Known \cup {"AMBIGUOUS"} /\ rows[runner.id].state = "COMMITTED"
      /\ runner.res \in Known => entered[runner.id] = 1 /\ runner.id \notin unsettled
      /\ \A i \in 1..Len(journal) : journal[i].id = runner.id => journal[i].res = "INTENT"
    BY <1>0, <1>1 DEF ActionInv, InFlight
<1>4. CASE runner' = Ambiguous(runner) /\ UNCHANGED journal
  <2>1. /\ runner' \in Runners /\ runner'.pc = "report" /\ runner'.res = "AMBIGUOUS"
        /\ runner'.by = runner.by /\ runner'.id = runner.id /\ runner'.stopping = runner.stopping
      BY <1>0, <1>4, RunnerGivesUp
  <2>2. ActionInv'
      BY <2>1 DEF ActionInv, Known
  <2>3. AgreementInv' /\ InputIsAttributed'
      BY <1>0, <1>1, <1>4 DEF AgreementInv, InputIsAttributed
  <2> QED
      BY <1>0, <1>1, <1>2, <1>4, <2>1, <2>2, <2>3, RunnerStepKeeps DEF Busy, InFlight
<1>5. CASE /\ journal' = Append(journal, [id |-> runner.id, res |-> runner.res])
           /\ runner' = [runner EXCEPT !.pc = "report"]
  <2>1. PICK e : e = [id |-> runner.id, res |-> runner.res]
      OBVIOUS
  <2>2. e \in Entries /\ e.id = runner.id /\ e.res = runner.res
      BY <1>2, <1>3, <2>1 DEF Entries
  <2>3. /\ journal' \in Seq(Entries) /\ Len(journal') = Len(journal) + 1 /\ journal'[Len(journal) + 1] = e
        /\ \A i \in 1..Len(journal) : journal'[i] = journal[i]
        /\ AgreementInv' /\ InputIsAttributed'
      BY <1>1, <1>3, <1>5, <2>1, <2>2, JournalGrows DEF Known
  <2>4. /\ runner' \in Runners /\ runner'.pc = "report" /\ runner'.id = runner.id
        /\ runner'.by = runner.by /\ runner'.stopping = runner.stopping /\ runner'.res = runner.res
      BY <1>0, <1>5 DEF Runners, RunnerStage
  <2>5. ASSUME NEW i \in 1..Len(journal'), journal'[i].id = runner.id, journal'[i].res \in Known
        PROVE  journal'[i].res = runner.res
    <3>1. i \in 1..Len(journal) \/ i = Len(journal) + 1
        BY <1>2, <2>3
    <3> QED
        BY <1>3, <2>2, <2>3, <2>5, <3>1 DEF Known
  <2>6. ActionInv'
      BY <1>1, <1>3, <2>4, <2>5 DEF ActionInv
  <2> QED
      BY <1>0, <1>1, <1>2, <2>3, <2>4, <2>6, RunnerStepKeeps DEF Busy, InFlight
<1> QED
    BY <1>4, <1>5 DEF JournalResult

\* A known result is stored once; what is not known interrupts the attempt.
LEMMA CompleteKeeps == ASSUME NativeInv, CompleteAction PROVE NativeInv'
<1>0. /\ NativeTypes /\ AgreementInv /\ InputIsAttributed /\ ActionInv /\ runner \in Runners
      /\ bridge \in Bridges
      /\ entered \in [1..MaxActions -> Nat] /\ authority \in BOOLEAN /\ unsettled \subseteq 1..MaxActions
    BY DEF NativeInv, NativeTypes
<1>1. /\ host.up /\ runner.pc = "report" /\ runner.pc \in InFlight
      /\ UNCHANGED <<modelConsent, turns, observed, finished, claim, received, journal>>
      /\ UNCHANGED <<host, bridge, entered, unsettled, nav>>
    BY DEF CompleteAction, diskVars, deskVars, InFlight
<1>2. /\ runner.id = Len(rows) /\ runner.id \in 1..Len(rows) /\ rows[runner.id] \in ActionRows
      /\ rows \in Seq(ActionRows) /\ journal \in Seq(Entries) /\ Len(rows) > 0
    BY <1>1, InFlightRow
<1>3. /\ runner.res \in Known \cup {"AMBIGUOUS"}
      /\ runner.res \in Known => entered[runner.id] = 1 /\ runner.id \notin unsettled
      /\ runner.res \in Known =>
           \A i \in 1..Len(journal) :
             journal[i].id = runner.id /\ journal[i].res \in Known => journal[i].res = runner.res
    BY <1>0, <1>1 DEF ActionInv
<1>4. authority' \in BOOLEAN /\ (authority' => authority)
  <2>1. CASE authority' = FALSE
      BY <2>1
  <2>2. CASE authority' = authority
      BY <1>0, <2>2
  <2> QED
      BY <2>1, <2>2 DEF CompleteAction
<1>5. /\ runner' \in Runners /\ runner'.by = runner.by /\ (runner.stopping => runner'.stopping)
      /\ \/ runner'.pc = "reply"
         \/ runner'.pc = "report" /\ runner'.res = "AMBIGUOUS" /\ runner'.id = runner.id
  <2>1. CASE runner' = Ambiguous(runner)
      BY <1>0, <2>1, RunnerGivesUp
  <2>2. CASE runner' = Fence([runner EXCEPT !.pc = "reply"])
    <3>1. PICK r : r = [runner EXCEPT !.pc = "reply"]
        OBVIOUS
    <3>2. r \in Runners /\ r.pc = "reply" /\ r.by = runner.by /\ r.stopping = runner.stopping
        BY <1>0, <3>1 DEF Runners, RunnerStage
    <3> QED
        BY <1>0, <2>2, <3>1, <3>2, RunnerRows
  <2>3. CASE runner' = [runner EXCEPT !.pc = "reply", !.stopping = @ \/ runner.act = "STOP"]
      BY <1>0, <2>3 DEF Runners, RunnerStage
  <2> QED
      BY <2>1, <2>2, <2>3 DEF CompleteAction
<1>6. ActionInv'
    BY <1>5 DEF ActionInv, InFlight, Known
<1>7. \/ UNCHANGED rows
      \/ /\ runner.res = "AMBIGUOUS"
         /\ rows' = [rows EXCEPT ![runner.id].state = "AMBIGUOUS"]
      \/ /\ runner.res # "AMBIGUOUS"
         /\ rows' = [rows EXCEPT ![runner.id].state = runner.res]
    BY DEF CompleteAction
<1>8. rows' \in Seq(ActionRows) /\ Len(rows') = Len(rows) /\ AgreementInv' /\ InputIsAttributed'
  <2>1. CASE UNCHANGED rows
      BY <1>0, <1>1, <1>2, <2>1 DEF AgreementInv, InputIsAttributed
  <2>2. CASE rows' = [rows EXCEPT ![runner.id].state = runner.res]
    <3>1. PICK t : t = [rows[runner.id] EXCEPT !.state = runner.res]
        OBVIOUS
    <3>2. t \in ActionRows /\ t.state = runner.res /\ rows' = [rows EXCEPT ![runner.id] = t]
        BY <1>2, <1>3, <2>2, <3>1, RowRewritten
    <3> QED
        BY <1>1, <1>3, <3>2, RowWritten DEF Known
  <2> QED
      BY <1>7, <2>1, <2>2
<1> QED
    BY <1>0, <1>1, <1>2, <1>4, <1>5, <1>6, <1>8, RunnerStepKeeps DEF Busy, InFlight

\* The observer closes.
LEMMA ObserverKeeps == ASSUME NativeInv, CloseObserver PROVE NativeInv'
<1>0. /\ NativeTypes /\ TurnsInv /\ RequestInv /\ ActionInv /\ AgreementInv
      /\ InputIsAttributed /\ ReceptionInv /\ ReleasedIsSettled
    BY DEF NativeInv
<1>1. /\ UNCHANGED <<modelConsent, authority, turns, rows, finished, claim, received, journal>>
      /\ UNCHANGED <<host, bridge, runner, entered, unsettled, nav>> /\ observed' = TRUE
    BY DEF CloseObserver, diskVars, deskVars
<1>2. NativeTypes'
    BY <1>0, <1>1 DEF NativeTypes
<1>3. TurnsInv'
    BY <1>0, <1>1 DEF TurnsInv, OneCallPerBoundary, HoldsTurn, LastTurn
<1>4. RequestInv'
    BY <1>0, <1>1 DEF RequestInv, LastTurn
<1>5. ActionInv' /\ AgreementInv' /\ InputIsAttributed'
    BY <1>0, <1>1 DEF ActionInv, AgreementInv, InputIsAttributed
<1>6. ReceptionInv' /\ ReleasedIsSettled'
    BY <1>0, <1>1 DEF ReceptionInv, ReleasedIsSettled
<1> QED
    BY <1>2, <1>3, <1>4, <1>5, <1>6 DEF NativeInv

\* A run is finished only when server, journal and desktop agree on every action.
LEMMA FinishKeeps == ASSUME NativeInv, FinishExecution PROVE NativeInv'
<1>0. /\ NativeTypes /\ TurnsInv /\ RequestInv /\ ActionInv /\ AgreementInv
      /\ InputIsAttributed /\ ReceptionInv /\ ReleasedIsSettled
      /\ runner \in Runners /\ bridge \in Bridges /\ claim \in BOOLEAN /\ finished \in BOOLEAN
      /\ authority \in BOOLEAN /\ rows \in Seq(ActionRows) /\ Len(rows) \in Nat
      /\ unsettled \subseteq 1..MaxActions
    BY DEF NativeInv, NativeTypes
<1>1. /\ UNCHANGED <<modelConsent, turns, rows, observed, received, journal>>
      /\ UNCHANGED <<host, entered, unsettled, nav>>
      /\ host.up /\ ~bridge.closed /\ runner.pc = "idle" /\ received
      /\ bridge' = Closed(bridge) /\ runner' = Stopping(Fence(runner))
    BY <1>0 DEF FinishExecution, deskVars, ReceptionInv
<1>2. /\ runner' \in Runners /\ runner'.pc = "idle" /\ runner'.stopping
      /\ bridge' \in Bridges /\ bridge'.closed
    BY <1>0, <1>1, RunnerRows
<1>3. \/ UNCHANGED <<finished, authority, claim>>
      \/ /\ JournalComplete /\ SessionFinishable /\ finished' = TRUE /\ authority' = FALSE
         /\ claim' \in {claim, FALSE}
    BY DEF FinishExecution
<1>4. ~finished
    BY <1>0, <1>1 DEF ReceptionInv
<1>5. TurnsInv'
    BY <1>0, <1>1 DEF TurnsInv, OneCallPerBoundary, HoldsTurn, LastTurn
<1>6. RequestInv'
    BY <1>2 DEF RequestInv, Busy, InFlight
<1>7. ActionInv' /\ AgreementInv' /\ InputIsAttributed'
  <2>1. ActionInv'
      BY <1>2 DEF ActionInv, InFlight
  <2>2. AgreementInv' /\ InputIsAttributed'
      BY <1>0, <1>1 DEF AgreementInv, InputIsAttributed
  <2> QED
      BY <2>1, <2>2
<1>8. CASE UNCHANGED <<finished, authority, claim>>
  <2>1. NativeTypes'
      BY <1>0, <1>1, <1>2, <1>8 DEF NativeTypes
  <2>2. ReceptionInv' /\ ReleasedIsSettled'
      BY <1>0, <1>1, <1>2, <1>4, <1>8 DEF ReceptionInv, ReleasedIsSettled
  <2> QED
      BY <1>5, <1>6, <1>7, <2>1, <2>2 DEF NativeInv
<1>9. CASE /\ JournalComplete /\ SessionFinishable /\ finished' = TRUE /\ authority' = FALSE
           /\ claim' \in {claim, FALSE}
  <2>1. NativeTypes'
    <3>1. claim' \in BOOLEAN
        BY <1>0, <1>9
    <3> QED
        BY <1>0, <1>1, <1>2, <1>9, <3>1 DEF NativeTypes
  <2>2. ReceptionInv'
      BY <1>0, <1>1, <1>2, <1>9 DEF ReceptionInv
  <2>3. \A k \in 1..Len(rows) : rows[k].state \in Known
      BY <1>9 DEF SessionFinishable
  <2>4. unsettled = {}
    <3>1. ASSUME NEW k \in unsettled PROVE k \in 1..Len(rows) /\ rows[k].state \notin Known
        BY <1>0, NativeAssumption DEF AgreementInv
    <3> QED
        BY <2>3, <3>1
  <2>5. ASSUME NEW k \in 1..Len(rows)
        PROVE  rows[k].state \in Known /\ journal[2 * k].res = rows[k].state /\ entered[k] = 1
    <3>1. /\ Len(journal) = 2 * Len(rows) /\ journal[2 * k].id = k /\ journal[2 * k].res \in Known
        BY <1>9 DEF JournalComplete
    <3>2. 2 * k \in 1..Len(journal)
        BY <1>0, <3>1
    <3>3. PICK i \in 1..Len(journal) : i = 2 * k
        BY <3>2
    <3>4. rows[k].state = journal[i].res
        BY <1>0, <2>3, <3>1, <3>3 DEF AgreementInv
    <3> QED
        BY <1>0, <2>3, <3>3, <3>4 DEF AgreementInv
  <2>6. ReleasedIsSettled'
      BY <1>1, <1>9, <2>4, <2>5 DEF ReleasedIsSettled
  <2> QED
      BY <1>5, <1>6, <1>7, <2>1, <2>2, <2>6 DEF NativeInv
<1> QED
    BY <1>3, <1>8, <1>9

\* Every step keeps the invariant.
LEMMA NativeKeeps == NativeInv /\ [NativeNext]_nativeVars => NativeInv'
<1> SUFFICES ASSUME NativeInv, [NativeNext]_nativeVars PROVE NativeInv'
    OBVIOUS
<1>1. CASE UNCHANGED nativeVars
  <2>1. /\ UNCHANGED <<modelConsent, authority, turns, rows, observed, finished, claim, received, journal>>
        /\ UNCHANGED <<host, bridge, runner, entered, unsettled, nav>>
      BY <1>1 DEF nativeVars, serverVars, diskVars, deskVars
  <2>2. NativeTypes'
      BY <2>1 DEF NativeInv, NativeTypes
  <2>3. TurnsInv'
      BY <2>1 DEF NativeInv, TurnsInv, OneCallPerBoundary, HoldsTurn, LastTurn
  <2>4. RequestInv'
      BY <2>1 DEF NativeInv, RequestInv, LastTurn
  <2>5. ActionInv' /\ AgreementInv' /\ InputIsAttributed'
      BY <2>1 DEF NativeInv, ActionInv, AgreementInv, InputIsAttributed
  <2>6. ReceptionInv' /\ ReleasedIsSettled'
      BY <2>1 DEF NativeInv, ReceptionInv, ReleasedIsSettled
  <2> QED
      BY <2>2, <2>3, <2>4, <2>5, <2>6 DEF NativeInv
<1>2. CASE NavigatorStep
    BY <1>2, QuietNavigatorKeeps, ReserveKeeps, EnterProviderKeeps, FinishTurnKeeps, AcceptKeeps
       DEF NavigatorStep
<1>3. CASE \E k \in 1..MaxActions : LateAdapterEnds(k)
    BY <1>3, LateKeeps
<1> QED
    BY <1>1, <1>2, <1>3, ConsentKeeps, HostKeeps, IntentKeeps, CommitKeeps, JournalIntentKeeps, EntryKeeps,
       AnswerKeeps, TimeoutKeeps, JournalResultKeeps, CompleteKeeps, ReplyKeeps, ObserverKeeps, FinishKeeps
       DEF NativeNext

\* A fenced bridge has a runner that stops, and a runner that stops enters nothing.
LEMMA FencedEntersNothing ==
    NativeInv /\ [NativeNext]_nativeVars => (bridge.closed /\ host.up => entered' = entered)
<1> SUFFICES ASSUME NativeInv, [NativeNext]_nativeVars, bridge.closed PROVE entered' = entered
    OBVIOUS
<1>1. ~EnterAdapter
    BY DEF NativeInv, ReceptionInv, EnterAdapter, MayEnterAdapter
<1>2. CASE UNCHANGED nativeVars
    BY <1>2 DEF nativeVars, deskVars
<1>3. CASE NavigatorStep
    BY <1>3 DEF NavigatorStep, LaunchNavigator, LoadTurn, ReserveTurn, EnterProvider, Propose, SubmitAction,
                LoseTransport, FinishTurn, CancelNavigator, CrashNavigator, AcceptRequest, deskVars
<1>4. CASE IssueConsent \/ RevokeConsent \/ EndAuthority \/ StartHost \/ OpenSession \/ FenceHost \/ CrashHost
    BY <1>4 DEF IssueConsent, RevokeConsent, EndAuthority, StartHost, OpenSession, FenceHost, CrashHost, deskVars
<1>5. CASE RetainIntent \/ CommitDispatch \/ JournalIntent \/ ReaderRetained \/ ActionTimesOut
    BY <1>5 DEF RetainIntent, CommitDispatch, JournalIntent, ReaderRetained, ActionTimesOut, deskVars
<1>6. CASE \/ JournalResult \/ CompleteAction \/ ReplyToNavigator \/ CloseObserver \/ FinishExecution
           \/ \E k \in 1..MaxActions : LateAdapterEnds(k)
    BY <1>6 DEF JournalResult, CompleteAction, ReplyToNavigator, CloseObserver, FinishExecution,
                LateAdapterEnds, deskVars
<1> QED
    BY <1>1, <1>2, <1>3, <1>4, <1>5, <1>6 DEF NativeNext

\* The property the run checks, for any navigators and bounds: one model call per reader boundary,
\* one entry into the desktop per attributed action and none behind a fence, and a desktop that is
\* released only when nothing is in doubt.
THEOREM AccountedInput == NativeSpec => NativeInputIsAccounted
<1>1. NativeSpec => []NativeInv
    BY NativeBegins, NativeKeeps, PTL DEF NativeSpec
<1>2. NativeSpec => [](NativeTypeOK /\ OneCallPerBoundary /\ InputIsAttributed /\ ReleasedIsSettled)
    BY <1>1, NativeInvGives, PTL
<1>3. NativeSpec => FencedMeansNoInput
    BY <1>1, FencedEntersNothing, PTL DEF NativeSpec, FencedMeansNoInput
<1> QED
    BY <1>2, <1>3 DEF NativeInputIsAccounted

-----------------------------------------------------------------------------
(* Row locks: transactions around a desktop run wait in a circle only       *)
(* through those that lock the other way round.                             *)

\* Rows that are only locked by who holds their run.
UnderRun == {"approval", "build", "archive", "ticket", "action"}

\* The order of the others.
Rank == [runner |-> 1, run |-> 2, lease |-> 3, seal |-> 4, regression |-> 5, endpoint |-> 6]

\* A script that takes the ranked rows upwards, and those under a run after the run.
InOrder(s) ==
  \A j \in 1..Len(s) :
    /\ s[j] \in UnderRun => \E m \in 1..(j - 1) : s[m] = "run"
    /\ s[j] \notin UnderRun =>
         /\ Rank[s[j]] \in 1..6
         /\ \A i \in 1..(j - 1) : s[i] \notin UnderRun => Rank[s[i]] < Rank[s[j]]

\* What each transaction locks, by name.
LEMMA ScriptsNamed ==
  /\ DOMAIN Scripts = {"desk", "reset", "admit", "startup", "dispatch", "accept", "interrupt", "recover",
                      "request", "project", "finalize", "cancel", "setup", "consent", "approve", "build",
                      "keep", "retire", "trial", "fail", "fact", "heartbeat", "admitBound", "withdraw",
                      "sweep", "ambiguous"}
  /\ Scripts.desk = DeskLocks
  /\ Scripts.reset = ResetLocks
  /\ Scripts.admit = AdmitLocks
  /\ Scripts.startup = StartupLocks
  /\ Scripts.dispatch = DispatchLocks
  /\ Scripts.accept = AcceptLocks
  /\ Scripts.interrupt = InterruptLocks
  /\ Scripts.recover = RecoverLocks
  /\ Scripts.request = RequestLocks
  /\ Scripts.project = ProjectLocks
  /\ Scripts.finalize = FinalizeLocks
  /\ Scripts.cancel = CancelLocks
  /\ Scripts.setup = SetupLocks
  /\ Scripts.consent = ConsentLocks
  /\ Scripts.approve = ApproveLocks
  /\ Scripts.build = BuildLocks
  /\ Scripts.keep = KeepLocks
  /\ Scripts.retire = RetireLocks
  /\ Scripts.trial = TrialLocks
  /\ Scripts.fail = FailLocks
  /\ Scripts.fact = FactLocks
  /\ Scripts.heartbeat = HeartbeatLocks
  /\ Scripts.admitBound = AdmitBoundLocks
  /\ Scripts.withdraw = WithdrawLocks
  /\ Scripts.sweep = SweepLocks
  /\ Scripts.ambiguous = AmbiguousLocks
  BY DEF Scripts

\* Every script is finite.
LEMMA ScriptsFinite == ASSUME NEW op \in DOMAIN Scripts PROVE Len(Scripts[op]) \in Nat
  BY ScriptsNamed DEF DeskLocks, ResetLocks, AdmitLocks, StartupLocks, DispatchLocks, AcceptLocks,
     InterruptLocks, RecoverLocks, RequestLocks, ProjectLocks, FinalizeLocks, CancelLocks,
     SetupLocks, ConsentLocks, ApproveLocks, BuildLocks, KeepLocks, RetireLocks,
     TrialLocks, FailLocks, FactLocks, HeartbeatLocks, AdmitBoundLocks, WithdrawLocks,
     SweepLocks, AmbiguousLocks

\* All but the inverted scripts take their rows in one order.
LEMMA ScriptsInOrder ==
  ASSUME NEW op \in DOMAIN Scripts, op \notin Inverted
  PROVE  InOrder(Scripts[op])
<1>1. InOrder(DeskLocks)
  BY DEF InOrder, UnderRun, Rank, DeskLocks
<1>2. InOrder(ResetLocks)
  BY DEF InOrder, UnderRun, Rank, ResetLocks
<1>3. InOrder(AdmitLocks)
  BY DEF InOrder, UnderRun, Rank, AdmitLocks
<1>4. InOrder(StartupLocks)
  BY DEF InOrder, UnderRun, Rank, StartupLocks
<1>5. InOrder(DispatchLocks)
  BY DEF InOrder, UnderRun, Rank, DispatchLocks
<1>6. InOrder(AcceptLocks)
  BY DEF InOrder, UnderRun, Rank, AcceptLocks
<1>7. InOrder(InterruptLocks)
  BY DEF InOrder, UnderRun, Rank, InterruptLocks
<1>8. InOrder(RecoverLocks)
  BY DEF InOrder, UnderRun, Rank, RecoverLocks
<1>9. InOrder(RequestLocks)
  BY DEF InOrder, UnderRun, Rank, RequestLocks
<1>10. InOrder(ProjectLocks)
  BY DEF InOrder, UnderRun, Rank, ProjectLocks
<1>11. InOrder(FinalizeLocks)
  BY DEF InOrder, UnderRun, Rank, FinalizeLocks
<1>12. InOrder(CancelLocks)
  BY DEF InOrder, UnderRun, Rank, CancelLocks
<1>13. InOrder(SetupLocks)
  BY DEF InOrder, UnderRun, Rank, SetupLocks
<1>14. InOrder(ConsentLocks)
  BY DEF InOrder, UnderRun, Rank, ConsentLocks
<1>15. InOrder(ApproveLocks)
  BY DEF InOrder, UnderRun, Rank, ApproveLocks
<1>16. InOrder(BuildLocks)
  BY DEF InOrder, UnderRun, Rank, BuildLocks
<1>17. InOrder(KeepLocks)
  BY DEF InOrder, UnderRun, Rank, KeepLocks
<1>18. InOrder(RetireLocks)
  BY DEF InOrder, UnderRun, Rank, RetireLocks
<1>19. InOrder(TrialLocks)
  BY DEF InOrder, UnderRun, Rank, TrialLocks
<1>20. InOrder(FailLocks)
  BY DEF InOrder, UnderRun, Rank, FailLocks
<1>21. InOrder(FactLocks)
  BY DEF InOrder, UnderRun, Rank, FactLocks
<1>22. InOrder(HeartbeatLocks)
  BY DEF InOrder, UnderRun, Rank, HeartbeatLocks
<1> QED
  BY ScriptsNamed, <1>1, <1>2, <1>3, <1>4, <1>5, <1>6, <1>7, <1>8, <1>9, <1>10, <1>11, <1>12,
     <1>13, <1>14, <1>15, <1>16, <1>17, <1>18, <1>19, <1>20, <1>21, <1>22 DEF Inverted

-----------------------------------------------------------------------------

\* An open transaction has some work, and a script for it.
LEMMA OpenHasScript ==
  ASSUME LocksTypeOK, NEW t \in Txn, doing[t] # Idle
  PROVE  /\ doing[t] \in Work /\ doing[t].op \in DOMAIN Scripts
         /\ Len(Script(t)) \in Nat /\ locked[t] \in Nat /\ locked[t] <= Len(Script(t))
<1>1. doing[t] \in Work /\ locked[t] \in Nat /\ locked[t] <= Len(Script(t))
  BY DEF LocksTypeOK
<1>2. doing[t].op \in DOMAIN Scripts
  BY <1>1 DEF Work
<1> QED
  BY <1>1, <1>2, ScriptsFinite DEF Script

\* Work is not mistaken for the lack of it.
LEMMA WorkIsNotIdle == ASSUME NEW d \in Work PROVE d # Idle
<1>1. d.op \in DOMAIN Scripts
  BY DEF Work
<1>2. "idle" \notin DOMAIN Scripts
  BY ScriptsNamed
<1> QED
  BY <1>1, <1>2 DEF Idle

\* Statements move the count of one transaction, and its work stands until it ends.
LEMMA LocksTypesKept ==
  ASSUME LocksTypeOK, [LocksNext]_locksVars
  PROVE  LocksTypeOK'
<1>1. ASSUME NEW t \in Txn, Open(t) PROVE LocksTypeOK'
  <2>1. PICK d \in Work : doing' = [doing EXCEPT ![t] = d]
    BY <1>1 DEF Open
  <2>2. locked' = locked /\ locked[t] = 0
    BY <1>1 DEF Open, LocksTypeOK
  <2>3. d # Idle /\ Len(Scripts[d.op]) \in Nat
    BY WorkIsNotIdle, ScriptsFinite DEF Work
  <2>4. doing'[t] = d /\ \A u \in Txn \ {t} : doing'[u] = doing[u]
    BY <2>1 DEF LocksTypeOK
  <2>5. doing' \in [Txn -> Work \cup {Idle}] /\ locked' \in [Txn -> Nat]
    BY <2>1, <2>2 DEF LocksTypeOK
  <2>6. ASSUME NEW u \in Txn
        PROVE  IF doing'[u] = Idle THEN locked'[u] = 0 ELSE locked'[u] <= Len(Scripts[doing'[u].op])
    <3>1. CASE u = t
      BY <3>1, <2>2, <2>3, <2>4
    <3>2. CASE u # t
      BY <3>2, <2>2, <2>4 DEF LocksTypeOK, Script
    <3> QED
      BY <3>1, <3>2
  <2> QED
    BY <2>5, <2>6 DEF LocksTypeOK, Script
<1>2. ASSUME NEW t \in Txn, Lock(t) PROVE LocksTypeOK'
  <2>1. /\ doing' = doing /\ locked' = [locked EXCEPT ![t] = @ + 1]
        /\ doing[t] # Idle /\ locked[t] < Len(Script(t))
    BY <1>2 DEF Lock, Goes
  <2>2. locked[t] \in Nat /\ Len(Script(t)) \in Nat
    BY <2>1, OpenHasScript
  <2>3. locked'[t] = locked[t] + 1 /\ \A u \in Txn \ {t} : locked'[u] = locked[u]
    BY <2>1 DEF LocksTypeOK
  <2>4. locked' \in [Txn -> Nat]
    BY <2>1, <2>2 DEF LocksTypeOK
  <2>5. ASSUME NEW u \in Txn
        PROVE  IF doing[u] = Idle THEN locked'[u] = 0 ELSE locked'[u] <= Len(Scripts[doing[u].op])
    <3>1. CASE u = t
      BY <3>1, <2>1, <2>2, <2>3 DEF Script
    <3>2. CASE u # t
      BY <3>2, <2>3 DEF LocksTypeOK, Script
    <3> QED
      BY <3>1, <3>2
  <2> QED
    BY <2>1, <2>4, <2>5 DEF LocksTypeOK, Script
<1>3. ASSUME NEW t \in Txn, End(t) PROVE LocksTypeOK'
  <2>1. /\ doing' = [doing EXCEPT ![t] = Idle]
        /\ locked' = [locked EXCEPT ![t] = 0]
    BY <1>3 DEF End
  <2>2. /\ doing'[t] = Idle /\ locked'[t] = 0
        /\ \A u \in Txn \ {t} : doing'[u] = doing[u] /\ locked'[u] = locked[u]
    BY <2>1 DEF LocksTypeOK
  <2>3. doing' \in [Txn -> Work \cup {Idle}] /\ locked' \in [Txn -> Nat]
    BY <2>1 DEF LocksTypeOK
  <2>4. ASSUME NEW u \in Txn
        PROVE  IF doing'[u] = Idle THEN locked'[u] = 0 ELSE locked'[u] <= Len(Scripts[doing'[u].op])
    <3>1. CASE u = t
      BY <3>1, <2>2
    <3>2. CASE u # t
      BY <3>2, <2>2 DEF LocksTypeOK, Script
    <3> QED
      BY <3>1, <3>2
  <2> QED
    BY <2>3, <2>4 DEF LocksTypeOK, Script
<1>4. CASE UNCHANGED locksVars
  BY <1>4 DEF locksVars, LocksTypeOK, Script
<1> QED
  BY <1>1, <1>2, <1>3, <1>4 DEF LocksNext

\* Whoever conflicts over a row is conflicted with over it.
LEMMA ConflictIsMutual ==
  ASSUME NEW d, NEW e, NEW kind, Conflict(d, e, kind)
  PROVE  Conflict(e, d, kind)
<1>1. CASE kind = "runner"
  BY <1>1 DEF Conflict, OfTrial
<1>2. CASE kind # "runner"
  BY <1>2 DEF Conflict
<1> QED
  BY <1>1, <1>2

\* Two transactions never hold one row against each other.
HeldApart ==
  \A t, u \in Txn : t # u /\ doing[t] # Idle =>
    \A i \in 1..locked[t] :
      Holds(u, Script(t)[i]) => ~Conflict(doing[t], doing[u], Script(t)[i])

\* A row is given to a transaction when nobody holds it against it.
LEMMA HeldApartKept ==
  ASSUME LocksTypeOK, HeldApart, [LocksNext]_locksVars
  PROVE  HeldApart'
<1> SUFFICES ASSUME NEW t \in Txn, NEW u \in Txn, t # u, doing'[t] # Idle,
                    NEW i \in 1..locked'[t],
                    doing'[u] # Idle,
                    NEW k \in 1..locked'[u],
                    Scripts[doing'[u].op][k] = Scripts[doing'[t].op][i],
                    Conflict(doing'[t], doing'[u], Scripts[doing'[t].op][i])
             PROVE  FALSE
  BY DEF HeldApart, Holds, Script
<1>a. \A v \in Txn : locked[v] \in Nat /\ (doing[v] = Idle => locked[v] = 0)
  BY DEF LocksTypeOK
<1>b. ASSUME doing[t] # Idle, doing[u] # Idle, doing'[t] = doing[t], doing'[u] = doing[u],
             i \in 1..locked[t], k \in 1..locked[u]
      PROVE  FALSE
  BY <1>b DEF HeldApart, Holds, Script
<1>1. ASSUME NEW v \in Txn, Open(v) PROVE FALSE
  <2>1. /\ locked' = locked /\ locked[v] = 0 /\ \A q \in Txn \ {v} : doing'[q] = doing[q]
    BY <1>1, <1>a DEF Open, LocksTypeOK
  <2>2. t # v /\ u # v
    BY <2>1
  <2> QED
    BY <2>1, <2>2, <1>b
<1>2. ASSUME NEW v \in Txn, Lock(v) PROVE FALSE
  <2>1. /\ doing' = doing /\ Goes(v)
        /\ locked'[v] = locked[v] + 1 /\ \A q \in Txn \ {v} : locked'[q] = locked[q]
        /\ \A q \in Txn : ~WaitsFor(v, q)
    BY <1>2 DEF Lock, LocksTypeOK
  <2>2. CASE v = t /\ i = locked[t] + 1
    <3>1. k \in 1..locked[u] /\ Script(t)[i] = Wanted(t) /\ doing[u] # Idle
      BY <2>1, <2>2 DEF Wanted
    <3>2. Holds(u, Wanted(t))
      BY <3>1, <2>1 DEF Holds, Script
    <3> QED
      BY <2>1, <2>2, <3>1, <3>2 DEF WaitsFor, Script
  <2>3. CASE v = u /\ k = locked[u] + 1
    <3>1. i \in 1..locked[t] /\ Script(u)[k] = Wanted(u) /\ doing[t] # Idle
      BY <2>1, <2>3 DEF Wanted
    <3>2. Holds(t, Wanted(u))
      BY <3>1, <2>1 DEF Holds, Script
    <3>3. Conflict(doing[u], doing[t], Wanted(u))
      BY <3>1, <2>1, ConflictIsMutual DEF Script
    <3> QED
      BY <2>1, <2>3, <3>2, <3>3 DEF WaitsFor
  <2>4. CASE ~(v = t /\ i = locked[t] + 1) /\ ~(v = u /\ k = locked[u] + 1)
    <3>1. i \in 1..locked[t] /\ k \in 1..locked[u]
      BY <2>1, <2>4, <1>a
    <3> QED
      BY <3>1, <2>1, <1>b
  <2> QED
    BY <2>2, <2>3, <2>4
<1>3. ASSUME NEW v \in Txn, End(v) PROVE FALSE
  <2>1. /\ locked'[v] = 0
        /\ \A q \in Txn \ {v} : doing'[q] = doing[q] /\ locked'[q] = locked[q]
    BY <1>3 DEF End, LocksTypeOK
  <2>2. t # v /\ u # v
    BY <2>1
  <2> QED
    BY <2>1, <2>2, <1>b
<1>4. CASE UNCHANGED locksVars
  BY <1>4, <1>b DEF locksVars
<1> QED
  BY <1>1, <1>2, <1>3, <1>4 DEF LocksNext

\* Of two transactions that take their rows in order, the one that is waited for, when it
\* waits itself, waits for a row further up; and a row under a run is not waited for.
LEMMA WaitsUpwards ==
  ASSUME LocksTypeOK, HeldApart, NEW t \in Txn, NEW u \in Txn, WaitsFor(t, u),
         doing[t].op \notin Inverted, doing[u].op \notin Inverted
  PROVE  /\ Wanted(t) \notin UnderRun /\ Rank[Wanted(t)] \in 1..6
         /\ Goes(u) /\ Wanted(u) \notin UnderRun => Rank[Wanted(t)] < Rank[Wanted(u)]
<1>1. /\ t # u /\ doing[t] # Idle /\ doing[u] # Idle /\ locked[t] < Len(Script(t))
      /\ Conflict(doing[t], doing[u], Wanted(t))
  BY DEF WaitsFor, Goes, Holds
<1>2. /\ locked[t] \in Nat /\ Len(Script(t)) \in Nat /\ InOrder(Script(t))
      /\ locked[u] \in Nat /\ Len(Script(u)) \in Nat /\ InOrder(Script(u))
      /\ locked[u] <= Len(Script(u))
  BY <1>1, OpenHasScript, ScriptsInOrder DEF Script
<1>3. PICK i \in 1..locked[u] : Script(u)[i] = Wanted(t)
  BY DEF WaitsFor, Holds
<1>4. locked[t] + 1 \in 1..Len(Script(t)) /\ i \in 1..Len(Script(u)) /\ i \in Nat
  BY <1>1, <1>2
<1>5. Wanted(t) \notin UnderRun
  <2> SUFFICES ASSUME Wanted(t) \in UnderRun PROVE FALSE
    OBVIOUS
  <2>1. PICK m \in 1..locked[t] : Script(t)[m] = "run"
    <3>1. PICK m \in 1..((locked[t] + 1) - 1) : Script(t)[m] = "run"
      BY <1>2, <1>4 DEF InOrder, Wanted
    <3> QED
      BY <3>1, <1>2
  <2>2. PICK n \in 1..(i - 1) : Script(u)[n] = "run"
    BY <1>2, <1>3, <1>4 DEF InOrder
  <2>3. Holds(u, "run")
    BY <2>2, <1>1, <1>2 DEF Holds
  <2>4. doing[t].run = doing[u].run
    BY <1>1 DEF Conflict, UnderRun
  <2>5. Conflict(doing[t], doing[u], "run")
    BY <2>4 DEF Conflict, OfTrial, Shared
  <2> QED
    BY <1>1, <2>1, <2>3, <2>5 DEF HeldApart
<1>6. Rank[Wanted(t)] \in 1..6
  BY <1>2, <1>4, <1>5 DEF InOrder, Wanted
<1>7. ASSUME Goes(u), Wanted(u) \notin UnderRun PROVE Rank[Wanted(t)] < Rank[Wanted(u)]
  <2>1. locked[u] + 1 \in 1..Len(Script(u)) /\ i \in 1..((locked[u] + 1) - 1)
    BY <1>2, <1>7 DEF Goes
  <2> QED
    BY <1>2, <1>3, <1>5, <1>7, <2>1 DEF InOrder, Wanted
<1> QED
  BY <1>5, <1>6, <1>7

\* A set of transactions that take their rows in order and all wait for each other would
\* have a highest row that one of them waits for, and somebody waiting above it.
LEMMA InOrderNeverDeadlocks ==
  ASSUME LocksTypeOK, HeldApart
  PROVE  OthersNeverDeadlock
<1> SUFFICES ASSUME NEW T \in SUBSET Txn, Deadlocked(T), \A t \in T : doing[t].op \notin Inverted
             PROVE  FALSE
  BY DEF OthersNeverDeadlock
<1> DEFINE level(t) == Rank[Wanted(t)]
<1>1. \A t \in T : \E u \in T : WaitsFor(t, u)
  BY DEF Deadlocked
<1>2. \A t \in T : Goes(t) /\ Wanted(t) \notin UnderRun /\ level(t) \in 1..6
  BY <1>1, WaitsUpwards DEF WaitsFor
<1>3. \A t \in T : \E u \in T : level(t) < level(u)
  BY <1>1, <1>2, WaitsUpwards
<1> HIDE DEF level
<1>4. \A t \in T : level(t) < 6
  BY <1>2, <1>3
<1>5. \A t \in T : level(t) < 5
  BY <1>2, <1>3, <1>4
<1>6. \A t \in T : level(t) < 4
  BY <1>2, <1>3, <1>5
<1>7. \A t \in T : level(t) < 3
  BY <1>2, <1>3, <1>6
<1>8. \A t \in T : level(t) < 2
  BY <1>2, <1>3, <1>7
<1>9. \A t \in T : level(t) < 1
  BY <1>2, <1>3, <1>8
<1> QED
  BY <1>2, <1>9 DEF Deadlocked

\* The transactions around a desktop run (manual dispatch, handoff recovery, the session's
\* requests, the verdict, cancellation, approval, the baseline's trial) never deadlock,
\* however many are open on whatever runs and desktops: for that, one of them has to be
\* the admission of a baseline's reader, the withdrawal of an approval, or an operation that
\* locks a lease before its runner.
THEOREM OthersAreDeadlockFree == LocksSpec => []OthersNeverDeadlock
<1>1. LocksInit => LocksTypeOK /\ HeldApart
  BY DEF LocksInit, LocksTypeOK, HeldApart
<1>2. LocksTypeOK /\ HeldApart /\ [LocksNext]_locksVars => (LocksTypeOK /\ HeldApart)'
  BY LocksTypesKept, HeldApartKept
<1>3. LocksTypeOK /\ HeldApart => OthersNeverDeadlock
  BY InOrderNeverDeadlocks
<1> QED
  BY <1>1, <1>2, <1>3, PTL DEF LocksSpec

=============================================================================
