--------------------------- MODULE NativeExecution ---------------------------
(***************************************************************************)
(* One execution attempt, from the navigator's model call to the desktop.  *)
(* A navigator process reserves a turn in the database, calls its model    *)
(* once, and hands one proposed action over a private socket to the        *)
(* desktop host: bridge, exclusive runner, authenticated runner and        *)
(* supervisor.  The host retains intent, commitment, reader observation    *)
(* and result at the server, journals locally before it touches the        *)
(* desktop, and releases its desktop claim only after a proven STOP.       *)
(*                                                                         *)
(* Every request to the server may be refused, or take effect while its    *)
(* answer is lost; a process may die at any step; an input whose answer    *)
(* timed out may still land.  What an action does and what a reader says   *)
(* are left out: only STOP is told apart from the other actions.           *)
(***************************************************************************)
EXTENDS Naturals, Sequences, SequencesExt

CONSTANTS
    Navigators,   \* navigator processes given this attempt's envelope
    MaxActions,   \* the sealed action budget
    MaxCalls,     \* model calls the consent allows
    MaxStarts     \* how often the host process is started (a bound)

ASSUME NativeAssumption ==
    Navigators # {} /\ MaxActions \in Nat /\ MaxCalls \in Nat /\ MaxStarts \in Nat

VARIABLES
    modelConsent,      \* the run's model consent
    authority,    \* run, lease, approval, ticket and session are all live
    turns,        \* navigator_model_turn joined with its invocation
    rows,         \* runner_action, in action_sequence order
    observed,     \* the independent observer closed its final sample
    finished,     \* the session is finished and the run FINALIZING
    claim,        \* the desktop claim file exists
    received,     \* the reception claim of this run exists
    journal,      \* the host's fsynced journal
    host,         \* is a host process running, and how many were started
    bridge,       \* the navigator bridge of the running host
    runner,       \* its runner: what it is doing, for which request
    entered,      \* how often the adapter was entered for each action
    unsettled,    \* adapter calls that may still act on the desktop
    nav           \* the navigator processes

serverVars == <<modelConsent, authority, turns, rows, observed, finished>>
diskVars == <<claim, received, journal>>
deskVars == <<entered, unsettled>>
nativeVars == <<serverVars, diskVars, host, bridge, runner, deskVars, nav>>

Acts == {"MOVE", "STOP"}
Known == {"SUCCEEDED", "FAILED"}
Results == Known \cup {"AMBIGUOUS", "REFUSED"}
NavStage == {"off", "idle", "loaded", "reserved", "called", "proposed", "sending",
             "finish", "stopped", "ended"}
RunnerStage == {"new", "idle", "intend", "commit", "journal", "act", "acting", "result",
                "report", "reply"}

NoNav == [pc |-> "off", seq |-> 0, turn |-> 0, fence |-> FALSE, act |-> "MOVE",
          res |-> "REFUSED", disp |-> "NOT_CALLED"]
NoBridge == [closed |-> FALSE, stopped |-> FALSE, next |-> 1]
NoRunner == [pc |-> "new", id |-> 0, act |-> "MOVE", by |-> CHOOSE n \in Navigators : TRUE,
             res |-> "REFUSED", fenced |-> FALSE, stopping |-> FALSE, started |-> FALSE]

NativeInit ==
    /\ modelConsent = "none" /\ authority = TRUE
    /\ turns = <<>> /\ rows = <<>> /\ observed = FALSE /\ finished = FALSE
    /\ claim = FALSE /\ received = FALSE /\ journal = <<>>
    /\ host = [up |-> FALSE, starts |-> 0]
    /\ bridge = NoBridge /\ runner = NoRunner
    /\ entered = [k \in 1..MaxActions |-> 0] /\ unsettled = {}
    /\ nav = [n \in Navigators |-> NoNav]

-----------------------------------------------------------------------------
(* Consent and authority.                                                   *)

IssueConsent ==
    /\ modelConsent = "none" /\ authority
    /\ modelConsent' = "live"
    /\ UNCHANGED <<authority, turns, rows, observed, finished, diskVars, host, bridge,
                   runner, deskVars, nav>>

RevokeConsent ==
    /\ modelConsent = "live"
    /\ modelConsent' = "ended"
    /\ UNCHANGED <<authority, turns, rows, observed, finished, diskVars, host, bridge,
                   runner, deskVars, nav>>

\* A cancellation, an expiry or a revocation ends what every request re-reads.
EndAuthority ==
    /\ authority
    /\ authority' = FALSE
    /\ UNCHANGED <<modelConsent, turns, rows, observed, finished, diskVars, host, bridge,
                   runner, deskVars, nav>>

-----------------------------------------------------------------------------
(* The navigator process.                                                   *)

\* The host spawns one process per bridge; the others are an operator running
\* the same module by hand with that process's envelope.
LaunchNavigator(n) ==
    /\ nav[n].pc = "off" /\ host.up /\ runner.pc # "new"
    /\ nav' = [nav EXCEPT ![n].pc = "idle"]
    /\ UNCHANGED <<serverVars, diskVars, host, bridge, runner, deskVars>>

\* Every action so far is resolved and known, none is STOP, and each has its
\* reader record.
ResolvedThrough(s) ==
    /\ Len(rows) = s /\ s < MaxActions
    /\ \A k \in 1..s : rows[k].state \in Known /\ rows[k].act # "STOP" /\ rows[k].seen

LoadTurn(n) ==
    /\ nav[n].pc = "idle"
    /\ nav' = [nav EXCEPT ![n].pc =
                 IF authority /\ ResolvedThrough(nav[n].seq) THEN "loaded" ELSE "ended"]
    /\ UNCHANGED <<serverVars, diskVars, host, bridge, runner, deskVars>>

LiveConsent == authority /\ modelConsent = "live"

NewBoundary(s) ==
    /\ Len(turns) < MaxCalls
    /\ \A i \in 1..Len(turns) : turns[i].at < s /\ turns[i].status = "RECORDED"

TurnReservable(s) == LiveConsent /\ NewBoundary(s) /\ ResolvedThrough(s)

\* The reservation commits before its handle is known: a lost commit ends the
\* process and leaves the turn STARTED.
ReserveTurn(n) ==
    /\ nav[n].pc = "loaded"
    /\ \/ /\ TurnReservable(nav[n].seq)
          /\ turns' = Append(turns, [at |-> nav[n].seq, status |-> "STARTED", called |-> FALSE])
          /\ nav' = [nav EXCEPT ![n].pc = "reserved", ![n].turn = Len(turns'),
                                ![n].disp = "NOT_CALLED", ![n].res = "REFUSED"]
       \/ /\ TurnReservable(nav[n].seq)
          /\ turns' = Append(turns, [at |-> nav[n].seq, status |-> "STARTED", called |-> FALSE])
          /\ nav' = [nav EXCEPT ![n].pc = "ended"]
       \/ /\ ~TurnReservable(nav[n].seq)
          /\ nav' = [nav EXCEPT ![n].pc = "ended"]
          /\ UNCHANGED turns
    /\ UNCHANGED <<modelConsent, authority, rows, observed, finished, diskVars, host, bridge,
                   runner, deskVars>>

\* The same projection, the same open turn, and everything live once more.
RecheckTurn(n) ==
    /\ ~nav[n].fence /\ LiveConsent
    /\ ResolvedThrough(nav[n].seq)
    /\ turns[nav[n].turn].status = "STARTED"

EnterProvider(n) ==
    /\ nav[n].pc = "reserved"
    /\ \/ /\ RecheckTurn(n)
          /\ turns' = [turns EXCEPT ![nav[n].turn].called = TRUE]
          /\ nav' = [nav EXCEPT ![n].pc = "called", ![n].disp = "UNCONFIRMED"]
       \/ /\ nav' = [nav EXCEPT ![n].pc = "finish", ![n].fence = TRUE]
          /\ UNCHANGED turns
    /\ UNCHANGED <<modelConsent, authority, rows, observed, finished, diskVars, host, bridge,
                   runner, deskVars>>

Propose(n) ==
    /\ nav[n].pc = "called"
    /\ \/ \E a \in Acts : /\ ~nav[n].fence
                          /\ nav' = [nav EXCEPT ![n].pc = "proposed", ![n].act = a]
       \/ nav' = [nav EXCEPT ![n].pc = "finish", ![n].fence = TRUE]
    /\ UNCHANGED <<serverVars, diskVars, host, bridge, runner, deskVars>>

\* The gateway re-reads authority and hands the request to the transport.
SubmitAction(n) ==
    /\ nav[n].pc = "proposed"
    /\ \/ /\ RecheckTurn(n)
          /\ nav' = [nav EXCEPT ![n].pc = "sending"]
       \/ nav' = [nav EXCEPT ![n].pc = "finish", ![n].fence = TRUE]
    /\ UNCHANGED <<serverVars, diskVars, host, bridge, runner, deskVars>>

\* No answer: the transport is fenced and the action counts as ambiguous.
LoseTransport(n) ==
    /\ nav[n].pc = "sending"
    /\ nav' = [nav EXCEPT ![n].pc = "finish", ![n].fence = TRUE, ![n].res = "AMBIGUOUS"]
    /\ UNCHANGED <<serverVars, diskVars, host, bridge, runner, deskVars>>

Continues(s) ==
    s.disp = "RECORDED" /\ ~s.fence /\ s.res \in Known /\ s.act # "STOP"
Acknowledged(s) ==
    s.disp = "RECORDED" /\ s.act = "STOP" /\ s.res = "SUCCEEDED"

\* The disposition is stored once.  When its answer is lost the process ends
\* whatever the row now says.
FinishTurn(n) ==
    LET s == nav[n]
        after == IF Continues(s) THEN "idle" ELSE IF Acknowledged(s) THEN "stopped" ELSE "ended"
    IN  /\ s.pc = "finish"
        /\ \/ /\ turns' = [turns EXCEPT ![s.turn].status = s.disp]
              /\ \/ nav' = [nav EXCEPT ![n].pc = after,
                                       ![n].seq = IF Continues(s) THEN @ + 1 ELSE @]
                 \/ nav' = [nav EXCEPT ![n].pc = "ended"]
           \/ /\ nav' = [nav EXCEPT ![n].pc = "ended"]
              /\ UNCHANGED turns
        /\ UNCHANGED <<modelConsent, authority, rows, observed, finished, diskVars, host, bridge,
                       runner, deskVars>>

\* SIGTERM: the session is fenced, a reserved turn is still finished.
CancelNavigator(n) ==
    /\ nav[n].pc \in {"idle", "loaded", "reserved", "called", "proposed", "sending"}
    /\ nav' = [nav EXCEPT ![n].fence = TRUE,
                 ![n].pc = IF nav[n].pc \in {"idle", "loaded"} THEN "ended" ELSE "finish"]
    /\ UNCHANGED <<serverVars, diskVars, host, bridge, runner, deskVars>>

CrashNavigator(n) ==
    /\ nav[n].pc \notin {"off", "ended", "stopped"}
    /\ nav' = [nav EXCEPT ![n].pc = "ended"]
    /\ UNCHANGED <<serverVars, diskVars, host, bridge, runner, deskVars>>

-----------------------------------------------------------------------------
(* The desktop host.                                                        *)

\* An existing claim file refuses every start, whoever left it.
StartHost ==
    /\ ~host.up /\ host.starts < MaxStarts /\ ~claim
    /\ claim' = TRUE
    /\ host' = [up |-> TRUE, starts |-> host.starts + 1]
    /\ bridge' = NoBridge /\ runner' = NoRunner
    /\ UNCHANGED <<serverVars, received, journal, deskVars, nav>>

Fence(r) == [r EXCEPT !.fenced = TRUE]
Stopping(r) == [r EXCEPT !.stopping = TRUE]
Closed(b) == [b EXCEPT !.closed = TRUE]

\* The reception claim comes first and is never taken back.
OpenSession ==
    /\ host.up /\ runner.pc = "new"
    /\ received' = TRUE
    /\ \/ /\ ~received /\ authority /\ ~bridge.closed
          /\ runner' = [runner EXCEPT !.pc = "idle"]
          /\ UNCHANGED bridge
       \/ /\ runner' = Stopping([runner EXCEPT !.pc = "idle"])
          /\ bridge' = Closed(bridge)
    /\ UNCHANGED <<serverVars, claim, journal, host, deskVars, nav>>

\* Abort, lease expiry, a lost socket, or close(): future input is fenced.
FenceHost ==
    /\ host.up /\ ~bridge.closed
    /\ bridge' = Closed(bridge) /\ runner' = Stopping(runner)
    /\ UNCHANGED <<serverVars, diskVars, host, deskVars, nav>>

CrashHost ==
    /\ host.up
    /\ host' = [host EXCEPT !.up = FALSE]
    /\ bridge' = Closed(bridge) /\ runner' = Stopping([runner EXCEPT !.pc = "idle"])
    /\ UNCHANGED <<serverVars, diskVars, deskVars, nav>>

Binding(n) ==
    /\ ~bridge.closed /\ ~bridge.stopped
    /\ runner.pc = "idle"
    /\ nav[n].seq + 1 = bridge.next /\ bridge.next <= MaxActions

\* An authenticated request that does not fit fences the bridge.
AcceptRequest(n) ==
    /\ host.up /\ nav[n].pc = "sending" /\ runner.pc # "new"
    /\ ~(runner.pc # "idle" /\ runner.by = n)
    /\ \/ /\ Binding(n)
          /\ bridge' = [bridge EXCEPT !.next = @ + 1]
          /\ runner' = [runner EXCEPT !.pc = "intend", !.id = 0, !.act = nav[n].act, !.by = n]
          /\ UNCHANGED nav
       \/ /\ ~Binding(n)
          /\ bridge' = Closed(bridge) /\ runner' = Stopping(runner)
          /\ nav' = [nav EXCEPT ![n].pc = "finish", ![n].fence = TRUE, ![n].res = "AMBIGUOUS"]
    /\ UNCHANGED <<serverVars, diskVars, host, deskVars>>

Refuse(r) == Fence([r EXCEPT !.pc = "reply", !.res = "REFUSED"])
Ambiguous(r) == Fence([r EXCEPT !.pc = "report", !.res = "AMBIGUOUS"])

IntentAdmitted ==
    /\ authority /\ Len(rows) < MaxActions
    /\ \A k \in 1..Len(rows) : rows[k].state \in Known /\ rows[k].act # "STOP"

\* Preflight, then the intent at the server.  Without its identity the runner
\* refuses, also when the server stored it.
RetainIntent ==
    /\ host.up /\ runner.pc = "intend"
    /\ \/ /\ ~runner.stopping /\ (runner.started \/ journal = <<>>) /\ IntentAdmitted
          /\ rows' = Append(rows, [act |-> runner.act, state |-> "INTENDED", seen |-> FALSE])
          /\ \/ runner' = [runner EXCEPT !.pc = "commit", !.id = Len(rows'), !.started = TRUE]
             \/ runner' = Refuse(runner)
       \/ runner' = Refuse(runner) /\ UNCHANGED rows
    /\ UNCHANGED <<modelConsent, authority, turns, observed, finished, diskVars, host, bridge,
                   deskVars, nav>>

CommitDispatch ==
    /\ host.up /\ runner.pc = "commit"
    /\ \/ /\ authority /\ rows[runner.id].state = "INTENDED"
          /\ rows' = [rows EXCEPT ![runner.id].state = "COMMITTED"]
          /\ \/ runner' = [runner EXCEPT !.pc = "journal"]
             \/ runner' = Ambiguous(runner)
       \/ runner' = Ambiguous(runner) /\ UNCHANGED rows
    /\ UNCHANGED <<modelConsent, authority, turns, observed, finished, diskVars, host, bridge,
                   deskVars, nav>>

\* The supervisor's gate, then the fsynced intent.
JournalIntent ==
    /\ host.up /\ runner.pc = "journal"
    /\ \/ /\ ~runner.stopping
          /\ journal' = Append(journal, [id |-> runner.id, res |-> "INTENT"])
          /\ \/ runner' = [runner EXCEPT !.pc = "act"]
             \/ runner' = Ambiguous(runner)
       \/ runner' = Ambiguous(runner) /\ UNCHANGED journal
    /\ UNCHANGED <<serverVars, claim, received, host, bridge, deskVars, nav>>

\* Mutant: a preflight that resolves late enters the adapter all the same.
LateEntry == TRUE
\* The last check and the adapter call happen without a pause between them.
MayEnterAdapter == ~runner.stopping /\ ~runner.fenced

EnterAdapter ==
    /\ host.up /\ runner.pc = "act" /\ MayEnterAdapter
    /\ entered' = [entered EXCEPT ![runner.id] = @ + 1]
    /\ unsettled' = unsettled \cup {runner.id}
    /\ runner' = [runner EXCEPT !.pc = "acting"]
    /\ UNCHANGED <<serverVars, diskVars, host, bridge, nav>>

Unresolved(r) == Fence([r EXCEPT !.pc = "result", !.res = "AMBIGUOUS"])

\* The adapter answers; the reader's observation is retained before the result.
ReaderRetained ==
    /\ host.up /\ runner.pc = "acting"
    /\ unsettled' = unsettled \ {runner.id}
    /\ \/ \E s \in Known :
            /\ \/ /\ runner.act # "STOP" /\ ~runner.stopping /\ authority
                  /\ rows' = [rows EXCEPT ![runner.id].seen = TRUE]
               \/ runner.act = "STOP" /\ UNCHANGED rows
            /\ runner' = [runner EXCEPT !.pc = "result", !.res = s]
       \/ /\ runner.act # "STOP"
          /\ \/ authority /\ rows' = [rows EXCEPT ![runner.id].seen = TRUE]
             \/ UNCHANGED rows
          /\ runner' = Fence([runner EXCEPT !.pc = "result", !.res = "AMBIGUOUS"])
    /\ UNCHANGED <<modelConsent, authority, turns, observed, finished, diskVars, host, bridge,
                   entered, nav>>

\* A preflight, an authorization, the origin or the adapter does not answer in
\* time.  An adapter already entered may still act.
ActionTimesOut ==
    /\ host.up /\ runner.pc \in {"act", "acting"}
    /\ runner' = Unresolved(runner)
    /\ UNCHANGED <<serverVars, diskVars, host, bridge, deskVars, nav>>

LateAdapterEnds(k) ==
    /\ k \in unsettled /\ ~(runner.pc = "acting" /\ runner.id = k)
    /\ unsettled' = unsettled \ {k}
    /\ UNCHANGED <<serverVars, diskVars, host, bridge, runner, entered, nav>>

JournalResult ==
    /\ host.up /\ runner.pc = "result"
    /\ \/ /\ journal' = Append(journal, [id |-> runner.id, res |-> runner.res])
          /\ runner' = [runner EXCEPT !.pc = "report"]
       \/ runner' = Ambiguous(runner) /\ UNCHANGED journal
    /\ UNCHANGED <<serverVars, claim, received, host, bridge, deskVars, nav>>

\* An ambiguous result interrupts the attempt; a known one is stored once, and
\* when its answer is lost the runner reports ambiguity, which no longer counts.
CompleteAction ==
    /\ host.up /\ runner.pc = "report"
    /\ IF runner.res = "AMBIGUOUS"
       THEN /\ \/ /\ authority /\ rows[runner.id].state \in {"INTENDED", "COMMITTED"}
                  /\ rows' = [rows EXCEPT ![runner.id].state = "AMBIGUOUS"]
                  /\ authority' = FALSE
               \/ UNCHANGED <<rows, authority>>
            /\ runner' = Fence([runner EXCEPT !.pc = "reply"])
       ELSE /\ UNCHANGED authority
            /\ \/ /\ authority /\ rows[runner.id].state = "COMMITTED"
                  /\ rows' = [rows EXCEPT ![runner.id].state = runner.res]
                  /\ \/ runner' = [runner EXCEPT !.pc = "reply",
                                     !.stopping = @ \/ runner.act = "STOP"]
                     \/ runner' = Ambiguous(runner)
               \/ runner' = Ambiguous(runner) /\ UNCHANGED rows
    /\ UNCHANGED <<modelConsent, turns, observed, finished, diskVars, host, bridge, deskVars, nav>>

\* What the planner does with an answer: an ambiguous one, or one it cannot
\* retain, fences the session and leaves the call unconfirmed.
Answered(s, r) ==
    IF r = "AMBIGUOUS" \/ s.fence
    THEN [s EXCEPT !.pc = "finish", !.fence = TRUE, !.res = r]
    ELSE [s EXCEPT !.pc = "finish", !.res = r, !.disp = "RECORDED"]

\* The bridge answers unless it was fenced meanwhile; a STOP that succeeded
\* stops it, anything uncertain fences it, and so does a lost answer.
ReplyToNavigator ==
    LET n == runner.by
        clean == runner.res \in Known /\ runner.act # "STOP"
        stop == runner.res = "SUCCEEDED" /\ runner.act = "STOP"
        delivered == nav[n].pc = "sending" /\ ~bridge.closed
    IN  /\ host.up /\ runner.pc = "reply"
        /\ \/ /\ delivered
              /\ nav' = [nav EXCEPT ![n] = Answered(@, runner.res)]
              /\ bridge' = [bridge EXCEPT !.stopped = @ \/ stop, !.closed = ~clean /\ ~stop]
              /\ runner' = [runner EXCEPT !.pc = "idle", !.stopping = @ \/ (~clean /\ ~stop)]
           \/ /\ bridge' = Closed(bridge)
              /\ runner' = Stopping([runner EXCEPT !.pc = "idle"])
              /\ UNCHANGED nav
        /\ UNCHANGED <<serverVars, diskVars, host, deskVars>>

\* The host closes the independent observer once the child acknowledged STOP.
CloseObserver ==
    /\ host.up /\ ~observed /\ authority
    /\ \E n \in Navigators : nav[n].pc = "stopped"
    /\ observed' = TRUE
    /\ UNCHANGED <<modelConsent, authority, turns, rows, finished, diskVars, host, bridge, runner,
                   deskVars, nav>>

JournalComplete ==
    /\ Len(journal) = 2 * Len(rows) /\ journal # <<>>
    /\ \A k \in 1..Len(rows) :
         /\ journal[2 * k - 1] = [id |-> k, res |-> "INTENT"]
         /\ journal[2 * k].id = k /\ journal[2 * k].res \in Known
    /\ Last(journal).res = "SUCCEEDED"

SessionFinishable ==
    /\ authority /\ observed /\ rows # <<>>
    /\ Last(rows).act = "STOP" /\ Last(rows).state = "SUCCEEDED"
    /\ \A k \in 1..Len(rows) : rows[k].state \in Known
    /\ \A k \in 1..Len(rows) : rows[k].act # "STOP" => rows[k].seen

\* The claim is released only when the server's acknowledgement arrived.
FinishExecution ==
    /\ host.up /\ ~bridge.closed /\ bridge.stopped /\ runner.pc = "idle" /\ ~runner.fenced
    /\ \E n \in Navigators : nav[n].pc = "stopped"
    /\ bridge' = Closed(bridge) /\ runner' = Stopping(Fence(runner))
    /\ \/ /\ JournalComplete /\ SessionFinishable
          /\ finished' = TRUE /\ authority' = FALSE
          /\ claim' \in {claim, FALSE}
       \/ UNCHANGED <<finished, authority, claim>>
    /\ UNCHANGED <<modelConsent, turns, rows, observed, received, journal, host, deskVars, nav>>

-----------------------------------------------------------------------------

NavigatorStep ==
    \E n \in Navigators :
        \/ LaunchNavigator(n) \/ LoadTurn(n) \/ ReserveTurn(n) \/ EnterProvider(n)
        \/ Propose(n) \/ SubmitAction(n) \/ LoseTransport(n) \/ FinishTurn(n)
        \/ CancelNavigator(n) \/ CrashNavigator(n) \/ AcceptRequest(n)

NativeNext ==
    \/ IssueConsent \/ RevokeConsent \/ EndAuthority
    \/ NavigatorStep
    \/ StartHost \/ OpenSession \/ FenceHost \/ CrashHost
    \/ RetainIntent \/ CommitDispatch \/ JournalIntent \/ EnterAdapter \/ ReaderRetained
    \/ ActionTimesOut \/ JournalResult \/ CompleteAction \/ ReplyToNavigator
    \/ \E k \in 1..MaxActions : LateAdapterEnds(k)
    \/ CloseObserver \/ FinishExecution

NativeSpec == NativeInit /\ [][NativeNext]_nativeVars

-----------------------------------------------------------------------------

\* Every table, file and process has its type.
NativeTypeOK ==
    /\ modelConsent \in {"none", "live", "ended"}
    /\ {authority, observed, finished, claim, received} \subseteq BOOLEAN
    /\ \A i \in 1..Len(turns) :
         turns[i] \in [at : 0..MaxActions, called : BOOLEAN,
                       status : {"STARTED", "RECORDED", "UNCONFIRMED", "NOT_CALLED"}]
    /\ \A k \in 1..Len(rows) :
         rows[k] \in [act : Acts, seen : BOOLEAN,
                      state : Known \cup {"INTENDED", "COMMITTED", "AMBIGUOUS"}]
    /\ \A i \in 1..Len(journal) :
         journal[i] \in [id : 1..MaxActions, res : Known \cup {"INTENT", "AMBIGUOUS"}]
    /\ host \in [up : BOOLEAN, starts : 0..MaxStarts]
    /\ bridge \in [closed : BOOLEAN, stopped : BOOLEAN, next : 1..(MaxActions + 1)]
    /\ runner \in [pc : RunnerStage, id : 0..MaxActions, act : Acts, by : Navigators,
                   res : Results, fenced : BOOLEAN, stopping : BOOLEAN, started : BOOLEAN]
    /\ entered \in [1..MaxActions -> Nat] /\ unsettled \subseteq 1..MaxActions
    /\ nav \in [Navigators -> [pc : NavStage, seq : 0..MaxActions, turn : 0..MaxCalls,
                               fence : BOOLEAN, act : Acts, res : Results,
                               disp : {"RECORDED", "UNCONFIRMED", "NOT_CALLED"}]]

\* A reader boundary buys one model call, whichever process asks and whatever
\* happened to its answer, and no call follows one whose end is not recorded.
OneCallPerBoundary ==
    /\ Len(turns) <= MaxCalls
    /\ \A i, j \in 1..Len(turns) : i < j => turns[i].at < turns[j].at
    /\ \A i \in 1..(Len(turns) - 1) : turns[i].status = "RECORDED" /\ turns[i].called

\* The adapter is entered at most once for an action, and only for one that the
\* server committed, that the local journal holds durably, and that a model
\* call made at that very reader boundary proposed.
InputIsAttributed ==
    \A k \in 1..MaxActions : entered[k] > 0 =>
        /\ entered[k] = 1 /\ k <= Len(rows) /\ rows[k].state # "INTENDED"
        /\ \E i \in 1..Len(journal) : journal[i] = [id |-> k, res |-> "INTENT"]
        /\ \E i \in 1..Len(turns) : turns[i].at = k - 1 /\ turns[i].called

\* A desktop whose claim is gone, or a run that reached FINALIZING, has no
\* action in doubt: every one is known to both sides and no input can still land.
ReleasedIsSettled ==
    /\ (received /\ ~claim) => finished
    /\ finished => /\ unsettled = {}
                   /\ \A k \in 1..Len(rows) :
                        /\ rows[k].state \in Known
                        /\ journal[2 * k].res = rows[k].state
                        /\ entered[k] = 1

\* Once the bridge is fenced nothing enters the adapter again.
FencedMeansNoInput == [][bridge.closed /\ host.up => entered' = entered]_nativeVars

\* The model, the bridge and the runner enter the desktop once per attributed action, never
\* after a fence, and release it only when nothing is in doubt.
NativeInputIsAccounted ==
  [](NativeTypeOK /\ OneCallPerBoundary /\ InputIsAttributed /\ ReleasedIsSettled) /\ FencedMeansNoInput
=============================================================================
