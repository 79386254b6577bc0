---------------------------- MODULE MCCandidate -----------------------------
(* A repair on its way, through the session that exercises the candidate and *)
(* the check published at GitHub; and the schedules that start runs under a  *)
(* standing grant.  A behaviour follows one of them.                         *)
EXTENDS CandidateSession, GithubPublication, GrantSchedules, TLC

VARIABLE followed   \* the component this behaviour is about

vars == <<followed, sessionVars, githubVars, scheduleVars>>

Init ==
  /\ followed \in {"session", "github", "schedules", "decisions"}
  /\ SessionInit /\ GithubInit /\ ScheduleInit

\* Schedules are followed twice: as time passes, with every scheduler and one decision of a person
\* about the schedule, one slot late, the grant lapsing before the restore or not at all; and while
\* nothing lapses, with several administrators at work at once around one occurrence.
OneAtATime ==
  /\ Cardinality({a \in Admins : admin'[a].pc # "idle"}) <= 1
  /\ sched'.revision <= 2 /\ Cardinality(late') <= 1 /\ (grant'.lapsed => restores' = 0)
Unhurried ==
  /\ late' = late /\ ~grant'.lapsed /\ ~sched'.lapsed
  /\ Cardinality({s \in DueTimes : occ'[s] # "none"}) <= 1
  /\ \A w \in Schedulers \ Locking : caller'[w] = caller[w]

Next ==
  \/ /\ followed = "session" /\ SessionNext
     /\ UNCHANGED <<followed, githubVars, scheduleVars>>
  \/ /\ followed = "github" /\ GithubNext
     /\ UNCHANGED <<followed, sessionVars, scheduleVars>>
  \/ /\ followed = "schedules" /\ ScheduleNext /\ OneAtATime
     /\ UNCHANGED <<followed, sessionVars, githubVars>>
  \/ /\ followed = "decisions" /\ ScheduleNext /\ Unhurried
     /\ UNCHANGED <<followed, sessionVars, githubVars>>

Spec == Init /\ [][Next]_vars

\* Reader actions and due times share their values, and so do publishers and administrators.
Interchangeable == Permutations(ReaderActions) \cup Permutations(Publishers)
=============================================================================
