---------------------------- MODULE WriteLimiter ----------------------------
(***************************************************************************)
(* The write rate limiter of the API: a token bucket per principal and one *)
(* for the workspace, kept in the database, charged together before a      *)
(* mutating request is served, and a sweep that deletes idle buckets.      *)
(*                                                                         *)
(* A token is Unit parts and Rate parts come back per tick, so that a wait *)
(* need not divide.  A request takes its moment from the clock of its      *)
(* process and charges the buckets later, when their rows are free: up to  *)
(* Late ticks later.                                                       *)
(***************************************************************************)
EXTENDS Naturals

CONSTANTS Principals, Workspace, Calls,
          PrincipalOf,  \* the principal of each concurrent call
          Unit, Rate,
          Burst,        \* the capacity of each bucket, in tokens
          IdleFor,      \* IDLE_BUCKET_RETENTION
          Late, MaxClock, Nothing

VARIABLES
  clock,
  bucket,  \* rate_limit_bucket
  moment,  \* each call: idle, or its moment
  advice,  \* what each call was last told: which bucket refused it, and until when
  spent,   \* history: the tokens taken from each bucket
  regained \* history: the ticks by which charges with an older moment moved refilled_at back

limiterVars == <<clock, bucket, moment, advice, spent, regained>>

Scopes == Principals \cup {Workspace}
NoBucket == [tokens |-> 0, at |-> MaxClock + 1]
NoAdvice == [scope |-> Nothing, until |-> 0, spent |-> 0]
Capacity(s) == Burst[s] * Unit

\* consume refuses a rate that returns nothing and a capacity of nothing; prune_idle_buckets keeps
\* an idle bucket comfortably longer than any bucket takes to fill and any request waits.
ASSUME LimiterAssumption ==
  /\ Unit \in Nat \ {0} /\ Rate \in Nat \ {0} /\ Burst \in [Scopes -> Nat \ {0}]
  /\ IdleFor \in Nat /\ \A s \in Scopes : Capacity(s) + Late * Rate <= IdleFor * Rate
  /\ PrincipalOf \in [Calls -> Principals]
  /\ Late \in Nat /\ MaxClock \in Nat /\ Nothing \notin Nat

LimiterTypeOK ==
  /\ clock \in 0 .. MaxClock
  /\ bucket \in [Scopes -> [tokens : Nat, at : 0 .. MaxClock] \cup {NoBucket}]
  /\ \A s \in Scopes : bucket[s].tokens <= Capacity(s)
  /\ moment \in [Calls -> 0 .. MaxClock \cup {Nothing}]
  /\ advice \in [Calls -> [scope : Scopes, until : Nat, spent : Nat] \cup {NoAdvice}]
  /\ spent \in [Scopes -> Nat] /\ regained \in [Scopes -> Nat]

LimiterInit ==
  /\ clock = 0
  /\ bucket = [s \in Scopes |-> NoBucket]
  /\ moment = [c \in Calls |-> Nothing]
  /\ advice = [c \in Calls |-> NoAdvice]
  /\ spent = [s \in Scopes |-> 0] /\ regained = [s \in Scopes |-> 0]

Least(a, b) == IF a < b THEN a ELSE b
Elapsed(s, now) == IF now > bucket[s].at THEN now - bucket[s].at ELSE 0

\* _AVAILABLE; the INSERT of a missing row starts it full
TokensAt(s, now) ==
  IF bucket[s] = NoBucket THEN Capacity(s)
  ELSE Least(Capacity(s), bucket[s].tokens + Elapsed(s, now) * Rate)

\* mutant: the refill is credited and the moment of the last one kept
ChargedTwice(s, now) ==
  [tokens |-> TokensAt(s, now) - Unit, at |-> IF bucket[s] = NoBucket THEN now ELSE bucket[s].at]
Charged(s, now) == [tokens |-> TokensAt(s, now) - Unit, at |-> now]

Before(s, at) == IF bucket[s] # NoBucket /\ at < bucket[s].at THEN bucket[s].at - at ELSE 0

\* the whole seconds after which a token certainly exists, at least one
Wait(s, now) ==
  LET short == Unit - TokensAt(s, now)
  IN  IF short <= Rate THEN 1 ELSE (short + Rate - 1) \div Rate
---------------------------------------------------------------------------
Arrive(c) ==
  /\ moment[c] = Nothing /\ moment' = [moment EXCEPT ![c] = clock]
  /\ UNCHANGED <<clock, bucket, advice, spent, regained>>

\* enforce_write_rate_limit: the principal's bucket, then the workspace's, in one transaction
\* that a refusal rolls back
Decide(c) ==
  LET now == moment[c]
      two == {PrincipalOf[c], Workspace}
      empty == {s \in two : TokensAt(s, now) < Unit}
      refuser == IF PrincipalOf[c] \in empty THEN PrincipalOf[c] ELSE Workspace
  IN  /\ now # Nothing
      /\ moment' = [moment EXCEPT ![c] = Nothing]
      /\ IF empty = {}
         THEN /\ bucket' = [s \in Scopes |-> IF s \in two THEN Charged(s, now) ELSE bucket[s]]
              /\ spent' = [s \in Scopes |-> IF s \in two THEN spent[s] + 1 ELSE spent[s]]
              /\ regained' = [s \in Scopes |-> regained[s] + Before(s, bucket'[s].at)]
              /\ advice' = [advice EXCEPT ![c] = NoAdvice]
         ELSE /\ advice' = [advice EXCEPT ![c] =
                   [scope |-> refuser, until |-> clock + Wait(refuser, now), spent |-> spent[refuser]]]
              /\ UNCHANGED <<bucket, spent, regained>>
      /\ UNCHANGED clock

\* prune_idle_buckets, in the purge worker
Prune ==
  /\ \E s \in Scopes : bucket[s] # NoBucket /\ bucket[s].at + IdleFor < clock
  /\ bucket' = [s \in Scopes |-> IF bucket[s] # NoBucket /\ bucket[s].at + IdleFor < clock
                                 THEN NoBucket ELSE bucket[s]]
  /\ UNCHANGED <<clock, moment, advice, spent, regained>>

Tick ==
  /\ clock < MaxClock /\ \A c \in Calls : moment[c] # Nothing => clock < moment[c] + Late
  /\ clock' = clock + 1 /\ UNCHANGED <<bucket, moment, advice, spent, regained>>

LimiterNext == (\E c \in Calls : Arrive(c) \/ Decide(c)) \/ Prune \/ Tick
LimiterSpec == LimiterInit /\ [][LimiterNext]_limiterVars
---------------------------------------------------------------------------
\* The sustained rate as the limiter states it: no principal and no workspace is ever admitted
\* more often than its burst and what has come back since.
RateHolds == \A s \in Scopes : spent[s] * Unit <= Capacity(s) + clock * Rate

\* What the limiter does keep, whatever the others do, what is refused, which idle bucket is
\* pruned, and however charges overtake one another: beyond the burst and what came back nobody
\* is admitted for more than the time that late charges gave a bucket a second time, and each
\* gives no more than it was late.  Where no charge is late this is the sustained rate.
RateAccounted ==
  \A s \in Scopes : /\ spent[s] * Unit <= Capacity(s) + (clock + regained[s]) * Rate
                    /\ regained[s] <= Late * spent[s]

\* Retry-After is advice that holds: a refused call that waits, from its answer on, as long as it
\* was told finds a token in the bucket that refused it, unless another call has taken it.
AdviceHolds ==
  \A c \in Calls : LET told == advice[c]
                   IN  told # NoAdvice /\ spent[told.scope] = told.spent
                         => TokensAt(told.scope, told.until) >= Unit

\* The limiter accounts for every admission and its advice is true.
LimiterHolds == LimiterTypeOK /\ RateAccounted /\ AdviceHolds
=============================================================================
