-------------------------- MODULE WorkspaceAccess --------------------------
(***************************************************************************)
(* Who may act in a workspace: accounts and their GitHub bindings, browser *)
(* sessions, memberships and the invitations that create them.             *)
(*                                                                         *)
(* A request resolves its session and reads the caller's membership when   *)
(* it starts (AuthorizeMemberChange, ReviewOffer) and decides later, under *)
(* the workspace row's lock (Decide...).  Both belong to one READ COMMITTED*)
(* transaction: between them other requests, the operator and the clock    *)
(* may move.  What the transaction holds from its first step is modelled   *)
(* by BoundRequest and Shared: the session row it touched and, for a       *)
(* GitHub session, the binding and account rows it read FOR SHARE.         *)
(***************************************************************************)
EXTENDS Naturals, FiniteSets, FiniteSetsExt

CONSTANTS
  Users,         \* local accounts, existing or still to be created
  Founder,       \* the account provision_workspace makes the first owner
  Subjects,      \* GitHub numeric identities
  Offers,        \* invitation ids
  Browsers,      \* browsers that run the GitHub login
  Roles,         \* the roles decisions name, "OWNER" among them
  Nobody,        \* no user, no subject, no offer
  Slots,         \* room for the sessions usable at one time (a bound)
  MaxRevision    \* bound on the revisions of all memberships together

ASSUME AccessAssumption ==
  /\ Founder \in Users
  /\ "OWNER" \in Roles
  /\ Nobody \notin Users \cup Subjects \cup Offers
  /\ MaxRevision \in Nat \ {0}

VARIABLES
  account,   \* app_user: absent, enabled or disabled
  binding,   \* github_user_identity: the user a subject is bound to, revoked or not
  member,    \* workspace_membership: role, revoked_at, revision (0: no row)
  offer,     \* membership_invitation rows
  sessions,  \* usable user_session rows, each with its request in flight
  login      \* per browser: the consumed challenge, with the offer it may create an
             \* account for

accessVars == <<account, binding, member, offer, sessions, login>>

NoRequest == [kind |-> "none"]
NoSession == [user |-> Nobody, subject |-> Nobody, proof |-> Nobody, state |-> "none",
              request |-> NoRequest]
NoOffer == [state |-> "none", subject |-> Nobody, role |-> "none", by |-> Nobody,
            expired |-> FALSE]
PendingDecision ==
  {NoRequest}
    \cup [kind : {"member"}, target : Users, role : Roles \cup {"none"},
          expected : Nat]
    \cup [kind : {"accept"}, offer : Offers]

AccessTypeOK ==
  /\ account \in [Users -> {"absent", "enabled", "disabled"}]
  /\ binding \in [Subjects -> [user : Users \cup {Nobody}, revoked : BOOLEAN]]
  /\ member \in [Users -> [role : Roles \cup {"none"}, revoked : BOOLEAN,
                           revision : Nat]]
  /\ offer \in [Offers -> [state : {"none", "pending", "revoked", "accepted"},
                           subject : Subjects \cup {Nobody}, role : Roles \cup {"none"},
                           by : Users \cup {Nobody}, expired : BOOLEAN]]
  /\ sessions \in [Slots -> [user : Users \cup {Nobody}, subject : Subjects \cup {Nobody},
                            proof : Subjects \cup {Nobody},
                            state : {"none", "live", "ended"}, request : PendingDecision]]
  /\ login \in [Browsers -> Offers \cup {Nobody}]

-----------------------------------------------------------------------------
(* Accounts and the operator's commands.                                   *)

\* provision_workspace: one user, one workspace, one OWNER membership; or the state some
\* time later, when others have joined through offers long spent.
AccessInit ==
  \E joined \in {f \in [Subjects -> (Users \ {Founder}) \cup {Nobody}] :
                   \A s, t \in Subjects : f[s] = f[t] => s = t \/ f[s] = Nobody} :
    LET early == {joined[s] : s \in Subjects} \ {Nobody} IN
    /\ account = [u \in Users |-> IF u \in early \cup {Founder} THEN "enabled" ELSE "absent"]
    /\ binding = [s \in Subjects |-> [user |-> joined[s], revoked |-> FALSE]]
    /\ member \in [Users -> [role : Roles \cup {"none"}, revoked : {FALSE}, revision : 0 .. 1]]
    /\ member[Founder] = [role |-> "OWNER", revoked |-> FALSE, revision |-> 1]
    /\ \A u \in Users : /\ member[u].revision = 1 <=> u \in early \cup {Founder}
                        /\ member[u].role = "none" <=> member[u].revision = 0
    /\ offer = [i \in Offers |-> NoOffer]
    /\ sessions = [k \in Slots |-> NoSession]
    /\ login = [b \in Browsers |-> Nobody]

Unbound(s) == binding[s].user = Nobody
BoundTo(s, u) == binding[s] = [user |-> u, revoked |-> FALSE]
HasBinding(u) == \E s \in Subjects : binding[s].user = u

\* bind_account: an unbound subject, an enabled account without a binding.
BindAccount(s, u) ==
  /\ Unbound(s) /\ account[u] = "enabled" /\ ~HasBinding(u)
  /\ binding' = [binding EXCEPT ![s].user = u]
  /\ UNCHANGED <<account, member, offer, sessions, login>>

\* A request that resolved a GitHub session holds its binding and account FOR SHARE.
BoundRequest(k) == sessions[k].subject # Nobody /\ sessions[k].request # NoRequest
Shared(s) == \E k \in Slots : BoundRequest(k) /\ sessions[k].subject = s

\* A row that is revoked or expired is of no further use once no request holds it.
Settled(row) == IF row.state # "live" /\ row.request = NoRequest THEN NoSession ELSE row
Ended(row) == Settled([row EXCEPT !.state = "ended"])

\* revoke_binding: for good, and every session issued for that subject with it.
RevokeBinding(s) ==
  /\ ~Unbound(s) /\ ~binding[s].revoked /\ ~Shared(s)
  /\ binding' = [binding EXCEPT ![s].revoked = TRUE]
  /\ sessions' = [k \in Slots |-> IF sessions[k].subject = s THEN Ended(sessions[k])
                                  ELSE sessions[k]]
  /\ UNCHANGED <<account, member, offer, login>>

\* Nothing in the product writes disabled_at; an operator does, and every check reads it.
DisableAccount(u) ==
  /\ account[u] = "enabled"
  /\ \A k \in Slots : BoundRequest(k) => sessions[k].user # u
  /\ account' = [account EXCEPT ![u] = "disabled"]
  /\ UNCHANGED <<binding, member, offer, sessions, login>>

-----------------------------------------------------------------------------
(* Sessions.                                                               *)

\* Mutant: a session whose account was proved by a subject forgets which.
IssueUnbound(rows, k, u, s, p) ==
  [rows EXCEPT ![k] = [user |-> u, subject |-> Nobody, proof |-> p, state |-> "live",
                       request |-> NoRequest]]

\* issue_session; `proof` remembers, for the properties, what the chain of rotations
\* began with.
Issue(rows, k, u, s, p) ==
  [rows EXCEPT ![k] = [user |-> u, subject |-> s, proof |-> p, state |-> "live",
                       request |-> NoRequest]]

Free(k) == sessions[k] = NoSession

\* sign_in: the local-development bridge, an enabled account and no secret.
SignIn(k, u) ==
  /\ Free(k) /\ account[u] = "enabled"
  /\ sessions' = Issue(sessions, k, u, Nobody, Nobody)
  /\ UNCHANGED <<account, binding, member, offer, login>>

Enabled(u) == account[u] = "enabled"

\* resolve_session; the row it touches stays locked, so a session has one request.
Resolved(k) ==
  /\ sessions[k].state = "live" /\ sessions[k].request = NoRequest
  /\ sessions[k].subject # Nobody
       => BoundTo(sessions[k].subject, sessions[k].user) /\ Enabled(sessions[k].user)

SignOut(k) ==
  /\ Resolved(k)
  /\ sessions' = [sessions EXCEPT ![k] = Ended(@)]
  /\ UNCHANGED <<account, binding, member, offer, login>>

ExpireSession(k) ==
  /\ sessions[k].state = "live"
  /\ sessions' = [sessions EXCEPT ![k] = Ended(@)]
  /\ UNCHANGED <<account, binding, member, offer, login>>

-----------------------------------------------------------------------------
(* The GitHub browser login.                                               *)

\* github_login_start and github_login_callback up to the exchange.  The challenge binds
\* the browser, the verifier and the invitation the login continues to; consume_challenge
\* spends it once and commits.  c is the offer a new account is asked for; a login that
\* asks for none issues what a login naming an offer that is not pending issues.
GithubLogin(b, c) ==
  /\ login[b] = Nobody
  /\ login' = [login EXCEPT ![b] = c]
  /\ UNCHANGED <<account, binding, member, offer, sessions>>

\* The exchange fails, or GitHub answered the callback with an error.
LoginEnds(b) ==
  /\ login[b] # Nobody
  /\ login' = [login EXCEPT ![b] = Nobody]
  /\ UNCHANGED <<account, binding, member, offer, sessions>>

LiveMember(u) == member[u].revision > 0 /\ ~member[u].revoked /\ Enabled(u)

\* The one question every decision asks after it took the workspace lock.
LiveOwner(u) == LiveMember(u) /\ member[u].role = "OWNER"

Pending(i) == offer[i].state = "pending"

\* _provision_invited: a new account for a subject with no binding, on a live offer.
Provisions(s, i, u) ==
  /\ Unbound(s) /\ account[u] = "absent"
  /\ Pending(i) /\ offer[i].subject = s /\ ~offer[i].expired
  /\ LiveOwner(offer[i].by)

\* issue_github_session for the subject GitHub named.
IssueGithubSession(b, k, s, u) ==
  /\ Free(k) /\ login[b] # Nobody
  /\ \/ BoundTo(s, u) /\ Enabled(u) /\ UNCHANGED <<account, binding>>
     \/ /\ Provisions(s, login[b], u)
        /\ account' = [account EXCEPT ![u] = "enabled"]
        /\ binding' = [binding EXCEPT ![s].user = u]
  /\ sessions' = Issue(sessions, k, u, s, s)
  /\ login' = [login EXCEPT ![b] = Nobody]
  /\ UNCHANGED <<member, offer>>

-----------------------------------------------------------------------------
(* Requests: what they read first, and what they decide.                   *)

Began(k, r) == sessions' = [sessions EXCEPT ![k].request = r]
Answered(k) == sessions' = [sessions EXCEPT ![k] = Settled([@ EXCEPT !.request = NoRequest])]

\* build_context, then permits(MEMBERSHIP_ADMINISTER) of the role it read.
MayAdminister(k) == Resolved(k) /\ LiveOwner(sessions[k].user)

\* update_member up to change_membership; If-Match carries the revision last read.
AuthorizeMemberChange(k, u, role) ==
  /\ MayAdminister(k) /\ member[u].revision > 0 /\ Enabled(u)
  /\ Began(k, [kind |-> "member", target |-> u, role |-> role,
               expected |-> member[u].revision])
  /\ UNCHANGED <<account, binding, member, offer, login>>

\* membership_invitations._change with create_invitation or revoke_invitation.  The
\* decision under the lock asks everything the route asked before it, so the request is
\* one step; an expired offer may still be withdrawn.
Invite(k, i, s, role) ==
  /\ MayAdminister(k) /\ offer[i].state = "none"
  /\ offer' = [offer EXCEPT ![i] = [state |-> "pending", subject |-> s, role |-> role,
                                    by |-> sessions[k].user, expired |-> FALSE]]
  /\ UNCHANGED <<account, binding, member, sessions, login>>

Withdraw(k, i) ==
  /\ MayAdminister(k) /\ Pending(i)
  /\ offer' = [offer EXCEPT ![i].state = "revoked"]
  /\ UNCHANGED <<account, binding, member, sessions, login>>

\* accept_offer up to the transaction: a GitHub session and the offer made to it.
ReviewOffer(k, i) ==
  /\ Resolved(k) /\ sessions[k].subject # Nobody
  /\ offer[i].state # "none" /\ offer[i].subject = sessions[k].subject
  /\ Began(k, [kind |-> "accept", offer |-> i])
  /\ UNCHANGED <<account, binding, member, offer, login>>

Active(u) == member[u].revision > 0 /\ ~member[u].revoked
LiveOwners == {u \in Users : LiveOwner(u)}

\* Within the bound on revisions, which the code does not have.
MoreRevisions == MapThenSumSet(LAMBDA v : member[v].revision, Users) < MaxRevision

\* change_membership under the workspace lock; the role "none" revokes.
Decided(actor, u, role, expected) ==
  /\ LiveOwner(actor) /\ Enabled(u)
  /\ member[u].revision = expected
  /\ MoreRevisions
  /\ IF Active(u) THEN role # member[u].role ELSE role # "none"
  /\ Active(u) /\ member[u].role = "OWNER" /\ role # "OWNER" => Cardinality(LiveOwners) > 1

Changed(u, role) ==
  [member EXCEPT ![u] = [role |-> IF role = "none" THEN @.role ELSE role,
                         revoked |-> role = "none", revision |-> @.revision + 1]]

DecideMemberChange(k) ==
  LET r == sessions[k].request IN
  /\ r.kind = "member"
  /\ IF Decided(sessions[k].user, r.target, r.role, r.expected)
     THEN member' = Changed(r.target, r.role) ELSE UNCHANGED member
  /\ Answered(k)
  /\ UNCHANGED <<account, binding, offer, login>>

ExpireOffer(i) ==
  /\ Pending(i) /\ ~offer[i].expired
  /\ offer' = [offer EXCEPT ![i].expired = TRUE]
  /\ UNCHANGED <<account, binding, member, sessions, login>>

\* accept_invitation grants a first membership only.
FirstRevision(u) == 0

Acceptable(k, i) ==
  LET u == sessions[k].user IN
  /\ Pending(i) /\ ~offer[i].expired
  /\ BoundTo(sessions[k].subject, u) /\ offer[i].subject = sessions[k].subject
  /\ Decided(offer[i].by, u, offer[i].role, FirstRevision(u))
  /\ sessions[k].state = "live"

\* accept_invitation and rotate_session, one savepoint: either all of it or nothing.
\* The rotated session takes the place of the one it revokes.
DecideAcceptance(k) ==
  LET row == sessions[k]  i == row.request.offer IN
  /\ row.request.kind = "accept"
  /\ IF Acceptable(k, i)
     THEN /\ member' = Changed(row.user, offer[i].role)
          /\ offer' = [offer EXCEPT ![i].state = "accepted"]
          /\ sessions' = Issue(sessions, k, row.user, row.subject, row.proof)
     ELSE Answered(k) /\ UNCHANGED <<member, offer>>
  /\ UNCHANGED <<account, binding, login>>

-----------------------------------------------------------------------------
SessionStep(k) ==
  \/ SignOut(k) \/ ExpireSession(k)
  \/ \E u \in Users, role \in Roles \cup {"none"} : AuthorizeMemberChange(k, u, role)
  \/ \E i \in Offers, s \in Subjects, role \in Roles : Invite(k, i, s, role)
  \/ \E i \in Offers : Withdraw(k, i) \/ ReviewOffer(k, i)
  \/ DecideMemberChange(k) \/ DecideAcceptance(k)

LoginStep(b) ==
  \/ \E c \in Offers : GithubLogin(b, c)
  \/ LoginEnds(b)
  \/ \E k \in Slots, s \in Subjects, u \in Users : IssueGithubSession(b, k, s, u)

AccessNext ==
  \/ \E k \in Slots : SessionStep(k)
  \/ \E b \in Browsers : LoginStep(b)
  \/ \E i \in Offers : ExpireOffer(i)
  \/ \E u \in Users : DisableAccount(u) \/ \E k \in Slots : SignIn(k, u)
  \/ \E s \in Subjects : RevokeBinding(s) \/ \E u \in Users : BindAccount(s, u)

AccessSpec == AccessInit /\ [][AccessNext]_accessVars

-----------------------------------------------------------------------------
(* Properties.                                                             *)

\* Who the tables make an owner who can sign in, read apart from the code's own question.
OwnsNow(u) ==
  /\ account[u] = "enabled"
  /\ member[u].revision > 0 /\ ~member[u].revoked /\ member[u].role = "OWNER"
OwnersNow == {u \in Users : OwnsNow(u)}


\* A session that began with a GitHub identity, through any number of rotations, is not
\* usable once that identity's binding is revoked, and always belongs to the bound user:
\* revoke_binding "permanently revoke[s] this binding and its sessions" although logins,
\* acceptances and rotations may be under way.
SessionsFollowIdentity ==
  \A k \in Slots :
    sessions[k].state = "live" /\ sessions[k].proof # Nobody
      => BoundTo(sessions[k].proof, sessions[k].user)

\* No sequence of decisions, however they cross, leaves a workspace that had an owner who
\* can sign in without one; only disabling an account can.
OwnershipSurvivesDecisions ==
  [][account' = account /\ OwnersNow # {} => OwnersNow' # {}]_accessVars

\* Whoever was removed comes back only by an owner's own decision about them: an offer
\* they hold, made before or after, gives a first membership and never a second one.
RemovedStayOut ==
  [][\A u \in Users :
       member[u].revoked /\ ~member'[u].revoked
         => /\ offer' = offer
            /\ \E k \in Slots :
                 /\ sessions[k].request # NoRequest /\ sessions[k].request.kind = "member"
                 /\ OwnsNow(sessions[k].user) /\ sessions[k].request.target = u]_accessVars

\* Every membership that changes does so under somebody who is an owner at that moment:
\* the requester who was an owner when the request began, or the issuer of an offer made
\* long before, may have been demoted, removed or disabled since.
DecidedByLiveOwners ==
  [][\A u \in Users :
       member'[u] # member[u]
         => \E k \in Slots :
              /\ sessions[k].request # NoRequest /\ sessions'[k].request = NoRequest
              /\ OwnsNow(IF sessions[k].request.kind = "accept"
                           THEN offer[sessions[k].request.offer].by
                           ELSE sessions[k].user)]_accessVars

\* Access follows people: sessions their identity, memberships the owners of the moment, and
\* the workspace is never left without an owner by a decision.
AccessIsGoverned ==
  /\ [](AccessTypeOK /\ SessionsFollowIdentity)
  /\ OwnershipSurvivesDecisions /\ RemovedStayOut /\ DecidedByLiveOwners
=============================================================================
