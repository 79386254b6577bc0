------------------------- MODULE GithubPublication -------------------------
(***************************************************************************)
(* Publishing one run's result as a GitHub check: repository bindings, the *)
(* previews an owner approves, the one-shot publication slot, the single   *)
(* create call with its temporary token, the receipt, and the webhook      *)
(* receiver that can only take access away.  One run, one App and one      *)
(* repository are followed; a binding may be revoked and made again, a     *)
(* preview drawn again, the run deleted, and several operator processes    *)
(* may publish at once and die anywhere.                                   *)
(*                                                                         *)
(* A preview's content is what can make it stale: its binding and the      *)
(* status of the run.  `withdrawn` and `denied` are history: the previews  *)
(* whose permission was taken away before a slot was reserved for them,    *)
(* and whether the receiver has acknowledged a removal to GitHub.          *)
(***************************************************************************)
EXTENDS Naturals, Sequences

CONSTANTS Owners, Bindings, Previews, Publishers,
  Deliveries, Denials,  \* delivery ids, and the signed bodies that remove or suspend access
  Watched, NoOne

\* The receiver is configured with a binding, and NoOne is nobody.
ASSUME GithubAssumption == Watched \in Bindings /\ NoOne \notin Owners \cup Previews

VARIABLES
  owners,     \* those with a live membership, account and session
  runState,     \* the run's status, or "deleted"
  retained,   \* its evidence is still PROMOTED, RETAINED and readable
  binding,    \* github_repository_binding
  connector,  \* where each owner's connect_repository is
  preview,    \* github_publication_preview
  publishApproval,   \* the GITHUB_PUBLISH approval of each preview: its id is derived from the preview
  slot,       \* github_publication_intent
  receipt,    \* github_publication_receipt
  publisher,  \* one publish_preview call in each operator process
  access,     \* GitHub: the App may use the repository
  checks,     \* GitHub: the check runs created
  alias,      \* github_webhook_delivery: the body each delivery id was seen with
  withdrawn, denied

githubVars == <<owners, runState, retained, binding, connector, preview, publishApproval, slot, receipt,
                publisher, access, checks, alias, withdrawn, denied>>
local == <<owners, runState, retained>>
consent == <<binding, connector, preview, publishApproval>>
remote == <<access, checks>>
ingress == <<alias, denied>>
output == <<slot, receipt, publisher>>

NoPreview == [binding |-> NoOne, status |-> "none"]
NoSlot == [preview |-> NoOne, by |-> NoOne]
NoReceipt == [preview |-> NoOne, revoked |-> FALSE]
NotPublishing == [at |-> "idle", preview |-> NoOne, status |-> "none", by |-> NoOne, token |-> FALSE]
Bodies == {"push"} \cup Denials

GithubTypeOK ==
  /\ owners \subseteq Owners
  /\ runState \in {"RUNNING", "COMPLETED", "deleted"} /\ retained \in BOOLEAN
  /\ binding \in [Bindings -> {"none", "live", "revoked"}]
  /\ connector \in [Owners -> {"idle", "probed"}]
  /\ preview \in [Previews -> [binding : Bindings, status : {"RUNNING", "COMPLETED"}] \cup {NoPreview}]
  /\ publishApproval \in [Previews -> [state : {"none", "live", "revoked", "expired"}, by : Owners \cup {NoOne}]]
  /\ slot \in [preview : Previews, by : Publishers] \cup {NoSlot}
  /\ receipt \in [preview : Previews, revoked : BOOLEAN] \cup {NoReceipt}
  /\ publisher \in [Publishers ->
       [at : {"rechecked", "inspected", "verified", "reserved", "created", "closing", "closed"},
        preview : Previews, status : {"RUNNING", "COMPLETED"}, by : Owners, token : BOOLEAN] \cup {NotPublishing}]
  /\ access \in BOOLEAN
  /\ checks \in Seq([preview : Previews, by : Publishers])
  /\ alias \in [Deliveries -> Bodies \cup {"none"}]
  /\ withdrawn \subseteq Previews /\ denied \in BOOLEAN

GithubInit ==
  /\ owners = Owners /\ runState = "RUNNING" /\ retained = TRUE
  /\ binding = [b \in Bindings |-> "none"] /\ connector = [u \in Owners |-> "idle"]
  /\ preview = [p \in Previews |-> NoPreview]
  /\ publishApproval = [p \in Previews |-> [state |-> "none", by |-> NoOne]]
  /\ slot = NoSlot /\ receipt = NoReceipt /\ publisher = [o \in Publishers |-> NotPublishing]
  /\ access = TRUE /\ checks = <<>>
  /\ alias = [d \in Deliveries |-> "none"]
  /\ withdrawn = {} /\ denied = FALSE

\* _authorize: membership, account and session, read and locked in the transaction
Authorized(u) == u \in owners
LiveBinding == \E b \in Bindings : binding[b] = "live"
\* preview_check: what the request to GitHub is made of
Drawn(b) == [binding |-> b, status |-> runState]
\* mutant: the stored preview is trusted without drawing it again
Stored(p) == preview[p] # NoPreview
\* prepare_check_preview, drawn again and compared with the stored preview
Current(p) == /\ preview[p] # NoPreview
              /\ binding[preview[p].binding] = "live"
              /\ preview[p] = Drawn(preview[p].binding)
\* UNIQUE(workspace_id, app_id, repository_id, run_id)
Unreserved(p) == slot = NoSlot
Withdraw(ps) == withdrawn' = withdrawn \cup (ps \ {slot.preview})
On(bs) == {p \in Previews : preview[p] # NoPreview /\ preview[p].binding \in bs}
---------------------------------------------------------------------------
(* Connections, previews and approvals. *)
\* connect_repository up to inspect_repository's answer
ProbeRepository(u) ==
  /\ connector[u] = "idle" /\ Authorized(u) /\ ~ LiveBinding /\ access
  /\ connector' = [connector EXCEPT ![u] = "probed"]
  /\ UNCHANGED <<local, binding, preview, publishApproval, output, remote, ingress, withdrawn>>

\* the partial unique index admits one live binding of the repository
RecordBinding(u) ==
  /\ connector[u] = "probed"
  /\ connector' = [connector EXCEPT ![u] = "idle"]
  /\ IF Authorized(u) /\ ~ LiveBinding
     THEN \E b \in Bindings : binding[b] = "none" /\ binding' = [binding EXCEPT ![b] = "live"]
     ELSE UNCHANGED binding
  /\ UNCHANGED <<local, preview, publishApproval, output, remote, ingress, withdrawn>>

Disconnect(u, b) ==
  /\ Authorized(u) /\ binding[b] = "live"
  /\ binding' = [binding EXCEPT ![b] = "revoked"] /\ Withdraw(On({b}))
  /\ UNCHANGED <<local, connector, preview, publishApproval, output, remote, ingress>>

StorePreview(u, p, b) ==
  /\ Authorized(u) /\ binding[b] = "live" /\ runState # "deleted" /\ preview[p] = NoPreview
  /\ preview' = [preview EXCEPT ![p] = Drawn(b)]
  /\ UNCHANGED <<local, binding, connector, publishApproval, output, remote, ingress, withdrawn>>

ApprovePreview(u, p) ==
  /\ Authorized(u) /\ Current(p) /\ publishApproval[p].state = "none"
  /\ publishApproval' = [publishApproval EXCEPT ![p] = [state |-> "live", by |-> u]]
  /\ UNCHANGED <<local, binding, connector, preview, output, remote, ingress, withdrawn>>

EndApproval(p, how) ==
  /\ publishApproval[p].state = "live"
  /\ publishApproval' = [publishApproval EXCEPT ![p].state = how] /\ Withdraw({p})
  /\ UNCHANGED <<local, binding, connector, preview, output, remote, ingress>>
RevokePreviewApproval(u, p) == Authorized(u) /\ EndApproval(p, "revoked")
ApprovalExpires(p) == EndApproval(p, "expired")
---------------------------------------------------------------------------
(* publish_preview in one operator process.                                *)
At(o, at) == publisher[o].at = at
Move(o, at) == publisher' = [publisher EXCEPT ![o].at = at]
Asks(o) == publisher[o].preview

\* github_operator.main, before it loads the App's key
OperatorAdmits(u, p) == Authorized(u) /\ preview[p] # NoPreview

RecheckPreview(o, u, p) ==
  /\ At(o, "idle") /\ OperatorAdmits(u, p) /\ Current(p) /\ Unreserved(p)
  /\ publisher' = [publisher EXCEPT ![o] = [at |-> "rechecked", preview |-> p,
       status |-> preview[p].status, by |-> u, token |-> FALSE]]
  /\ UNCHANGED <<local, consent, slot, receipt, remote, ingress, withdrawn>>

\* _repository_operation up to authorize(): the installation is inspected, a token issued, and
\* repository, commit and installation inspected again; a token it holds it goes on to revoke
InspectRemote(o) ==
  /\ At(o, "rechecked")
  /\ \/ access /\ publisher' = [publisher EXCEPT ![o].at = "inspected", ![o].token = TRUE]
     \/ access /\ publisher' = [publisher EXCEPT ![o].at = "closing", ![o].token = TRUE]
     \/ publisher' = [publisher EXCEPT ![o] = NotPublishing]
  /\ UNCHANGED <<local, consent, slot, receipt, remote, ingress, withdrawn>>

\* _verify_retained, in a transaction of its own that ends before the reservation
VerifyRetained(o) ==
  /\ At(o, "inspected")
  /\ IF /\ Authorized(publisher[o].by)
        /\ publisher[o].status = "COMPLETED" => runState # "deleted" /\ retained
     THEN Move(o, "verified") ELSE Move(o, "closing")
  /\ UNCHANGED <<local, consent, slot, receipt, remote, ingress, withdrawn>>

Reservable(o) ==
  LET p == Asks(o)
  IN  /\ Authorized(publisher[o].by) /\ Current(p) /\ Unreserved(p)
      /\ publishApproval[p] = [state |-> "live", by |-> publisher[o].by]

\* reserve_publication: a commit whose answer is lost leaves the slot and refuses the call
ReserveCheck(o) ==
  /\ At(o, "verified")
  /\ \/ /\ Reservable(o)
        /\ slot' = [preview |-> Asks(o), by |-> o]
        /\ Move(o, "reserved") \/ Move(o, "closing")
     \/ Move(o, "closing") /\ UNCHANGED slot
  /\ UNCHANGED <<local, consent, receipt, remote, ingress, withdrawn>>

\* the one POST: refused, created, or created with an answer that never arrives
CreateCheck(o) ==
  /\ At(o, "reserved")
  /\ \/ /\ access
        /\ checks' = Append(checks, [preview |-> Asks(o), by |-> o])
        /\ Move(o, "created") \/ Move(o, "closing")
     \/ Move(o, "closing") /\ UNCHANGED checks
  /\ UNCHANGED <<local, consent, slot, receipt, access, ingress, withdrawn>>

\* finally: DELETE /installation/token; its failure hides the answer of the create
RevokeToken(o) ==
  /\ At(o, "created") \/ At(o, "closing")
  /\ publisher' = [publisher EXCEPT ![o] = IF At(o, "created") THEN [@ EXCEPT !.at = "closed", !.token = FALSE]
                                           ELSE NotPublishing]
  /\ UNCHANGED <<local, consent, slot, receipt, remote, ingress, withdrawn>>

RecordReceipt(o) ==
  /\ At(o, "closed")
  /\ receipt' = IF slot.preview = Asks(o) /\ receipt = NoReceipt
                THEN [preview |-> Asks(o), revoked |-> ~ publisher[o].token] ELSE receipt
  /\ publisher' = [publisher EXCEPT ![o] = NotPublishing]
  /\ UNCHANGED <<local, consent, slot, remote, ingress, withdrawn>>

\* an exception or the end of the process: PublicationUnconfirmed, and never a second try
Abandon(o) ==
  /\ publisher[o] # NotPublishing /\ publisher' = [publisher EXCEPT ![o] = NotPublishing]
  /\ UNCHANGED <<local, consent, slot, receipt, remote, ingress, withdrawn>>

\* read_publication_state
RecoveredState(p) ==
  IF slot.preview = p \/ (preview[p] # NoPreview /\ slot # NoSlot) THEN "RECORDED" ELSE "NOT_OBSERVED"
---------------------------------------------------------------------------
(* The webhook receiver, configured for one binding.  GitHub may deliver a *)
(* body late, again, or again under another delivery id.                   *)
\* record_authenticated: a delivery id keeps the first body it was seen with
Aliased(d, body) == alias[d] \in {"none", body}

\* receive: a receipt, for a live binding only
ReceivePush(d) ==
  /\ binding[Watched] = "live" /\ Aliased(d, "push")
  /\ alias' = [alias EXCEPT ![d] = "push"]
  /\ UNCHANGED <<local, consent, output, remote, denied, withdrawn>>

\* create_receiver: a committed denial is answered 202, or the answer is lost
GithubAnswer == denied' \in {denied, TRUE}

\* receive_repository_removal, receive_installation_suspension: _revoke_binding in one
\* transaction with the receipt
ReceiveDenial(d, body) ==
  /\ binding[Watched] # "none" /\ Aliased(d, body)
  /\ alias' = [alias EXCEPT ![d] = body]
  /\ binding' = [binding EXCEPT ![Watched] = "revoked"]
  /\ Withdraw(On({Watched}))
  /\ GithubAnswer
  /\ UNCHANGED <<local, connector, preview, publishApproval, output, remote>>
---------------------------------------------------------------------------
(* The rest of the world. *)
\* the App is suspended or the repository removed, and given back
AccessChanges ==
  /\ access' = ~ access
  /\ UNCHANGED <<local, consent, output, checks, ingress, withdrawn>>

OwnerLeaves(u) ==
  /\ u \in owners /\ owners' = owners \ {u}
  /\ Withdraw({p \in Previews : publishApproval[p].by = u})
  /\ UNCHANGED <<runState, retained, consent, output, remote, ingress>>

RunCompletes ==
  /\ runState = "RUNNING" /\ runState' = "COMPLETED"
  /\ Withdraw({p \in Previews : preview[p] # NoPreview})
  /\ UNCHANGED <<owners, retained, consent, output, remote, ingress>>

EvidenceExpires ==
  /\ retained /\ runState = "COMPLETED" /\ retained' = FALSE
  /\ UNCHANGED <<owners, runState, consent, output, remote, ingress, withdrawn>>

\* the previews go with the run; the slot has no foreign key to it
DeleteRun ==
  /\ runState # "deleted" /\ runState' = "deleted"
  /\ preview' = [p \in Previews |-> NoPreview] /\ Withdraw({p \in Previews : preview[p] # NoPreview})
  /\ UNCHANGED <<owners, retained, binding, connector, publishApproval, output, remote, ingress>>

GithubNext ==
  \/ \E u \in Owners :
       \/ ProbeRepository(u) \/ RecordBinding(u) \/ OwnerLeaves(u)
       \/ \E b \in Bindings : Disconnect(u, b) \/ \E p \in Previews : StorePreview(u, p, b)
       \/ \E p \in Previews : \/ ApprovePreview(u, p) \/ RevokePreviewApproval(u, p)
                             \/ \E o \in Publishers : RecheckPreview(o, u, p)
  \/ \E p \in Previews : ApprovalExpires(p)
  \/ \E o \in Publishers :
       \/ InspectRemote(o) \/ VerifyRetained(o) \/ ReserveCheck(o) \/ CreateCheck(o)
       \/ RevokeToken(o) \/ RecordReceipt(o) \/ Abandon(o)
  \/ \E d \in Deliveries : ReceivePush(d) \/ \E body \in Denials : ReceiveDenial(d, body)
  \/ AccessChanges \/ RunCompletes \/ EvidenceExpires \/ DeleteRun

GithubSpec == GithubInit /\ [][GithubNext]_githubVars
---------------------------------------------------------------------------
\* However many previews, bindings, operators and retries, and whatever answer is lost,
\* GitHub holds at most one check created for the run (publish_preview, reserve_publication).
OneCheckPerRun == Len(checks) <= 1

\* A preview whose approval, binding, owner or run was taken away before its slot was
\* reserved is never published, though the publisher had already rechecked it.
WithdrawnIsNeverPublished == \A i \in DOMAIN checks : checks[i].preview \notin withdrawn

\* What GitHub holds can be found again from the preview that asked for it, and a receipt
\* is kept only for a check that was created and whose token is known to be revoked.
PublicationIsAccountable ==
  /\ \A i \in DOMAIN checks : RecoveredState(checks[i].preview) = "RECORDED"
  /\ receipt # NoReceipt =>
       /\ receipt.revoked /\ slot.preview = receipt.preview
       /\ \E i \in DOMAIN checks : checks[i].preview = receipt.preview /\ checks[i].by = slot.by

\* A removal or suspension acknowledged to GitHub has revoked the binding, for good, in
\* whatever order deliveries arrive and however often they are repeated.
DenialsHold == denied => binding[Watched] = "revoked"

\* One check per run, of a preview nobody withdrew, that can be accounted for, and none
\* through a binding GitHub itself denied.
PublicationIsSafe ==
  GithubTypeOK /\ OneCheckPerRun /\ WithdrawnIsNeverPublished /\ PublicationIsAccountable /\ DenialsHold
=============================================================================
