---------------------------- MODULE OutboxDelivery ----------------------------
(***************************************************************************)
(* From a committed run transition to a consumer that acted on it: the     *)
(* outbox row written in the transition's transaction, publish_once calls  *)
(* that claim, send and acknowledge it, and consume_once calls that handle *)
(* a delivery before they delete it.  Any caller may die at any point and  *)
(* every reply may be lost.                                                *)
(*                                                                         *)
(* claimed_by and attempts together name one claim: a call has its own     *)
(* worker id and never claims a message twice, so the claim is named here  *)
(* by the call.  A claim is live until the database clock passes           *)
(* claim_expires_at; a claimant compares with its own host's clock.        *)
(***************************************************************************)
EXTENDS Integers, FiniteSets

CONSTANTS
    Message,    \* transitions and the outbox rows that announce them
    Publisher,  \* calls of publish_once
    Consumer,   \* processes that call consume_once
    Limit,      \* publish_once's batch size
    Skewed,     \* whether a host's clock may run ahead of the database's
    MaxCopies   \* bound on deliveries of one message in the queue

ASSUME OutboxAssumption ==
    /\ Limit \in Nat /\ MaxCopies \in Nat
    /\ Skewed \in BOOLEAN
    /\ "NOBODY" \notin Publisher /\ "NO_MESSAGE" \notin Message

VARIABLES
    committed,  \* transitions whose transaction committed
    row,        \* outbox_message
    pub,        \* where each publish_once call is
    reported,   \* what each call counts as published
    copies,     \* deliveries waiting in the queue, in flight included
    con,        \* what each consumer works on
    handled     \* messages some handler committed authoritative work for

outboxVars == <<committed, row, pub, reported, copies, con, handled>>

Unclaimed    == "NOBODY"
NoMessage == "NO_MESSAGE"

\* STAGED: written by a transaction that has not committed.
OutboxRow == [state : {"NONE", "STAGED", "PENDING", "PUBLISHED"},
              owner : Publisher \cup {Unclaimed}, live : BOOLEAN]
Call      == [at : {"IDLE", "CLAIMED", "SENT", "OVER"}, msg : Message \cup {NoMessage},
              tried : SUBSET Message]
Work      == [at : {"IDLE", "HANDLING", "HANDLED"}, msg : Message \cup {NoMessage}]

OutboxInit ==
    /\ committed = {}
    /\ row = [m \in Message |-> [state |-> "NONE", owner |-> Unclaimed, live |-> FALSE]]
    /\ pub = [p \in Publisher |-> [at |-> "IDLE", msg |-> NoMessage, tried |-> {}]]
    /\ reported = [p \in Publisher |-> {}]
    /\ copies = [m \in Message |-> 0]
    /\ con = [c \in Consumer |-> [at |-> "IDLE", msg |-> NoMessage]]
    /\ handled = {}

-----------------------------------------------------------------------------
(* apply_transition                                                        *)

\* Mutant: the message is written on a connection of its own.
EnqueuedApart == "PENDING"

\* The row belongs to the transition's transaction.
Enqueued == "STAGED"

Stage(m) ==
    /\ row[m].state = "NONE"
    /\ row' = [row EXCEPT ![m].state = Enqueued]
    /\ UNCHANGED <<committed, pub, reported, copies, con, handled>>

Commit(m) ==
    /\ row[m].state = "STAGED"
    /\ row' = [row EXCEPT ![m].state = "PENDING"]
    /\ committed' = committed \cup {m}
    /\ UNCHANGED <<pub, reported, copies, con, handled>>

Rollback(m) ==
    /\ row[m].state = "STAGED"
    /\ row' = [row EXCEPT ![m].state = "NONE"]
    /\ UNCHANGED <<committed, pub, reported, copies, con, handled>>

-----------------------------------------------------------------------------
(* publish_once                                                            *)

Free(m) == row[m].owner = Unclaimed \/ ~row[m].live \/ Skewed

\* claim_messages with limit 1.  SKIP LOCKED passes over a row another call is
\* claiming or acknowledging, so any claimable row may be the one returned.
Claim(p, m) ==
    /\ pub[p].at = "IDLE"
    /\ m \notin pub[p].tried /\ Cardinality(pub[p].tried) < Limit
    /\ row[m].state = "PENDING" /\ Free(m)
    /\ row' = [row EXCEPT ![m].owner = p, ![m].live = TRUE]
    /\ pub' = [pub EXCEPT ![p] = [at |-> "CLAIMED", msg |-> m, tried |-> @.tried \cup {m}]]
    /\ UNCHANGED <<committed, reported, copies, con, handled>>

\* The database clock passes claim_expires_at.
Expire(m) ==
    /\ row[m].live
    /\ row' = [row EXCEPT ![m].live = FALSE]
    /\ UNCHANGED <<committed, pub, reported, copies, con, handled>>

\* The call turns to its next message.
DoneWith(p) == [pub EXCEPT ![p].at = "IDLE", ![p].msg = NoMessage]

\* Only a confirmed receipt leads to the acknowledgement.
AfterSend(p, outcome) ==
    IF outcome = "ACCEPTED" THEN [pub EXCEPT ![p].at = "SENT"] ELSE DoneWith(p)

\* transport.publish: accepted, accepted with the reply lost, or not accepted.
Send(p, outcome) ==
    LET m == pub[p].msg
    IN  /\ pub[p].at = "CLAIMED"
        /\ outcome # "REFUSED" => copies[m] < MaxCopies
        /\ copies' = [copies EXCEPT ![m] = IF outcome = "REFUSED" THEN @ ELSE @ + 1]
        /\ pub' = AfterSend(p, outcome)
        /\ UNCHANGED <<committed, row, reported, con, handled>>

\* Mutant: mark_published, which names the message and not the claim.
AcknowledgeById(p) == TRUE

\* The condition of the acknowledging UPDATE.
MayAcknowledge(p) ==
    LET m == pub[p].msg
    IN  row[m].state = "PENDING" /\ row[m].owner = p /\ row[m].live

\* The update, and the count it adds to: published or superseded.
Acknowledge(p) ==
    LET m == pub[p].msg
    IN  /\ pub[p].at = "SENT"
        /\ IF MayAcknowledge(p)
           THEN /\ row' = [row EXCEPT ![m].state = "PUBLISHED", ![m].live = FALSE]
                /\ reported' = [reported EXCEPT ![p] = @ \cup {m}]
           ELSE UNCHANGED <<row, reported>>
        /\ pub' = DoneWith(p)
        /\ UNCHANGED <<committed, copies, con, handled>>

\* The call returns or its process dies.
EndPublisher(p) ==
    /\ pub[p].at # "OVER"
    /\ pub' = [pub EXCEPT ![p] = [at |-> "OVER", msg |-> NoMessage, tried |-> {}]]
    /\ UNCHANGED <<committed, row, reported, copies, con, handled>>

-----------------------------------------------------------------------------
(* consume_once                                                            *)

NextDelivery(c) == [con EXCEPT ![c] = [at |-> "IDLE", msg |-> NoMessage]]

\* The queue may deliver again what another consumer is still working on.
Receive(c, m) ==
    /\ con[c].at = "IDLE"
    /\ copies[m] > 0
    /\ con' = [con EXCEPT ![c] = [at |-> "HANDLING", msg |-> m]]
    /\ UNCHANGED <<committed, row, pub, reported, copies, handled>>

\* Mutant: a failed handler is acknowledged like a finished one.
DeletedAfterFailure(c) == [con EXCEPT ![c].at = "HANDLED"]

\* The exception leaves consume_once before the delete.
AfterFailure(c) == NextDelivery(c)

HandlerFails(c) ==
    /\ con[c].at = "HANDLING"
    /\ con' = AfterFailure(c)
    /\ UNCHANGED <<committed, row, pub, reported, copies, handled>>

HandlerCommits(c) ==
    /\ con[c].at = "HANDLING"
    /\ handled' = handled \cup {con[c].msg}
    /\ con' = [con EXCEPT ![c].at = "HANDLED"]
    /\ UNCHANGED <<committed, row, pub, reported, copies>>

\* delete_message; the consumer may die first, or the call may fail.
Delete(c, done) ==
    LET m == con[c].msg
    IN  /\ con[c].at = "HANDLED"
        /\ copies' = [copies EXCEPT ![m] = IF done /\ @ > 0 THEN @ - 1 ELSE @]
        /\ con' = NextDelivery(c)
        /\ UNCHANGED <<committed, row, pub, reported, handled>>

-----------------------------------------------------------------------------
OutboxNext ==
    \/ \E m \in Message : Stage(m) \/ Commit(m) \/ Rollback(m) \/ Expire(m)
    \/ \E p \in Publisher :
          \/ \E m \in Message : Claim(p, m)
          \/ \E outcome \in {"ACCEPTED", "REPLY_LOST", "REFUSED"} : Send(p, outcome)
          \/ Acknowledge(p) \/ EndPublisher(p)
    \/ \E c \in Consumer :
          \/ \E m \in Message : Receive(c, m)
          \/ HandlerFails(c) \/ HandlerCommits(c)
          \/ \E done \in BOOLEAN : Delete(c, done)

OutboxSpec == OutboxInit /\ [][OutboxNext]_outboxVars

-----------------------------------------------------------------------------
(* Properties                                                              *)

\* Every row, call and delivery has its type, and a call is about a message
\* exactly while it has claimed one.
OutboxTypeOK ==
    /\ committed \subseteq Message
    /\ row \in [Message -> OutboxRow]
    /\ pub \in [Publisher -> Call]
    /\ \A p \in Publisher : pub[p].at \in {"CLAIMED", "SENT"} <=> pub[p].msg # NoMessage
    /\ reported \in [Publisher -> SUBSET Message]
    /\ copies \in [Message -> 0..MaxCopies]
    /\ con \in [Consumer -> Work]
    /\ handled \subseteq Message

\* No committed transition goes unannounced: its row is still to be published,
\* a delivery is in the queue, or a handler has committed its work, whatever
\* died and whichever replies were lost.
NoneLost ==
    \A m \in committed : row[m].state = "PENDING" \/ copies[m] > 0 \/ m \in handled

\* Nobody hears of work that was never accepted: what is in the queue or was
\* handled belongs to a transition that committed.
AnnouncedIsCommitted ==
    \A m \in Message : copies[m] > 0 \/ m \in handled => m \in committed

\* However many calls sent a message, one counts it as published, and only when
\* the row says so.
AcknowledgedOnce ==
    \A m \in Message :
        LET reporters == {p \in Publisher : m \in reported[p]}
        IN  /\ \A p, q \in reporters : p = q
            /\ reporters # {} <=> row[m].state = "PUBLISHED"

=============================================================================
