-------------------------- MODULE EvidenceSequencer --------------------------
(***************************************************************************)
(* The single trusted evidence sequencer of one attempt.  Producers submit *)
(* records and closing watermarks, again and again and in any order; any   *)
(* number of sequencer instances serve them, serialised by a transaction-  *)
(* scoped advisory lock.  A call is a transaction: it waits for the lock,  *)
(* reads, decides, writes and commits, or dies at any point and leaves     *)
(* nothing behind.                                                         *)
(*                                                                         *)
(* A digest is modelled as what it stands for: a payload's digest is the   *)
(* payload, and the hash that links a row to its predecessor is the        *)
(* sequence of payloads it commits to, with GENESIS_HASH the empty one.    *)
(***************************************************************************)
EXTENDS Integers, Sequences

CONSTANTS
    Producer,       \* producer ids of the attempt
    Id,             \* source record ids
    Payload,        \* record contents
    Worker,         \* sequencer instances
    Declared,       \* producers whose empty stream the session start inserts
    Required,       \* producers that finalization requires
    MaxSequence     \* bound on producer sequences

ASSUME SequencerAssumption ==
    /\ MaxSequence \in Nat
    /\ Declared \subseteq Producer /\ Required \subseteq Producer
    /\ "NOBODY" \notin Worker

VARIABLES
    chain,      \* canonical_event: sequence |-> row
    source,     \* producer_source_record: payload and canonical sequence
    stream,     \* producer_stream: admitted_through and closed_at_sequence
    lock,       \* holder of the attempt's advisory lock
    pc,         \* where each instance is in its call
    call,       \* the call each instance serves
    place,      \* the position and link it read from the tail
    answers     \* every AdmittedEvent ever returned

sequencerVars == <<chain, source, stream, lock, pc, call, place, answers>>

Nobody == "NOBODY"
Open   == -1        \* closed_at_sequence IS NULL
Absent == 0         \* no producer_source_record row

Submission == [op : {"ADMIT"}, producer : Producer, id : Id, payload : Payload,
               sequence : 1..MaxSequence]
Watermark  == [op : {"CLOSE"}, producer : Producer, sequence : 0..MaxSequence]
NoCall     == [op |-> "NONE"]
Row        == [producer : Producer, id : Id, payload : Payload, sequence : Nat,
               prev : Seq(Payload)]
Stream     == [known : BOOLEAN, through : Nat, closed : Nat \cup {Open}]
Answer     == [producer : Producer, id : Id, payload : Payload, at : Nat]

\* open_session has declared the reader's empty stream; nothing is admitted yet.
SequencerInit ==
    /\ chain = [k \in {} |-> 0]
    /\ source = [p \in Producer |-> [i \in Id |-> Absent]]
    /\ stream = [p \in Producer |-> [known |-> p \in Declared, through |-> 0, closed |-> Open]]
    /\ lock = Nobody
    /\ pc = [w \in Worker |-> "IDLE"]
    /\ call = [w \in Worker |-> NoCall]
    /\ place = [w \in Worker |-> [at |-> 0, prev |-> <<>>]]
    /\ answers = {}

-----------------------------------------------------------------------------
Begin(w, c) ==
    /\ pc[w] = "IDLE"
    /\ pc' = [pc EXCEPT ![w] = "WAITING"]
    /\ call' = [call EXCEPT ![w] = c]
    /\ UNCHANGED <<chain, source, stream, lock, place, answers>>

\* _lock_attempt
Lock(w) ==
    /\ pc[w] = "WAITING"
    /\ lock = Nobody
    /\ lock' = w
    /\ pc' = [pc EXCEPT ![w] = "LOCKED"]
    /\ UNCHANGED <<chain, source, stream, call, place, answers>>

\* Mutant: a session-scoped lock outlives its transaction.
EndKeepingLock(w) ==
    /\ pc' = [pc EXCEPT ![w] = "IDLE"]
    /\ call' = [call EXCEPT ![w] = NoCall]
    /\ place' = [place EXCEPT ![w] = [at |-> 0, prev |-> <<>>]]
    /\ lock' = lock

\* The transaction ends and its advisory lock with it.
EndCall(w) ==
    /\ pc' = [pc EXCEPT ![w] = "IDLE"]
    /\ call' = [call EXCEPT ![w] = NoCall]
    /\ place' = [place EXCEPT ![w] = [at |-> 0, prev |-> <<>>]]
    /\ lock' = IF lock = w THEN Nobody ELSE lock

\* The instance dies, or the connection does: the transaction is rolled back.
Crash(w) ==
    /\ pc[w] # "IDLE"
    /\ EndCall(w)
    /\ UNCHANGED <<chain, source, stream, answers>>

-----------------------------------------------------------------------------
(* admit_record                                                            *)

\* ORDER BY sequence DESC LIMIT 1
LastSequence ==
    IF DOMAIN chain = {} THEN 0
    ELSE CHOOSE n \in DOMAIN chain : \A k \in DOMAIN chain : k <= n

\* Mutant: every row chains from the genesis hash.
RerootedLink == <<>>

\* _chain_tail: the link commits to the tail row and to everything before it.
TailLink ==
    IF DOMAIN chain = {} THEN <<>> ELSE Append(chain[LastSequence].prev, chain[LastSequence].payload)

Serving(w, op) == pc[w] = "LOCKED" /\ call[w].op = op

Resubmitted(c) == source[c.producer][c.id] # Absent
SamePayload(c) == chain[source[c.producer][c.id]].payload = c.payload

\* Mutant: a producer's gap is admitted.
GapAdmitted(c) ==
    /\ ~Resubmitted(c)
    /\ stream[c.producer].closed = Open
    /\ c.sequence > stream[c.producer].through
\* Mutant: the closing watermark is not consulted.
TailReopened(c) == ~Resubmitted(c) /\ c.sequence = stream[c.producer].through + 1

\* A new record of an open stream, next in its producer's own order.
Admissible(c) ==
    /\ ~Resubmitted(c)
    /\ stream[c.producer].closed = Open
    /\ c.sequence = stream[c.producer].through + 1

\* Mutant: the replayed position is found by content.
FoundByPayload(c) == CHOOSE k \in DOMAIN chain : chain[k].payload = c.payload

\* The position a replay reports is read from the source record itself.
ReplayedAt(c) == source[c.producer][c.id]

Answered(c, at) ==
    answers' = answers \cup {[producer |-> c.producer, id |-> c.id, payload |-> c.payload, at |-> at]}

\* The same record again: its recorded position, and nothing is written.
Replay(w) ==
    /\ Serving(w, "ADMIT")
    /\ Resubmitted(call[w]) /\ SamePayload(call[w])
    /\ Answered(call[w], ReplayedAt(call[w]))
    /\ EndCall(w)
    /\ UNCHANGED <<chain, source, stream>>

\* SourceRecordConflict, a closed stream or a gap.
RefuseRecord(w) ==
    /\ Serving(w, "ADMIT")
    /\ ~Admissible(call[w])
    /\ ~(Resubmitted(call[w]) /\ SamePayload(call[w]))
    /\ EndCall(w)
    /\ UNCHANGED <<chain, source, stream, answers>>

\* The tail is read; the rows are not written yet.
Place(w) ==
    /\ Serving(w, "ADMIT")
    /\ Admissible(call[w])
    /\ place' = [place EXCEPT ![w] = [at |-> LastSequence + 1, prev |-> TailLink]]
    /\ pc' = [pc EXCEPT ![w] = "PLACED"]
    /\ UNCHANGED <<chain, source, stream, lock, call, answers>>

\* The inserts and the update, committed together.  The primary key refuses a
\* position that is taken, and the transaction then ends as a crash would end it.
Store(w) ==
    LET c  == call[w]
        at == place[w].at
    IN  /\ pc[w] = "PLACED"
        /\ at \notin DOMAIN chain
        /\ chain' = [k \in DOMAIN chain \cup {at} |->
                        IF k = at
                        THEN [producer |-> c.producer, id |-> c.id, payload |-> c.payload,
                              sequence |-> c.sequence, prev |-> place[w].prev]
                        ELSE chain[k]]
        /\ source' = [source EXCEPT ![c.producer][c.id] = at]
        /\ stream' = [stream EXCEPT ![c.producer] =
                        [known |-> TRUE, through |-> c.sequence, closed |-> @.closed]]
        /\ Answered(c, at)
        /\ EndCall(w)

-----------------------------------------------------------------------------
(* close_producer_stream                                                   *)

\* The watermark must be what was admitted.
Closable(c) ==
    /\ stream[c.producer].known
    /\ stream[c.producer].closed = Open
    /\ stream[c.producer].through = c.sequence

CloseStream(w) ==
    /\ Serving(w, "CLOSE")
    /\ Closable(call[w])
    /\ stream' = [stream EXCEPT ![call[w].producer].closed = call[w].sequence]
    /\ EndCall(w)
    /\ UNCHANGED <<chain, source, answers>>

\* Closing again where it closed changes nothing; anything else is refused.
KeepStream(w) ==
    /\ Serving(w, "CLOSE")
    /\ ~Closable(call[w])
    /\ EndCall(w)
    /\ UNCHANGED <<chain, source, stream, answers>>

-----------------------------------------------------------------------------
SequencerNext ==
    \E w \in Worker :
        \/ \E c \in Submission \cup Watermark : Begin(w, c)
        \/ Lock(w) \/ Crash(w)
        \/ Replay(w) \/ RefuseRecord(w) \/ Place(w) \/ Store(w)
        \/ CloseStream(w) \/ KeepStream(w)

SequencerSpec == SequencerInit /\ [][SequencerNext]_sequencerVars

-----------------------------------------------------------------------------
(* Finalization's questions.                                               *)

\* producer_tails_closed
TailsClosed == \A p \in Required : stream[p].closed # Open
\* chain_is_contiguous
ChainIsContiguous == DOMAIN chain = 1..LastSequence

-----------------------------------------------------------------------------
(* Properties                                                              *)

\* Every table and every call has its type.
SequencerTypeOK ==
    /\ DOMAIN chain \subseteq Nat \ {0}
    /\ \A k \in DOMAIN chain : chain[k] \in Row
    /\ source \in [Producer -> [Id -> Nat]]
    /\ stream \in [Producer -> Stream]
    /\ lock \in Worker \cup {Nobody}
    /\ pc \in [Worker -> {"IDLE", "WAITING", "LOCKED", "PLACED"}]
    /\ call \in [Worker -> Submission \cup Watermark \cup {NoCall}]
    /\ place \in [Worker -> [at : Nat, prev : Seq(Payload)]]
    /\ answers \subseteq Answer

\* The chain has no gaps and every row commits to exactly what precedes it, so
\* no order of instances forks or re-roots it.
ChainAttests ==
    /\ ChainIsContiguous
    /\ \A k \in DOMAIN chain : chain[k].prev = [j \in 1..(k - 1) |-> chain[j].payload]

\* Each producer's records stand in the chain in the producer's own order,
\* without a gap, and a closing watermark is the number of them.
ProducersContiguous ==
    \A p \in Producer :
        LET mine == {k \in DOMAIN chain : chain[k].producer = p}
        IN  /\ {chain[k].sequence : k \in mine} = 1..stream[p].through
            /\ \A k, l \in mine : k < l => chain[k].sequence < chain[l].sequence
            /\ stream[p].closed \in {Open, stream[p].through}

\* Whatever was answered, to whichever submission or resubmission, through
\* whichever instance, is where that record still stands.
AnswersHold ==
    \A a \in answers :
        /\ a.at \in DOMAIN chain
        /\ chain[a.at].producer = a.producer /\ chain[a.at].id = a.id
        /\ chain[a.at].payload = a.payload

\* Completeness is not taken back: once every required producer has closed, the
\* chain gains nothing from any of them.
CompleteIsFinal ==
    [][TailsClosed =>
          /\ TailsClosed'
          /\ \A k \in DOMAIN chain' \ DOMAIN chain : chain'[k].producer \notin Required]_sequencerVars

\* The log a reader sees.
Log == INSTANCE EvidenceLog WITH
    log <- [k \in DOMAIN chain |-> [producer |-> chain[k].producer, id |-> chain[k].id,
                                    payload |-> chain[k].payload]],
    ended <- {p \in Producer : stream[p].closed # Open}

\* The sequencer implements the append-only log.
ImplementsLog == Log!Spec

\* No instance waits behind a call that is over: the lock is free or its holder is
\* in the middle of a transaction, so a death never strands the attempt.
LockNotStranded == lock # Nobody => pc[lock] \in {"LOCKED", "PLACED"}

=============================================================================
