--------------------------- MODULE EvidenceProofs ---------------------------
(***************************************************************************)
(* The evidence: how it is sequenced, and how it is retained and deleted.  *)
(*                                                                         *)
(* The sequencer's chain is contiguous, commits to its prefix and keeps    *)
(* every answer, for any producers, records and instances.  The argument:  *)
(* only the lock holder is past its wait (LockHeld), so what it read from  *)
(* the tail is still the tail when it writes (PlaceCurrent).  With that a  *)
(* Store extends every table consistently (Tables), and no other step      *)
(* touches them except a closing watermark.                                *)
(*                                                                         *)
(* Deletion is honest for any artifacts, requests and faults.  Each key is *)
(* promised by the one deletion that marked its row (PromisedOnce), a row  *)
(* is locked while its object is written (RowsAgree), and a batch is its   *)
(* purger's alone (BatchesApart): so a pair leaves the queue only after    *)
(* its bytes did.  DecisionStands is the finalizer's reading of rows and   *)
(* bytes, which nobody can disturb before it commits.                      *)
(***************************************************************************)
EXTENDS EvidenceSequencer, EvidenceRetention, SequenceTheorems, TLAPS

\* An instance past its wait holds the lock.
LockHeld == \A w \in Worker : pc[w] \in {"LOCKED", "PLACED"} => lock = w

\* What a placed instance decided and read is still so.
PlaceCurrent ==
    \A w \in Worker :
        pc[w] = "PLACED" =>
            /\ call[w] \in Submission
            /\ Admissible(call[w])
            /\ place[w] = [at |-> LastSequence + 1, prev |-> TailLink]

\* The canonical rows stand at 1..n.
Numbered == \E n \in Nat : DOMAIN chain = 1..n

\* Every row commits to the payloads before it.
Linked == \A k \in DOMAIN chain : chain[k].prev = [j \in 1..(k - 1) |-> chain[j].payload]

\* producer_source_record and canonical_event point at each other.
SourceAgrees ==
    /\ \A p \in Producer, i \in Id :
          source[p][i] # Absent =>
              /\ source[p][i] \in DOMAIN chain
              /\ chain[source[p][i]].producer = p /\ chain[source[p][i]].id = i
    /\ \A k \in DOMAIN chain : source[chain[k].producer][chain[k].id] = k

\* Rows of one producer carry sequences up to admitted_through, each of them
\* once and in order.
StreamAgrees ==
    \A p \in Producer :
        /\ \A k \in DOMAIN chain :
              chain[k].producer = p => chain[k].sequence \in 1..stream[p].through
        /\ \A n \in 1..stream[p].through :
              \E k \in DOMAIN chain : chain[k].producer = p /\ chain[k].sequence = n
        /\ \A k, l \in DOMAIN chain :
              (chain[k].producer = p /\ chain[l].producer = p /\ k < l) =>
                  chain[k].sequence < chain[l].sequence
        /\ stream[p].closed \in {Open, stream[p].through}

Tables == Numbered /\ Linked /\ SourceAgrees /\ StreamAgrees /\ AnswersHold

IInv == SequencerTypeOK /\ LockHeld /\ PlaceCurrent /\ Tables

-----------------------------------------------------------------------------
(* The tail.                                                               *)

\* LastSequence is the number of rows when they are numbered without a gap.
LEMMA TailIsCount ==
    ASSUME NEW n \in Nat, DOMAIN chain = 1..n
    PROVE  LastSequence = n
<1>1. CASE n = 0
  BY <1>1 DEF LastSequence
<1>2. CASE n # 0
  <2>1. n \in DOMAIN chain /\ \A k \in DOMAIN chain : k <= n
    BY <1>2
  <2>2. \A m \in DOMAIN chain : (\A k \in DOMAIN chain : k <= m) => m = n
    BY <2>1
  <2>3. LastSequence = CHOOSE m \in DOMAIN chain : \A k \in DOMAIN chain : k <= m
    BY <1>2, <2>1 DEF LastSequence
  <2> QED
    BY <2>1, <2>2, <2>3
<1> QED
  BY <1>1, <1>2

\* The link read from the tail is the sequence of all payloads so far.
LEMMA LinkIsPrefix ==
    ASSUME SequencerTypeOK, Linked, NEW n \in Nat, DOMAIN chain = 1..n
    PROVE  TailLink = [j \in 1..n |-> chain[j].payload]
<1>0. LastSequence = n
  BY TailIsCount
<1>1. CASE n = 0
  BY <1>1 DEF TailLink
<1>2. CASE n # 0
  <2>1. TailLink = Append(chain[n].prev, chain[n].payload)
    BY <1>0, <1>2 DEF TailLink
  <2>2. chain[n] \in Row
    <3>1. n \in DOMAIN chain
      BY <1>2
    <3>2. \A k \in DOMAIN chain : chain[k] \in Row
      BY DEF SequencerTypeOK
    <3> QED
      BY <3>1, <3>2
  <2>3. chain[n].prev \in Seq(Payload) /\ chain[n].payload \in Payload
    BY <2>2 DEF Row
  <2>4. chain[n].prev = [j \in 1..(n - 1) |-> chain[j].payload]
    BY <1>2 DEF Linked
  <2>5. Len(chain[n].prev) = n - 1
    BY <2>3, <2>4, <1>2
  <2>6. TailLink = [j \in 1..n |-> IF j = n THEN chain[n].payload ELSE chain[n].prev[j]]
    BY <2>1, <2>3, <2>5
  <2>7. \A j \in 1..n : j # n => chain[n].prev[j] = chain[j].payload
    BY <2>4
  <2> QED
    BY <2>6, <2>7
<1> QED
  BY <1>1, <1>2

-----------------------------------------------------------------------------
(* The invariant.                                                          *)

\* Before the first record every table is empty.
LEMMA InitIInv == SequencerInit => IInv
<1> SUFFICES ASSUME SequencerInit PROVE IInv
  OBVIOUS
<1>1. DOMAIN chain = {}
  BY DEF SequencerInit
<1>2. SequencerTypeOK
  BY <1>1 DEF SequencerInit, SequencerTypeOK, Stream, Open, Absent, Nobody, NoCall
<1>3. LockHeld /\ PlaceCurrent
  BY DEF SequencerInit, LockHeld, PlaceCurrent
<1>4. DOMAIN chain = 1..0
  BY <1>1
<1>5. Numbered
  BY <1>4 DEF Numbered
<1>6. Linked /\ SourceAgrees
  BY <1>1 DEF Linked, SourceAgrees, SequencerInit, Absent
<1>7. StreamAgrees
  <2>1. \A p \in Producer : stream[p].through = 0 /\ stream[p].closed = Open
    BY DEF SequencerInit
  <2>2. 1..0 = {}
    OBVIOUS
  <2> QED
    BY <1>1, <2>1, <2>2 DEF StreamAgrees
<1>8. AnswersHold
  BY DEF AnswersHold, SequencerInit
<1> QED
  BY <1>2, <1>3, <1>5, <1>6, <1>7, <1>8 DEF IInv, Tables


\* Ending a call, or waiting for the lock, keeps the lock with its holder.
LEMMA EndCallKeeps ==
    ASSUME SequencerTypeOK, LockHeld, NEW w \in Worker, EndCall(w)
    PROVE  /\ LockHeld'
           /\ lock' \in Worker \cup {Nobody}
           /\ pc' \in [Worker -> {"IDLE", "WAITING", "LOCKED", "PLACED"}]
           /\ call' \in [Worker -> Submission \cup Watermark \cup {NoCall}]
           /\ place' \in [Worker -> [at : Nat, prev : Seq(Payload)]]
           /\ \A v \in Worker : pc'[v] # "PLACED" \/ (v # w /\ pc[v] = "PLACED")
           /\ \A v \in Worker : v # w => call'[v] = call[v] /\ place'[v] = place[v]
<1>1. pc \in [Worker -> {"IDLE", "WAITING", "LOCKED", "PLACED"}]
  BY DEF SequencerTypeOK
<1>2. call \in [Worker -> Submission \cup Watermark \cup {NoCall}]
  BY DEF SequencerTypeOK
<1>3. place \in [Worker -> [at : Nat, prev : Seq(Payload)]]
  BY DEF SequencerTypeOK
<1>4. lock \in Worker \cup {Nobody}
  BY DEF SequencerTypeOK
<1>5. [at |-> 0, prev |-> <<>>] \in [at : Nat, prev : Seq(Payload)]
  OBVIOUS
<1>6. pc' \in [Worker -> {"IDLE", "WAITING", "LOCKED", "PLACED"}] /\ pc'[w] = "IDLE"
       /\ \A v \in Worker : v # w => pc'[v] = pc[v]
  BY <1>1 DEF EndCall
<1>7. call' \in [Worker -> Submission \cup Watermark \cup {NoCall}]
       /\ \A v \in Worker : v # w => call'[v] = call[v]
  BY <1>2 DEF EndCall
<1>8. place' \in [Worker -> [at : Nat, prev : Seq(Payload)]]
       /\ \A v \in Worker : v # w => place'[v] = place[v]
  BY <1>3, <1>5 DEF EndCall
<1>9. lock' = IF lock = w THEN Nobody ELSE lock
  BY DEF EndCall
<1>10. LockHeld'
  BY <1>6, <1>9 DEF LockHeld
<1> QED
  BY <1>4, <1>6, <1>7, <1>8, <1>9, <1>10

\* Steps that leave the three tables alone leave everything read from them alone.
LEMMA TablesKept ==
    ASSUME Numbered, Linked, SourceAgrees, StreamAgrees, UNCHANGED <<chain, source, stream>>
    PROVE  /\ Numbered' /\ Linked' /\ SourceAgrees' /\ StreamAgrees'
           /\ LastSequence' = LastSequence /\ TailLink' = TailLink
<1>1. Numbered'
  BY DEF Numbered
<1>2. Linked'
  BY DEF Linked
<1>3. SourceAgrees'
  BY DEF SourceAgrees
<1>4. StreamAgrees'
  BY DEF StreamAgrees
<1>5. LastSequence' = LastSequence
  BY DEF LastSequence
<1>6. TailLink' = TailLink
  BY <1>5 DEF TailLink
<1> QED
  BY <1>1, <1>2, <1>3, <1>4, <1>5, <1>6

\* An instance whose place was current keeps it current while the tables and
\* its own call stand still.
LEMMA PlaceKept ==
    ASSUME IInv, UNCHANGED <<chain, source, stream>>,
           NEW v \in Worker, pc[v] = "PLACED", call'[v] = call[v], place'[v] = place[v]
    PROVE  /\ call'[v] \in Submission
           /\ Admissible(call[v])'
           /\ place'[v] = [at |-> LastSequence' + 1, prev |-> TailLink']
<1>1. /\ call[v] \in Submission
      /\ Admissible(call[v])
      /\ place[v] = [at |-> LastSequence + 1, prev |-> TailLink]
  BY DEF IInv, PlaceCurrent
<1>2. LastSequence' = LastSequence /\ TailLink' = TailLink
  BY TablesKept DEF IInv, Tables
<1>3. Admissible(call[v])'
  BY <1>1 DEF Admissible, Resubmitted
<1> QED
  BY <1>1, <1>2, <1>3

\* A step that writes no table keeps the invariant when it keeps the lock
\* discipline and the answers.
LEMMA QuietStep ==
    ASSUME IInv, UNCHANGED <<chain, source, stream>>,
           LockHeld', AnswersHold',
           answers' \subseteq Answer,
           lock' \in Worker \cup {Nobody},
           pc' \in [Worker -> {"IDLE", "WAITING", "LOCKED", "PLACED"}],
           call' \in [Worker -> Submission \cup Watermark \cup {NoCall}],
           place' \in [Worker -> [at : Nat, prev : Seq(Payload)]],
           \A v \in Worker : pc'[v] = "PLACED" =>
               /\ pc[v] = "PLACED"
               /\ call'[v] = call[v] /\ place'[v] = place[v]
    PROVE  IInv'
<1>1. SequencerTypeOK'
  BY DEF IInv, SequencerTypeOK
<1>2. PlaceCurrent'
  <2> SUFFICES ASSUME NEW v \in Worker, pc'[v] = "PLACED"
               PROVE  /\ call'[v] \in Submission
                      /\ Admissible(call[v])'
                      /\ place'[v] = [at |-> LastSequence' + 1, prev |-> TailLink']
    BY DEF PlaceCurrent
  <2>1. pc[v] = "PLACED" /\ call'[v] = call[v] /\ place'[v] = place[v]
    OBVIOUS
  <2> QED
    BY <2>1, PlaceKept
<1>3. Numbered' /\ Linked' /\ SourceAgrees' /\ StreamAgrees'
  BY TablesKept DEF IInv, Tables
<1> QED
  BY <1>1, <1>2, <1>3 DEF IInv, Tables

\* A call that ends without writing a table keeps the invariant.
LEMMA QuietEnd ==
    ASSUME IInv, NEW w \in Worker, EndCall(w), UNCHANGED <<chain, source, stream>>,
           answers' \subseteq Answer, AnswersHold'
    PROVE  IInv'
<1>1. /\ LockHeld'
      /\ lock' \in Worker \cup {Nobody}
      /\ pc' \in [Worker -> {"IDLE", "WAITING", "LOCKED", "PLACED"}]
      /\ call' \in [Worker -> Submission \cup Watermark \cup {NoCall}]
      /\ place' \in [Worker -> [at : Nat, prev : Seq(Payload)]]
      /\ \A v \in Worker : pc'[v] # "PLACED" \/ (v # w /\ pc[v] = "PLACED")
      /\ \A v \in Worker : v # w => call'[v] = call[v] /\ place'[v] = place[v]
  BY EndCallKeeps DEF IInv
<1> QED
  BY <1>1, QuietStep

\* Answers nobody adds to still hold over tables nobody writes.
LEMMA AnswersKept ==
    ASSUME IInv, UNCHANGED <<chain, answers>>
    PROVE  AnswersHold' /\ answers' \subseteq Answer
  BY DEF IInv, Tables, AnswersHold, SequencerTypeOK

\* A call is submitted.
LEMMA BeginStep ==
    ASSUME IInv, NEW w \in Worker, NEW c \in Submission \cup Watermark, Begin(w, c)
    PROVE  IInv'
<1>1. /\ pc \in [Worker -> {"IDLE", "WAITING", "LOCKED", "PLACED"}]
      /\ call \in [Worker -> Submission \cup Watermark \cup {NoCall}]
      /\ place \in [Worker -> [at : Nat, prev : Seq(Payload)]]
      /\ lock \in Worker \cup {Nobody}
  BY DEF IInv, SequencerTypeOK
<1>2. /\ pc' = [pc EXCEPT ![w] = "WAITING"] /\ call' = [call EXCEPT ![w] = c]
      /\ place' = place /\ lock' = lock
      /\ UNCHANGED <<chain, source, stream, answers>>
  BY DEF Begin
<1>3. AnswersHold' /\ answers' \subseteq Answer
  BY <1>2, AnswersKept
<1>4. LockHeld'
  BY <1>1, <1>2 DEF LockHeld, IInv
<1>5. /\ pc' \in [Worker -> {"IDLE", "WAITING", "LOCKED", "PLACED"}]
      /\ call' \in [Worker -> Submission \cup Watermark \cup {NoCall}]
  BY <1>1, <1>2
<1>6. \A v \in Worker : pc'[v] = "PLACED" =>
          pc[v] = "PLACED" /\ call'[v] = call[v] /\ place'[v] = place[v]
  BY <1>1, <1>2
<1> QED
  BY <1>1, <1>2, <1>3, <1>4, <1>5, <1>6, QuietStep

\* The free lock is taken.
LEMMA LockStep ==
    ASSUME IInv, NEW w \in Worker, Lock(w)
    PROVE  IInv'
<1>1. /\ pc \in [Worker -> {"IDLE", "WAITING", "LOCKED", "PLACED"}]
      /\ call \in [Worker -> Submission \cup Watermark \cup {NoCall}]
      /\ place \in [Worker -> [at : Nat, prev : Seq(Payload)]]
  BY DEF IInv, SequencerTypeOK
<1>2. /\ lock = Nobody /\ lock' = w /\ pc' = [pc EXCEPT ![w] = "LOCKED"]
      /\ call' = call /\ place' = place
      /\ UNCHANGED <<chain, source, stream, answers>>
  BY DEF Lock
<1>3. AnswersHold' /\ answers' \subseteq Answer
  BY <1>2, AnswersKept
<1>4. \A v \in Worker : pc[v] \notin {"LOCKED", "PLACED"}
  BY <1>2, SequencerAssumption DEF IInv, LockHeld, Nobody
<1>5. LockHeld'
  BY <1>1, <1>2, <1>4 DEF LockHeld
<1>6. pc' \in [Worker -> {"IDLE", "WAITING", "LOCKED", "PLACED"}]
  BY <1>1, <1>2
<1>7. \A v \in Worker : pc'[v] = "PLACED" =>
          pc[v] = "PLACED" /\ call'[v] = call[v] /\ place'[v] = place[v]
  BY <1>1, <1>2
<1> QED
  BY <1>1, <1>2, <1>3, <1>5, <1>6, <1>7, QuietStep

\* A replay is answered with the position its source record names.
LEMMA ReplayStep ==
    ASSUME IInv, NEW w \in Worker, Replay(w)
    PROVE  IInv'
<1> DEFINE c == call[w]
           at == source[c.producer][c.id]
           a  == [producer |-> c.producer, id |-> c.id, payload |-> c.payload, at |-> at]
<1>1. /\ pc[w] = "LOCKED" /\ c.op = "ADMIT" /\ at # Absent /\ chain[at].payload = c.payload
      /\ answers' = answers \cup {a} /\ EndCall(w) /\ UNCHANGED <<chain, source, stream>>
  BY DEF Replay, Serving, Resubmitted, SamePayload, Answered, ReplayedAt
<1>2. c \in Submission
  <2>1. c \in Submission \cup Watermark \cup {NoCall}
    BY DEF IInv, SequencerTypeOK
  <2> QED
    BY <1>1, <2>1 DEF Watermark, NoCall
<1>3. c.producer \in Producer /\ c.id \in Id /\ c.payload \in Payload
  BY <1>2 DEF Submission
<1>4. at \in DOMAIN chain /\ chain[at].producer = c.producer /\ chain[at].id = c.id
  BY <1>1, <1>3 DEF IInv, Tables, SourceAgrees
<1>5. at \in Nat
  <2>1. source \in [Producer -> [Id -> Nat]]
    BY DEF IInv, SequencerTypeOK
  <2> QED
    BY <1>3, <2>1
<1>6. a \in Answer
  BY <1>3, <1>5 DEF Answer
<1>7. answers \subseteq Answer /\ AnswersHold
  BY DEF IInv, SequencerTypeOK, Tables
<1>8. answers' \subseteq Answer
  BY <1>1, <1>6, <1>7
<1>9. AnswersHold'
  BY <1>1, <1>4, <1>7 DEF AnswersHold
<1> HIDE DEF c, at, a
<1> QED
  BY <1>1, <1>8, <1>9, QuietEnd

\* While one instance is past its wait no other has placed a record.
LEMMA OnlyOnePlaced ==
    ASSUME LockHeld, NEW w \in Worker, pc[w] \in {"LOCKED", "PLACED"}
    PROVE  \A v \in Worker : v # w => pc[v] # "PLACED"
  BY DEF LockHeld

\* The tail is read under the lock.
LEMMA PlaceStep ==
    ASSUME IInv, NEW w \in Worker, Place(w)
    PROVE  IInv'
<1>1. /\ pc \in [Worker -> {"IDLE", "WAITING", "LOCKED", "PLACED"}]
      /\ call \in [Worker -> Submission \cup Watermark \cup {NoCall}]
      /\ place \in [Worker -> [at : Nat, prev : Seq(Payload)]]
      /\ lock \in Worker \cup {Nobody}
  BY DEF IInv, SequencerTypeOK
<1>2. /\ pc[w] = "LOCKED" /\ call[w].op = "ADMIT" /\ Admissible(call[w])
      /\ place' = [place EXCEPT ![w] = [at |-> LastSequence + 1, prev |-> TailLink]]
      /\ pc' = [pc EXCEPT ![w] = "PLACED"]
      /\ lock' = lock /\ call' = call /\ UNCHANGED <<chain, source, stream, answers>>
  BY DEF Place, Serving
<1>3. call[w] \in Submission
  <2>1. call[w] \in Submission \cup Watermark \cup {NoCall} /\ call[w].op = "ADMIT"
    BY <1>1, <1>2
  <2> QED
    BY <2>1 DEF Watermark, NoCall
<1>4. LastSequence + 1 \in Nat /\ TailLink \in Seq(Payload)
  <2>1. PICK n \in Nat : DOMAIN chain = 1..n
    BY DEF IInv, Tables, Numbered
  <2>2. LastSequence = n
    BY <2>1, TailIsCount
  <2>3. TailLink = [j \in 1..n |-> chain[j].payload]
    BY <2>1, LinkIsPrefix DEF IInv, Tables
  <2>4. \A j \in 1..n : chain[j].payload \in Payload
    <3>1. \A j \in 1..n : chain[j] \in Row
      BY <2>1 DEF IInv, SequencerTypeOK
    <3> QED
      BY <3>1 DEF Row
  <2>5. TailLink \in [1..n -> Payload]
    BY <2>3, <2>4
  <2> QED
    BY <2>2, <2>5
<1>5. /\ pc' \in [Worker -> {"IDLE", "WAITING", "LOCKED", "PLACED"}]
      /\ place' \in [Worker -> [at : Nat, prev : Seq(Payload)]]
  BY <1>1, <1>2, <1>4
<1>6. SequencerTypeOK'
  BY <1>2, <1>5 DEF IInv, SequencerTypeOK
<1>7. LockHeld'
  BY <1>1, <1>2 DEF LockHeld, IInv
<1>8. Numbered' /\ Linked' /\ SourceAgrees' /\ StreamAgrees'
      /\ LastSequence' = LastSequence /\ TailLink' = TailLink
  BY <1>2, TablesKept DEF IInv, Tables
<1>9. AnswersHold'
  BY <1>2, AnswersKept
<1>10. PlaceCurrent'
  <2>1. \A v \in Worker : v # w => pc[v] # "PLACED"
    BY <1>2, OnlyOnePlaced DEF IInv
  <2>2. \A v \in Worker : pc'[v] = "PLACED" => v = w
    BY <1>1, <1>2, <2>1
  <2>3. Admissible(call[w])'
    BY <1>2 DEF Admissible, Resubmitted
  <2>4. place'[w] = [at |-> LastSequence' + 1, prev |-> TailLink']
    BY <1>1, <1>2, <1>8
  <2>5. call'[w] \in Submission
    BY <1>2, <1>3
  <2> QED
    BY <2>2, <2>3, <2>4, <2>5 DEF PlaceCurrent
<1> QED
  BY <1>6, <1>7, <1>8, <1>9, <1>10 DEF IInv, Tables

\* A closing watermark is the number of records admitted.
LEMMA CloseStep ==
    ASSUME IInv, NEW w \in Worker, CloseStream(w)
    PROVE  IInv'
<1> DEFINE c == call[w]
           p == c.producer
<1>1. /\ pc[w] = "LOCKED" /\ c.op = "CLOSE" /\ stream[p].through = c.sequence
      /\ stream' = [stream EXCEPT ![p].closed = c.sequence]
      /\ EndCall(w) /\ UNCHANGED <<chain, source, answers>>
  BY DEF CloseStream, Serving, Closable
<1>2. /\ LockHeld'
      /\ lock' \in Worker \cup {Nobody}
      /\ pc' \in [Worker -> {"IDLE", "WAITING", "LOCKED", "PLACED"}]
      /\ call' \in [Worker -> Submission \cup Watermark \cup {NoCall}]
      /\ place' \in [Worker -> [at : Nat, prev : Seq(Payload)]]
      /\ \A v \in Worker : pc'[v] # "PLACED" \/ (v # w /\ pc[v] = "PLACED")
  BY <1>1, EndCallKeeps DEF IInv
<1>3. stream \in [Producer -> Stream]
  BY DEF IInv, SequencerTypeOK
<1>4. p \in Producer /\ c.sequence \in Nat
  <2>1. c \in Submission \cup Watermark \cup {NoCall}
    BY DEF IInv, SequencerTypeOK
  <2>2. c \in Watermark
    BY <1>1, <2>1 DEF Submission, NoCall
  <2> QED
    BY <2>2, SequencerAssumption DEF Watermark
<1> HIDE DEF c, p
<1>5. /\ \A q \in Producer : q # p => stream'[q] = stream[q]
      /\ stream'[p] = [stream[p] EXCEPT !.closed = c.sequence]
      /\ DOMAIN stream' = Producer
  BY <1>1, <1>3, <1>4
<1>6. /\ stream'[p].through = stream[p].through
      /\ stream'[p].closed = stream[p].through
      /\ stream'[p] \in Stream
  BY <1>1, <1>3, <1>4, <1>5 DEF Stream
<1>7. stream' \in [Producer -> Stream]
  BY <1>1, <1>3, <1>4, <1>5, <1>6
<1>8. SequencerTypeOK'
  BY <1>1, <1>2, <1>7 DEF IInv, SequencerTypeOK
<1>9. PlaceCurrent'
  <2>1. \A v \in Worker : v # w => pc[v] # "PLACED"
    BY <1>1, OnlyOnePlaced DEF IInv
  <2> QED
    BY <1>2, <2>1 DEF PlaceCurrent
<1>10. Numbered' /\ Linked' /\ SourceAgrees'
  BY <1>1 DEF IInv, Tables, Numbered, Linked, SourceAgrees
<1>11. StreamAgrees'
  <2>1. StreamAgrees
    BY DEF IInv, Tables
  <2>2. \A q \in Producer : stream'[q].through = stream[q].through
    BY <1>5, <1>6
  <2>3. \A q \in Producer : stream'[q].closed \in {Open, stream'[q].through}
    BY <2>1, <1>5, <1>6 DEF StreamAgrees
  <2> QED
    BY <1>1, <2>1, <2>2, <2>3 DEF StreamAgrees
<1>12. AnswersHold'
  BY <1>1, AnswersKept
<1> QED
  BY <1>2, <1>8, <1>9, <1>10, <1>11, <1>12 DEF IInv, Tables

\* The rows of one admission extend every table by one consistent record.
LEMMA StoreStep ==
    ASSUME IInv, NEW w \in Worker, Store(w)
    PROVE  IInv'
<1> DEFINE c == call[w]
           p == c.producer
<1>1. PICK n \in Nat : DOMAIN chain = 1..n
  BY DEF IInv, Tables, Numbered
<1>2. /\ LockHeld'
      /\ lock' \in Worker \cup {Nobody}
      /\ pc' \in [Worker -> {"IDLE", "WAITING", "LOCKED", "PLACED"}]
      /\ call' \in [Worker -> Submission \cup Watermark \cup {NoCall}]
      /\ place' \in [Worker -> [at : Nat, prev : Seq(Payload)]]
      /\ \A v \in Worker : pc'[v] # "PLACED" \/ (v # w /\ pc[v] = "PLACED")
  BY EndCallKeeps DEF IInv, Store
<1>3. pc[w] = "PLACED"
  BY DEF Store
<1>4. /\ c \in Submission
      /\ Admissible(c)
      /\ place[w] = [at |-> LastSequence + 1, prev |-> TailLink]
  BY <1>3 DEF IInv, PlaceCurrent
<1>5. LastSequence = n /\ TailLink = [j \in 1..n |-> chain[j].payload]
  BY <1>1, TailIsCount, LinkIsPrefix DEF IInv, Tables
<1>6. place[w].at = n + 1 /\ place[w].prev = [j \in 1..n |-> chain[j].payload]
  BY <1>4, <1>5
<1> DEFINE new == [producer |-> c.producer, id |-> c.id, payload |-> c.payload,
                   sequence |-> c.sequence, prev |-> place[w].prev]
           a   == [producer |-> c.producer, id |-> c.id, payload |-> c.payload, at |-> n + 1]
<1>7. /\ chain' = [k \in DOMAIN chain \cup {n + 1} |-> IF k = n + 1 THEN new ELSE chain[k]]
      /\ source' = [source EXCEPT ![p][c.id] = n + 1]
      /\ stream' = [stream EXCEPT ![p] =
                      [known |-> TRUE, through |-> c.sequence, closed |-> stream[p].closed]]
      /\ answers' = answers \cup {a}
  BY <1>6 DEF Store, Answered
<1>8. /\ p \in Producer /\ c.id \in Id /\ c.payload \in Payload
      /\ c.sequence \in Nat /\ c.sequence >= 1
  BY <1>4, SequencerAssumption DEF Submission
<1>9. /\ source[p][c.id] = Absent
      /\ stream[p].closed = Open
      /\ c.sequence = stream[p].through + 1
  BY <1>4 DEF Admissible, Resubmitted
<1>10. place[w].prev \in Seq(Payload)
  <2>1. place \in [Worker -> [at : Nat, prev : Seq(Payload)]]
    BY DEF IInv, SequencerTypeOK
  <2> QED
    BY <2>1
<1>11. /\ new.producer = p /\ new.id = c.id /\ new.payload = c.payload
       /\ new.sequence = c.sequence /\ new.prev = [j \in 1..n |-> chain[j].payload]
       /\ new \in Row
  BY <1>6, <1>8, <1>10 DEF Row
<1> HIDE DEF new
<1>12. /\ DOMAIN chain' = 1..(n + 1)
       /\ \A k \in 1..n : k \in DOMAIN chain /\ chain'[k] = chain[k] /\ k # n + 1
       /\ chain'[n + 1] = new
       /\ \A k \in DOMAIN chain' : k \in 1..n \/ k = n + 1
  <2>1. DOMAIN chain' = DOMAIN chain \cup {n + 1}
    BY <1>7
  <2>2. (1..n) \cup {n + 1} = 1..(n + 1)
    OBVIOUS
  <2>3. \A k \in 1..n : k # n + 1
    OBVIOUS
  <2> QED
    BY <1>1, <1>7, <2>1, <2>2, <2>3
<1>13. source \in [Producer -> [Id -> Nat]] /\ stream \in [Producer -> Stream]
       /\ answers \subseteq Answer /\ \A k \in DOMAIN chain : chain[k] \in Row
  BY DEF IInv, SequencerTypeOK
<1> HIDE DEF c, p
<1>14. /\ source'[p][c.id] = n + 1
       /\ \A q \in Producer, i \in Id : (q # p \/ i # c.id) => source'[q][i] = source[q][i]
       /\ source' \in [Producer -> [Id -> Nat]]
  BY <1>7, <1>8, <1>13
<1>15. /\ stream'[p].through = c.sequence /\ stream'[p].closed = Open
       /\ \A q \in Producer : q # p => stream'[q] = stream[q]
  BY <1>7, <1>8, <1>9, <1>13
<1>16. stream' \in [Producer -> Stream]
  <2>1. stream[p] \in Stream
    BY <1>8, <1>13
  <2>2. [known |-> TRUE, through |-> c.sequence, closed |-> stream[p].closed] \in Stream
    BY <1>8, <2>1 DEF Stream
  <2> QED
    BY <1>7, <1>13, <2>2
<1>17. a \in Answer /\ answers' \subseteq Answer
  BY <1>7, <1>8, <1>13 DEF Answer, p
<1>18. SequencerTypeOK'
  <2>1. DOMAIN chain' \subseteq Nat \ {0}
    BY <1>12
  <2>2. \A k \in DOMAIN chain' : chain'[k] \in Row
    BY <1>11, <1>12, <1>13
  <2> QED
    BY <1>2, <1>14, <1>16, <1>17, <2>1, <2>2 DEF SequencerTypeOK
<1>19. PlaceCurrent'
  <2>1. \A v \in Worker : v # w => pc[v] # "PLACED"
    BY <1>3, OnlyOnePlaced DEF IInv
  <2> QED
    BY <1>2, <2>1 DEF PlaceCurrent
<1>20. Numbered'
  BY <1>12 DEF Numbered
<1>21. Linked'
  <2>1. \A k \in 1..n : chain[k].prev = [j \in 1..(k - 1) |-> chain[j].payload]
    BY <1>12 DEF IInv, Tables, Linked
  <2>2. \A k \in 1..(n + 1) : \A j \in 1..(k - 1) : j \in 1..n
    OBVIOUS
  <2>3. \A k \in 1..(n + 1) :
            [j \in 1..(k - 1) |-> chain'[j].payload] = [j \in 1..(k - 1) |-> chain[j].payload]
    BY <1>12, <2>2
  <2>4. (n + 1) - 1 = n /\ n + 1 \in 1..(n + 1)
    OBVIOUS
  <2>5. ASSUME NEW k \in DOMAIN chain'
        PROVE  chain'[k].prev = [j \in 1..(k - 1) |-> chain'[j].payload]
    <3>1. CASE k \in 1..n
      BY <1>12, <2>1, <2>3, <3>1
    <3>2. CASE k = n + 1
      BY <1>11, <1>12, <2>3, <2>4, <3>2
    <3> QED
      BY <1>12, <3>1, <3>2
  <2> QED
    BY <2>5 DEF Linked
<1>22. SourceAgrees'
  <2>1. SourceAgrees
    BY DEF IInv, Tables
  <2>2. ASSUME NEW q \in Producer, NEW i \in Id, source'[q][i] # Absent
        PROVE  /\ source'[q][i] \in DOMAIN chain'
               /\ chain'[source'[q][i]].producer = q /\ chain'[source'[q][i]].id = i
    <3>1. CASE q = p /\ i = c.id
      BY <1>11, <1>12, <1>14, <3>1
    <3>2. CASE q # p \/ i # c.id
      <4>1. source'[q][i] = source[q][i]
        BY <1>14, <3>2
      <4>2. /\ source[q][i] \in DOMAIN chain
            /\ chain[source[q][i]].producer = q /\ chain[source[q][i]].id = i
        BY <2>1, <2>2, <4>1 DEF SourceAgrees
      <4>3. source[q][i] \in 1..n
        BY <1>1, <4>2
      <4> QED
        BY <1>12, <4>1, <4>2, <4>3
    <3> QED
      BY <3>1, <3>2
  <2>3. ASSUME NEW k \in DOMAIN chain'
        PROVE  source'[chain'[k].producer][chain'[k].id] = k
    <3>1. CASE k = n + 1
      BY <1>11, <1>12, <1>14, <3>1
    <3>2. CASE k \in 1..n
      <4>1. chain'[k] = chain[k] /\ k \in DOMAIN chain /\ k # 0
        BY <1>12, <3>2
      <4>2. source[chain[k].producer][chain[k].id] = k
        BY <2>1, <4>1 DEF SourceAgrees
      <4>3. chain[k].producer \in Producer /\ chain[k].id \in Id
        BY <1>13, <4>1 DEF Row
      <4>4. chain[k].producer # p \/ chain[k].id # c.id
        BY <1>9, <4>1, <4>2 DEF Absent, p
      <4> QED
        BY <1>14, <4>1, <4>2, <4>3, <4>4
    <3> QED
      BY <1>12, <3>1, <3>2
  <2> QED
    BY <2>2, <2>3 DEF SourceAgrees
<1>23. StreamAgrees'
  <2>1. StreamAgrees
    BY DEF IInv, Tables
  <2> SUFFICES ASSUME NEW q \in Producer
               PROVE  /\ \A k \in DOMAIN chain' :
                           chain'[k].producer = q => chain'[k].sequence \in 1..stream'[q].through
                      /\ \A m \in 1..stream'[q].through :
                           \E k \in DOMAIN chain' : chain'[k].producer = q /\ chain'[k].sequence = m
                      /\ \A k, l \in DOMAIN chain' :
                           (chain'[k].producer = q /\ chain'[l].producer = q /\ k < l) =>
                               chain'[k].sequence < chain'[l].sequence
                      /\ stream'[q].closed \in {Open, stream'[q].through}
    BY DEF StreamAgrees
  <2>2. /\ \A k \in 1..n : chain[k].producer = q => chain[k].sequence \in 1..stream[q].through
        /\ \A m \in 1..stream[q].through :
              \E k \in 1..n : chain[k].producer = q /\ chain[k].sequence = m
        /\ \A k, l \in 1..n : (chain[k].producer = q /\ chain[l].producer = q /\ k < l) =>
              chain[k].sequence < chain[l].sequence
        /\ stream[q].closed \in {Open, stream[q].through}
    BY <1>1, <2>1 DEF StreamAgrees
  <2>3. CASE q # p
    <3>1. stream'[q] = stream[q] /\ chain'[n + 1].producer # q
      BY <1>11, <1>12, <1>15, <2>3
    <3>2. \A k \in DOMAIN chain' :
              chain'[k].producer = q => k \in 1..n /\ chain'[k] = chain[k]
      BY <1>12, <3>1
    <3>3. \A k \in 1..n : k \in DOMAIN chain' /\ chain'[k] = chain[k]
      BY <1>12
    <3> QED
      BY <2>2, <3>1, <3>2, <3>3
  <2>4. CASE q = p
    <3>1. stream[p].through \in Nat
      BY <1>8, <1>13 DEF Stream
    <3>2. stream'[q].through = stream[q].through + 1 /\ stream'[q].closed = Open
      BY <1>9, <1>15, <2>4 DEF p
    <3>3. chain'[n + 1].producer = q /\ chain'[n + 1].sequence = stream[q].through + 1
          /\ n + 1 \in DOMAIN chain'
      BY <1>9, <1>11, <1>12, <2>4 DEF p
    <3>4. \A k \in 1..n : k \in DOMAIN chain' /\ chain'[k] = chain[k] /\ k < n + 1
      BY <1>12
    <3>5. \A k \in DOMAIN chain' :
              chain'[k].producer = q => chain'[k].sequence \in 1..stream'[q].through
      BY <1>12, <2>2, <2>4, <3>1, <3>2, <3>3, <3>4
    <3>6. \A m \in 1..stream'[q].through :
              \E k \in DOMAIN chain' : chain'[k].producer = q /\ chain'[k].sequence = m
      BY <2>2, <2>4, <3>1, <3>2, <3>3, <3>4
    <3>7. \A k, l \in DOMAIN chain' :
              (chain'[k].producer = q /\ chain'[l].producer = q /\ k < l) =>
                  chain'[k].sequence < chain'[l].sequence
      <4> SUFFICES ASSUME NEW k \in DOMAIN chain', NEW l \in DOMAIN chain',
                          chain'[k].producer = q, chain'[l].producer = q, k < l
                   PROVE  chain'[k].sequence < chain'[l].sequence
        OBVIOUS
      <4>1. k \in 1..n
        BY <1>12
      <4>2. CASE l \in 1..n
        BY <2>2, <3>4, <4>1, <4>2
      <4>3. CASE l = n + 1
        BY <2>2, <2>4, <3>1, <3>3, <3>4, <4>1, <4>3
      <4> QED
        BY <1>12, <4>2, <4>3
    <3> QED
      BY <3>2, <3>5, <3>6, <3>7
  <2> QED
    BY <2>3, <2>4
<1>24. AnswersHold'
  <2>1. AnswersHold
    BY DEF IInv, Tables
  <2>2. \A b \in answers : b.at \in 1..n
    BY <1>1, <2>1 DEF AnswersHold
  <2>3. a.at = n + 1 /\ a.producer = p /\ a.id = c.id /\ a.payload = c.payload
    BY DEF p
  <2>4. n + 1 \in DOMAIN chain'
    BY <1>12
  <2>5. \A b \in answers' : b \in answers \/ b = a
    BY <1>7
  <2> HIDE DEF a
  <2> QED
    BY <1>11, <1>12, <2>1, <2>2, <2>3, <2>4, <2>5 DEF AnswersHold
<1> QED
  BY <1>2, <1>18, <1>19, <1>20, <1>21, <1>22, <1>23, <1>24 DEF IInv, Tables

\* Every step of every instance keeps the invariant.
LEMMA StepIInv ==
    ASSUME IInv, [SequencerNext]_sequencerVars
    PROVE  IInv'
<1>1. CASE UNCHANGED sequencerVars
  <2>1. UNCHANGED <<chain, source, stream>> /\ lock' = lock /\ pc' = pc /\ call' = call
        /\ place' = place /\ answers' = answers
    BY <1>1 DEF sequencerVars
  <2>2. AnswersHold' /\ answers' \subseteq Answer
    BY <2>1, AnswersKept
  <2>3. LockHeld'
    BY <2>1 DEF IInv, LockHeld
  <2>4. /\ lock' \in Worker \cup {Nobody}
        /\ pc' \in [Worker -> {"IDLE", "WAITING", "LOCKED", "PLACED"}]
        /\ call' \in [Worker -> Submission \cup Watermark \cup {NoCall}]
        /\ place' \in [Worker -> [at : Nat, prev : Seq(Payload)]]
    BY <2>1 DEF IInv, SequencerTypeOK
  <2> QED
    BY <2>1, <2>2, <2>3, <2>4, QuietStep
<1>2. ASSUME NEW w \in Worker, NEW c \in Submission \cup Watermark, Begin(w, c)
      PROVE  IInv'
  BY <1>2, BeginStep
<1>3. ASSUME NEW w \in Worker, Lock(w) PROVE IInv'
  BY <1>3, LockStep
<1>4. ASSUME NEW w \in Worker, Crash(w) \/ RefuseRecord(w) \/ KeepStream(w) PROVE IInv'
  <2>1. EndCall(w) /\ UNCHANGED <<chain, source, stream, answers>>
    BY <1>4 DEF Crash, RefuseRecord, KeepStream
  <2> QED
    BY <2>1, AnswersKept, QuietEnd
<1>5. ASSUME NEW w \in Worker, Replay(w) PROVE IInv'
  BY <1>5, ReplayStep
<1>6. ASSUME NEW w \in Worker, Place(w) PROVE IInv'
  BY <1>6, PlaceStep
<1>7. ASSUME NEW w \in Worker, Store(w) PROVE IInv'
  BY <1>7, StoreStep
<1>8. ASSUME NEW w \in Worker, CloseStream(w) PROVE IInv'
  BY <1>8, CloseStep
<1> QED
  BY <1>1, <1>2, <1>3, <1>4, <1>5, <1>6, <1>7, <1>8 DEF SequencerNext

\* The inductive invariant holds of every reachable state of the sequencer.
THEOREM SequencerInvariance == SequencerSpec => []IInv
<1>1. SequencerInit => IInv
  BY InitIInv
<1>2. IInv /\ [SequencerNext]_sequencerVars => IInv'
  BY StepIInv
<1> QED
  BY <1>1, <1>2, PTL DEF SequencerSpec

\* Every table and every call of the sequencer has its type.
THEOREM SequencerTypes == SequencerSpec => []SequencerTypeOK
<1>1. IInv => SequencerTypeOK
  BY DEF IInv
<1> QED
  BY <1>1, SequencerInvariance, PTL

\* However many instances sequence an attempt and wherever they die, its chain
\* has no gap and every row commits to exactly the rows before it.
THEOREM ChainIsAttested == SequencerSpec => []ChainAttests
<1>1. IInv => ChainAttests
  <2> SUFFICES ASSUME IInv PROVE ChainAttests
    OBVIOUS
  <2>1. PICK n \in Nat : DOMAIN chain = 1..n
    BY DEF IInv, Tables, Numbered
  <2>2. LastSequence = n
    BY <2>1, TailIsCount
  <2> QED
    BY <2>1, <2>2 DEF ChainAttests, ChainIsContiguous, IInv, Tables, Linked
<1> QED
  BY <1>1, SequencerInvariance, PTL

\* Every producer's records are in its own order with no gap, up to what the
\* stream row says was admitted, and a watermark equals that number.
THEOREM ProducerOrder == SequencerSpec => []ProducersContiguous
<1>1. IInv => ProducersContiguous
  <2> SUFFICES ASSUME IInv, NEW p \in Producer
               PROVE  LET mine == {k \in DOMAIN chain : chain[k].producer = p}
                      IN  /\ {chain[k].sequence : k \in mine} = 1..stream[p].through
                          /\ \A k, l \in mine : k < l => chain[k].sequence < chain[l].sequence
                          /\ stream[p].closed \in {Open, stream[p].through}
    BY DEF ProducersContiguous
  <2> DEFINE mine == {k \in DOMAIN chain : chain[k].producer = p}
  <2>1. /\ \A k \in mine : chain[k].sequence \in 1..stream[p].through
        /\ \A n \in 1..stream[p].through : \E k \in mine : chain[k].sequence = n
        /\ \A k, l \in mine : k < l => chain[k].sequence < chain[l].sequence
        /\ stream[p].closed \in {Open, stream[p].through}
    BY DEF IInv, Tables, StreamAgrees
  <2>2. {chain[k].sequence : k \in mine} = 1..stream[p].through
    <3> HIDE DEF mine
    <3> QED
      BY <2>1
  <2> QED
    BY <2>1, <2>2
<1> QED
  BY <1>1, SequencerInvariance, PTL

\* An answer once given, to a submission or to a resubmission, stays true.
THEOREM AnswersStayTrue == SequencerSpec => []AnswersHold
<1>1. IInv => AnswersHold
  BY DEF IInv, Tables
<1> QED
  BY <1>1, SequencerInvariance, PTL

\* No call, however it ends, leaves the attempt's lock held: its holder is always
\* in the middle of a transaction.
THEOREM LockReleased == SequencerSpec => []LockNotStranded
<1>1. SequencerInit => LockNotStranded
  BY DEF SequencerInit, LockNotStranded
<1>2. SequencerTypeOK /\ LockNotStranded /\ [SequencerNext]_sequencerVars => LockNotStranded'
  <2> SUFFICES ASSUME SequencerTypeOK, LockNotStranded, [SequencerNext]_sequencerVars PROVE LockNotStranded'
    OBVIOUS
  <2>1. pc \in [Worker -> {"IDLE", "WAITING", "LOCKED", "PLACED"}] /\ lock \in Worker \cup {Nobody}
    BY DEF SequencerTypeOK
  <2>2. CASE UNCHANGED sequencerVars
    BY <2>2 DEF LockNotStranded, sequencerVars
  <2>3. ASSUME NEW w \in Worker, EndCall(w) PROVE LockNotStranded'
    BY <2>1, <2>3 DEF LockNotStranded, EndCall
  <2>4. ASSUME NEW w \in Worker, NEW c \in Submission \cup Watermark, Begin(w, c)
        PROVE  LockNotStranded'
    BY <2>1, <2>4 DEF LockNotStranded, Begin
  <2>5. ASSUME NEW w \in Worker, Lock(w) PROVE LockNotStranded'
    BY <2>1, <2>5 DEF LockNotStranded, Lock
  <2>6. ASSUME NEW w \in Worker, Place(w) PROVE LockNotStranded'
    BY <2>1, <2>6 DEF LockNotStranded, Place
  <2> QED
    BY <2>2, <2>3, <2>4, <2>5, <2>6
       DEF SequencerNext, Crash, Replay, RefuseRecord, Store, CloseStream, KeepStream
<1> QED
  BY <1>1, <1>2, SequencerTypes, PTL DEF SequencerSpec

-----------------------------------------------------------------------------
(* What one step may do to the log.                                        *)

\* Only an admission and a closing watermark write a table.
LEMMA TableWriters ==
    ASSUME [SequencerNext]_sequencerVars
    PROVE  \/ UNCHANGED <<chain, stream>>
           \/ \E w \in Worker : Store(w) \/ CloseStream(w)
  BY DEF SequencerNext, sequencerVars, Begin, Lock, Crash, Replay, RefuseRecord, Place, KeepStream

\* An admission in one view: the record that was placed is appended for an open
\* producer that had not submitted it before.
LEMMA StoreAppends ==
    ASSUME IInv, NEW w \in Worker, Store(w), NEW n \in Nat, DOMAIN chain = 1..n
    PROVE  LET c == call[w]
           IN  /\ c.producer \in Producer /\ c.id \in Id /\ c.payload \in Payload
               /\ stream[c.producer].closed = Open
               /\ source[c.producer][c.id] = Absent
               /\ DOMAIN chain' = 1..(n + 1)
               /\ \A k \in 1..n : chain'[k] = chain[k]
               /\ chain'[n + 1].producer = c.producer
               /\ chain'[n + 1].id = c.id /\ chain'[n + 1].payload = c.payload
               /\ \A q \in Producer : stream'[q].closed = stream[q].closed
<1> DEFINE c == call[w]
           new == [producer |-> c.producer, id |-> c.id, payload |-> c.payload,
                   sequence |-> c.sequence, prev |-> place[w].prev]
<1>1. pc[w] = "PLACED"
  BY DEF Store
<1>2. /\ c \in Submission
      /\ Admissible(c)
      /\ place[w] = [at |-> LastSequence + 1, prev |-> TailLink]
  BY <1>1 DEF IInv, PlaceCurrent
<1>3. place[w].at = n + 1
  BY <1>2, TailIsCount
<1>4. /\ chain' = [k \in DOMAIN chain \cup {n + 1} |-> IF k = n + 1 THEN new ELSE chain[k]]
      /\ stream' = [stream EXCEPT ![c.producer] =
                      [known |-> TRUE, through |-> c.sequence,
                       closed |-> stream[c.producer].closed]]
  BY <1>3 DEF Store
<1>5. c.producer \in Producer /\ c.id \in Id /\ c.payload \in Payload
  BY <1>2 DEF Submission
<1>6. stream[c.producer].closed = Open /\ source[c.producer][c.id] = Absent
  BY <1>2 DEF Admissible, Resubmitted
<1>7. new.producer = c.producer /\ new.id = c.id /\ new.payload = c.payload
  OBVIOUS
<1>8. stream \in [Producer -> Stream]
  BY DEF IInv, SequencerTypeOK
<1> HIDE DEF new, c
<1>9. (1..n) \cup {n + 1} = 1..(n + 1) /\ \A k \in 1..n : k # n + 1
  OBVIOUS
<1>10. /\ DOMAIN chain' = 1..(n + 1)
       /\ \A k \in 1..n : chain'[k] = chain[k]
       /\ chain'[n + 1] = new
  BY <1>4, <1>9
<1>11. \A q \in Producer : stream'[q].closed = stream[q].closed
  BY <1>4, <1>5, <1>8
<1> QED
  BY <1>5, <1>6, <1>7, <1>10, <1>11 DEF c

\* A closing watermark in one view.
LEMMA CloseCloses ==
    ASSUME IInv, NEW w \in Worker, CloseStream(w)
    PROVE  /\ call[w].producer \in Producer
           /\ stream'[call[w].producer].closed # Open
           /\ \A q \in Producer : q # call[w].producer => stream'[q] = stream[q]
           /\ chain' = chain
<1> DEFINE c == call[w]
<1>1. c.op = "CLOSE" /\ stream' = [stream EXCEPT ![c.producer].closed = c.sequence]
      /\ chain' = chain
  BY DEF CloseStream, Serving
<1>2. c \in Submission \cup Watermark \cup {NoCall}
  BY DEF IInv, SequencerTypeOK
<1>3. c \in Watermark
  BY <1>1, <1>2 DEF Submission, NoCall
<1>4. c.producer \in Producer /\ c.sequence \in Nat
  BY <1>3, SequencerAssumption DEF Watermark
<1>5. stream \in [Producer -> Stream]
  BY DEF IInv, SequencerTypeOK
<1> HIDE DEF c
<1>6. stream'[c.producer].closed = c.sequence
  BY <1>1, <1>4, <1>5 DEF Stream
<1>7. c.sequence # Open
  BY <1>4 DEF Open
<1>8. \A q \in Producer : q # c.producer => stream'[q] = stream[q]
  BY <1>1, <1>4, <1>5
<1> QED
  BY <1>1, <1>4, <1>6, <1>7, <1>8 DEF c

\* Once every required producer has closed, they stay closed and the chain
\* gains no row of theirs, in any step of any instance.
THEOREM CompletenessIsFinal == SequencerSpec => CompleteIsFinal
<1>1. ASSUME IInv, [SequencerNext]_sequencerVars, TailsClosed
      PROVE  /\ TailsClosed'
             /\ \A k \in DOMAIN chain' \ DOMAIN chain : chain'[k].producer \notin Required
  <2>1. CASE UNCHANGED <<chain, stream>>
    BY <1>1, <2>1 DEF TailsClosed
  <2>2. ASSUME NEW w \in Worker, Store(w)
        PROVE  /\ TailsClosed'
               /\ \A k \in DOMAIN chain' \ DOMAIN chain : chain'[k].producer \notin Required
    <3>1. PICK n \in Nat : DOMAIN chain = 1..n
      BY <1>1 DEF IInv, Tables, Numbered
    <3>2. /\ stream[call[w].producer].closed = Open
          /\ DOMAIN chain' = 1..(n + 1)
          /\ chain'[n + 1].producer = call[w].producer
          /\ \A q \in Producer : stream'[q].closed = stream[q].closed
      BY <1>1, <2>2, <3>1, StoreAppends
    <3>3. TailsClosed'
      BY <1>1, <3>2, SequencerAssumption DEF TailsClosed
    <3>4. \A k \in DOMAIN chain' \ DOMAIN chain : k = n + 1
      BY <3>1, <3>2
    <3> QED
      BY <1>1, <3>2, <3>3, <3>4 DEF TailsClosed
  <2>3. ASSUME NEW w \in Worker, CloseStream(w)
        PROVE  /\ TailsClosed'
               /\ \A k \in DOMAIN chain' \ DOMAIN chain : chain'[k].producer \notin Required
    <3>1. /\ stream'[call[w].producer].closed # Open
          /\ \A q \in Producer : q # call[w].producer => stream'[q] = stream[q]
          /\ chain' = chain
      BY <1>1, <2>3, CloseCloses
    <3> QED
      BY <1>1, <3>1, SequencerAssumption DEF TailsClosed
  <2> QED
    BY <1>1, <2>1, <2>2, <2>3, TableWriters
<1>2. IInv /\ [SequencerNext]_sequencerVars =>
          [TailsClosed =>
             /\ TailsClosed'
             /\ \A k \in DOMAIN chain' \ DOMAIN chain : chain'[k].producer \notin Required]_sequencerVars
  BY <1>1
<1> QED
  BY <1>2, SequencerInvariance, PTL DEF SequencerSpec, CompleteIsFinal

-----------------------------------------------------------------------------
(* The abstract log.                                                       *)

\* What a reader sees of the chain, and the producers that ended.
View  == [k \in DOMAIN chain |-> [producer |-> chain[k].producer, id |-> chain[k].id,
                                  payload |-> chain[k].payload]]
Ended == {p \in Producer : stream[p].closed # Open}

\* Appending to a sequence of known length, written out.
LEMMA AppendAt ==
    ASSUME NEW S, NEW n \in Nat, NEW f \in [1..n -> S], NEW e \in S,
           NEW g, g = [k \in 1..(n + 1) |-> IF k = n + 1 THEN e ELSE f[k]]
    PROVE  g = Append(f, e)
<1>1. f \in Seq(S) /\ Len(f) = n
  OBVIOUS
<1>2. PICK h : h = Append(f, e)
  OBVIOUS
<1>3. /\ h \in Seq(S) /\ Len(h) = n + 1
      /\ h[n + 1] = e /\ \A k \in 1..n : h[k] = f[k]
  BY <1>1, <1>2, AppendProperties
<1>4. h \in [1..(n + 1) -> S]
  BY <1>3
<1>5. \A k \in 1..(n + 1) : k \in 1..n \/ k = n + 1
  OBVIOUS
<1>6. \A k \in 1..(n + 1) : h[k] = g[k]
  BY <1>3, <1>5
<1>7. h = g
  BY <1>4, <1>6
<1> QED
  BY <1>2, <1>7

\* A stored record is an admission of the abstract log.
LEMMA StoreAdmits ==
    ASSUME IInv, NEW w \in Worker, Store(w)
    PROVE  Log!Next
<1> DEFINE c == call[w]
           e == [producer |-> c.producer, id |-> c.id, payload |-> c.payload]
           R == [producer : Producer, id : Id, payload : Payload]
<1>1. PICK n \in Nat : DOMAIN chain = 1..n
  BY DEF IInv, Tables, Numbered
<1>2. /\ c.producer \in Producer /\ c.id \in Id /\ c.payload \in Payload
      /\ stream[c.producer].closed = Open
      /\ source[c.producer][c.id] = Absent
      /\ DOMAIN chain' = 1..(n + 1)
      /\ \A k \in 1..n : chain'[k] = chain[k]
      /\ chain'[n + 1].producer = c.producer
      /\ chain'[n + 1].id = c.id /\ chain'[n + 1].payload = c.payload
      /\ \A q \in Producer : stream'[q].closed = stream[q].closed
  BY <1>1, StoreAppends
<1>3. \A k \in DOMAIN chain : chain[k].producer # c.producer \/ chain[k].id # c.id
  <2>1. \A k \in DOMAIN chain : k # 0 /\ source[chain[k].producer][chain[k].id] = k
    BY <1>1 DEF IInv, Tables, SourceAgrees
  <2> QED
    BY <1>2, <2>1 DEF Absent
<1>4. \A k \in DOMAIN chain : chain[k].producer \in Producer /\ chain[k].id \in Id
                              /\ chain[k].payload \in Payload
  <2>1. \A k \in DOMAIN chain : chain[k] \in Row
    BY DEF IInv, SequencerTypeOK
  <2> QED
    BY <2>1 DEF Row
<1>5. View \in [1..n -> R] /\ e \in R
  BY <1>1, <1>2, <1>4 DEF View
<1> HIDE DEF c
<1>6. View' = [k \in 1..(n + 1) |-> IF k = n + 1 THEN e ELSE View[k]]
  <2>1. View' = [k \in 1..(n + 1) |-> [producer |-> chain'[k].producer, id |-> chain'[k].id,
                                       payload |-> chain'[k].payload]]
    BY <1>2 DEF View
  <2>2. \A k \in 1..n : View[k] = [producer |-> chain[k].producer, id |-> chain[k].id,
                                   payload |-> chain[k].payload]
    BY <1>1 DEF View
  <2>3. \A k \in 1..(n + 1) : k # n + 1 => k \in 1..n
    OBVIOUS
  <2> QED
    BY <1>2, <2>1, <2>2, <2>3
<1>7. View' = Append(View, e)
  BY <1>5, <1>6, AppendAt
<1>8. Ended' = Ended /\ c.producer \notin Ended
  BY <1>2 DEF Ended
<1>9. \A k \in DOMAIN View : View[k].producer # c.producer \/ View[k].id # c.id
  BY <1>3 DEF View
<1>10. \E q \in Producer, i \in Id, x \in Payload :
           /\ q \notin Ended
           /\ \A k \in DOMAIN View : View[k].producer # q \/ View[k].id # i
           /\ View' = Append(View, [producer |-> q, id |-> i, payload |-> x])
           /\ Ended' = Ended
  BY <1>2, <1>7, <1>8, <1>9
<1> QED
  BY <1>10 DEF Log!Next, Log!Admit, View, Ended

\* An accepted watermark ends its producer in the abstract log.
LEMMA CloseEnds ==
    ASSUME IInv, NEW w \in Worker, CloseStream(w)
    PROVE  Log!Next
<1>1. /\ call[w].producer \in Producer
      /\ stream'[call[w].producer].closed # Open
      /\ \A q \in Producer : q # call[w].producer => stream'[q] = stream[q]
      /\ chain' = chain
  BY CloseCloses
<1>2. Ended' = Ended \cup {call[w].producer}
  BY <1>1 DEF Ended
<1>3. View' = View
  BY <1>1 DEF View
<1> QED
  BY <1>1, <1>2, <1>3 DEF Log!Next, Log!End, View, Ended

\* The locked, replaying, crashing sequencer implements the append-only log:
\* readers see each record once, in one order that never changes, and nothing
\* from a producer after its watermark.
THEOREM SequencerImplementsLog == SequencerSpec => ImplementsLog
<1>1. SequencerInit => Log!Init
  <2> SUFFICES ASSUME SequencerInit PROVE Log!Init
    OBVIOUS
  <2>1. DOMAIN chain = {} /\ \A p \in Producer : stream[p].closed = Open
    BY DEF SequencerInit
  <2>2. View = <<>> /\ Ended = {}
    BY <2>1 DEF View, Ended
  <2> QED
    BY <2>2 DEF Log!Init, View, Ended
<1>2. IInv /\ [SequencerNext]_sequencerVars => [Log!Next]_<<View, Ended>>
  <2> SUFFICES ASSUME IInv, [SequencerNext]_sequencerVars PROVE [Log!Next]_<<View, Ended>>
    OBVIOUS
  <2>1. CASE UNCHANGED <<chain, stream>>
    BY <2>1 DEF View, Ended
  <2>2. CASE \E w \in Worker : Store(w) \/ CloseStream(w)
    BY <2>2, StoreAdmits, CloseEnds
  <2> QED
    BY <2>1, <2>2, TableWriters
<1>3. Log!Init /\ [][Log!Next]_<<View, Ended>> => ImplementsLog
  BY DEF ImplementsLog, Log!Spec, View, Ended
<1> QED
  BY <1>1, <1>2, <1>3, SequencerInvariance, PTL DEF SequencerSpec

-----------------------------------------------------------------------------
(* Retention and deletion.                                                 *)

Rows == [state : {"NONE", "QUARANTINED", "PROMOTED"}, retention : {"RETAINED", "DELETED"}]
Pairs == Deletions \X Kinds
Purges == [pc : {"idle", "claim", "delete", "count"}, held : SUBSET Pairs, done : SUBSET Pairs,
           failed : SUBSET Pairs]
Retainers == [pc : {"idle", "next", "write", "promote"}, todo : SUBSET Kinds, at : SUBSET Kinds]

RetentionTyped ==
  /\ row \in [Kinds -> Rows] /\ cleared \subseteq Classes /\ evaluated \in BOOLEAN
  /\ store \subseteq Kinds /\ late \subseteq doubt /\ doubt \subseteq Kinds
  /\ enqueued \in [Deletions -> SUBSET Kinds] /\ queue \subseteq Pairs
  /\ report \in [Deletions -> {"none", "recorded", "gone", "pending"}]
  /\ retainer \in Retainers /\ finalizer \in {"idle", "decide"}
  /\ purger \in [Purgers -> Purges] /\ faults \in 0 .. MaxFaults

\* What is deleted was a row, and who writes an object holds a row that is retained.
RowsAgree ==
  /\ \A k \in Kinds : row[k].state = "NONE" => row[k].retention = "RETAINED"
  /\ retainer.pc \in {"write", "promote"} =>
       finalizer = "idle" /\ \A k \in retainer.at : k \in Kinds => row[k].retention = "RETAINED"

\* Each key is promised by one deletion, which marked its row, and is queued by no other.
PromisedOnce ==
  /\ \A d \in Deletions : report[d] = "none" => enqueued[d] = {}
  /\ \A d \in Deletions : \A k \in enqueued[d] : row[k].retention = "DELETED"
  /\ \A d, e \in Deletions : \A k \in enqueued[d] : k \in enqueued[e] => d = e
  /\ \A d \in Deletions, k \in Kinds : <<d, k>> \in queue => k \in enqueued[d]

\* SKIP LOCKED: a pair is in one batch, still queued, and released before it is dropped.
BatchesApart ==
  /\ \A p, q \in Purgers : \A x \in purger[p].held : x \in purger[q].held => p = q
  /\ \A p \in Purgers : /\ purger[p].done \cup purger[p].failed \subseteq purger[p].held
                        /\ purger[p].held \subseteq queue
                        /\ \A x \in purger[p].done : x[2] \in store => x[2] \in doubt

\* What the finalizer has read stays as it read it until it commits.
DecisionStands ==
  finalizer = "decide" =>
    /\ retainer.pc \in {"idle", "next"} /\ cleared = {} /\ Kinds \subseteq store
    /\ \A k \in Kinds : row[k] = [state |-> "PROMOTED", retention |-> "RETAINED"]

RetentionInv ==
  /\ RetentionTyped /\ RowsAgree /\ PromisedOnce /\ BatchesApart /\ DecisionStands
  /\ DeletionIsHonest

LEMMA RetentionBegins == RetentionInit => RetentionInv
<1> SUFFICES ASSUME RetentionInit PROVE RetentionInv
    OBVIOUS
<1>1. RetentionTyped
  <2>1. row \in [Kinds -> Rows]
      BY DEF RetentionInit, NoRow, Rows
  <2>2. purger \in [Purgers -> Purges]
      BY DEF RetentionInit, IdlePurge, Purges
  <2>3. retainer \in Retainers
      BY DEF RetentionInit, Retainers
  <2>4. /\ enqueued \in [Deletions -> SUBSET Kinds]
        /\ report \in [Deletions -> {"none", "recorded", "gone", "pending"}]
      BY DEF RetentionInit
  <2>5. faults \in 0 .. MaxFaults
      BY FaultAssumption DEF RetentionInit
  <2>6. /\ cleared = {} /\ evaluated = FALSE /\ store = {} /\ late = {} /\ doubt = {}
        /\ queue = {} /\ finalizer = "idle"
      BY DEF RetentionInit
  <2> QED
      BY <2>1, <2>2, <2>3, <2>4, <2>5, <2>6 DEF RetentionTyped
<1>2. \A k \in Kinds : row[k].retention = "RETAINED"
    BY DEF RetentionInit, NoRow
<1>3. RowsAgree /\ PromisedOnce /\ DecisionStands /\ DeletionIsHonest
    BY <1>2 DEF RetentionInit, RowsAgree, PromisedOnce, DecisionStands, DeletionIsHonest
<1>4. BatchesApart
    BY DEF RetentionInit, BatchesApart, IdlePurge
<1> QED
    BY <1>1, <1>3, <1>4 DEF RetentionInv

\* Deletions are promised for rows only; the pairs of a batch are promised.
LEMMA BatchIsPromised ==
    ASSUME RetentionInv, NEW p \in Purgers, NEW x \in purger[p].held
    PROVE  /\ x \in queue /\ x[1] \in Deletions /\ x[2] \in Kinds /\ x = <<x[1], x[2]>>
           /\ row[x[2]].retention = "DELETED"
    BY DEF RetentionInv, BatchesApart, RetentionTyped, Pairs, PromisedOnce

-----------------------------------------------------------------------------
(* Retaining and deciding.                                                 *)

LEMMA PlanKeeps == RetentionInv /\ PlanBundle => RetentionInv'
<1> SUFFICES ASSUME RetentionInv, PlanBundle PROVE RetentionInv'
    OBVIOUS
<1>1. /\ row' = [k \in Kinds |-> IF Exists(k) THEN row[k] ELSE [NoRow EXCEPT !.state = "QUARANTINED"]]
      /\ retainer' = [retainer EXCEPT !.pc = "next", !.todo = Kinds]
      /\ UNCHANGED <<cleared, evaluated, store, late, doubt, enqueued, queue, report, purger,
                     finalizer, faults>>
      /\ finalizer = "idle"
    BY DEF PlanBundle, storeVars, queueVars, RunFree
<1>2. \A k \in Kinds : row[k].retention = "RETAINED"
    BY DEF PlanBundle, Exists, Retained, RetentionInv, RowsAgree
<1>3. row' \in [Kinds -> Rows] /\ \A k \in Kinds : row'[k].retention = "RETAINED" /\ row'[k].state # "NONE"
    BY <1>1, <1>2 DEF RetentionInv, RetentionTyped, Rows, NoRow, Exists
<1>4. retainer' \in Retainers /\ retainer'.pc = "next"
    BY <1>1 DEF RetentionInv, RetentionTyped, Retainers
<1>5. RetentionTyped'
    BY <1>1, <1>3, <1>4 DEF RetentionInv, RetentionTyped
<1>6. RowsAgree' /\ DecisionStands' /\ DeletionIsHonest'
    BY <1>1, <1>3, <1>4 DEF RetentionInv, RowsAgree, DecisionStands, DeletionIsHonest
<1>7. PromisedOnce'
    BY <1>1, <1>2, <1>3 DEF RetentionInv, RetentionTyped, PromisedOnce
<1>8. BatchesApart'
    BY <1>1 DEF RetentionInv, BatchesApart
<1> QED
    BY <1>5, <1>6, <1>7, <1>8 DEF RetentionInv

\* What the retainer does besides planning: it moves itself, may write an object of a row it
\* holds, and may promote that row.
LEMMA RetainerStep ==
    ASSUME RetentionInv, retainer' \in Retainers, row' \in [Kinds -> Rows],
           \A k \in Kinds : /\ row'[k].retention = row[k].retention
                            /\ row[k].state # "NONE" => row'[k].state # "NONE",
           row' = row \/ retainer.pc \in {"write", "promote"},
           retainer'.pc \in {"write", "promote"} =>
             finalizer = "idle" /\ \A k \in retainer'.at : k \in Kinds => row[k].retention = "RETAINED",
           store \subseteq store', store' \subseteq Kinds,
           \A k \in store' \ store : row[k].retention = "RETAINED" \/ k \in doubt,
           late' \subseteq doubt', doubt \subseteq doubt', doubt' \subseteq Kinds,
           faults' \in 0 .. MaxFaults,
           UNCHANGED <<cleared, evaluated, enqueued, queue, report, purger, finalizer>>
    PROVE  RetentionInv'
<1>1. RetentionTyped'
    BY DEF RetentionInv, RetentionTyped
<1>2. RowsAgree'
    BY DEF RetentionInv, RowsAgree
<1>3. PromisedOnce'
    BY DEF RetentionInv, RetentionTyped, PromisedOnce
<1>4. BatchesApart'
  <2>1. ASSUME NEW p \in Purgers, NEW x \in purger[p].done, x[2] \in store' PROVE x[2] \in doubt'
    <3>1. x \in purger[p].held
        BY DEF RetentionInv, BatchesApart
    <3>2. row[x[2]].retention = "DELETED"
        BY <3>1, BatchIsPromised
    <3> QED
        BY <2>1, <3>2 DEF RetentionInv, BatchesApart
  <2> QED
      BY <2>1 DEF RetentionInv, BatchesApart
<1>5. DecisionStands'
  <2>1. finalizer = "decide" => retainer.pc \notin {"write", "promote"} /\ row' = row
      BY DEF RetentionInv, RowsAgree, DecisionStands
  <2>2. finalizer = "decide" => retainer'.pc \in {"idle", "next"}
      BY DEF Retainers
  <2> QED
      BY <2>1, <2>2 DEF RetentionInv, DecisionStands
<1>6. DeletionIsHonest'
  <2>1. ASSUME NEW k \in Kinds, row'[k].retention = "DELETED", k \in store'
        PROVE  k \in doubt' \/ \E d \in Deletions : <<d, k>> \in queue'
      BY <2>1 DEF RetentionInv, DeletionIsHonest
  <2>2. ASSUME NEW d \in Deletions, report'[d] = "gone", NEW k \in enqueued'[d], k \in store'
        PROVE  k \in doubt'
      BY <2>2 DEF RetentionInv, DeletionIsHonest, PromisedOnce
  <2> QED
      BY <2>1, <2>2 DEF DeletionIsHonest
<1> QED
    BY <1>1, <1>2, <1>3, <1>4, <1>5, <1>6 DEF RetentionInv

LEMMA RetainKeeps == RetentionInv /\ RetainStep => RetentionInv'
<1> SUFFICES ASSUME RetentionInv, RetainStep PROVE RetentionInv'
    OBVIOUS
<1>0. /\ retainer \in Retainers /\ row \in [Kinds -> Rows] /\ store \subseteq Kinds
      /\ late \subseteq doubt /\ doubt \subseteq Kinds /\ faults \in 0 .. MaxFaults
      /\ GiveUp \in Retainers /\ GiveUp.pc = "idle"
      /\ \A k \in Kinds : {k} \in SUBSET Kinds
    BY DEF RetentionInv, RetentionTyped, GiveUp, Retainers
<1>1. CASE CrashRetainer
  <2>1. /\ retainer' = GiveUp /\ faults' = faults + 1 /\ faults < MaxFaults
        /\ UNCHANGED <<row, cleared, evaluated, store, late, doubt, enqueued, queue, report, purger,
                       finalizer>>
      BY <1>1 DEF CrashRetainer, rowVars, storeVars, queueVars
  <2>2. faults' \in 0 .. MaxFaults
      BY <1>0, <2>1, FaultAssumption
  <2> QED
      BY <1>0, <2>1, <2>2, RetainerStep
<1>2. ASSUME NEW k \in Kinds, LockArtifact(k) PROVE RetentionInv'
  <2>1. /\ UNCHANGED <<row, cleared, evaluated, store, late, doubt, enqueued, queue, report, purger,
                       finalizer, faults>>
        /\ finalizer = "idle"
        /\ \/ retainer' = GiveUp
           \/ retainer' = [retainer EXCEPT !.pc = "write", !.at = {k}] /\ row[k].retention = "RETAINED"
      BY <1>2 DEF LockArtifact, rowVars, storeVars, queueVars, RunFree, Writable, Retained
  <2>2. /\ retainer' \in Retainers
        /\ retainer'.pc = "write" => retainer'.at = {k} /\ row[k].retention = "RETAINED"
        /\ retainer'.pc \in {"idle", "write"}
      BY <1>0, <2>1 DEF Retainers
  <2> QED
      BY <1>0, <2>1, <2>2, RetainerStep
<1>3. ASSUME NEW k \in Kinds, WriteObject(k) PROVE RetentionInv'
  <2>1. /\ UNCHANGED <<row, cleared, evaluated, enqueued, queue, report, purger, finalizer>>
        /\ retainer.pc = "write" /\ retainer.at = {k}
        /\ retainer' = GiveUp \/ retainer' = [retainer EXCEPT !.pc = "promote"]
        /\ store' = store \/ store' = store \cup {k}
        /\ \/ UNCHANGED <<late, doubt, faults>>
           \/ /\ late' = late \cup {k} /\ doubt' = doubt \cup {k}
              /\ faults' = faults + 1 /\ faults < MaxFaults
      BY <1>3 DEF WriteObject, rowVars, storeVars, queueVars
  <2>2. finalizer = "idle" /\ row[k].retention = "RETAINED"
      BY <2>1 DEF RetentionInv, RowsAgree
  <2>3. /\ retainer' \in Retainers /\ (retainer'.pc # "idle" => retainer'.at = {k})
      BY <1>0, <2>1 DEF Retainers
  <2>4. faults' \in 0 .. MaxFaults
      BY <1>0, <2>1, FaultAssumption
  <2>5. late' \subseteq doubt' /\ doubt \subseteq doubt' /\ doubt' \subseteq Kinds
      BY <1>0, <2>1
  <2>6. store \subseteq store' /\ store' \subseteq Kinds /\ \A j \in store' \ store : j = k
      BY <1>0, <2>1
  <2> QED
      BY <1>0, <2>1, <2>2, <2>3, <2>4, <2>5, <2>6, RetainerStep
<1>4. ASSUME NEW k \in Kinds, Promote(k) PROVE RetentionInv'
  <2>1. /\ UNCHANGED <<cleared, evaluated, store, late, doubt, enqueued, queue, report, purger,
                       finalizer, faults>>
        /\ retainer.pc = "promote"
        /\ \/ row' = row
           \/ row' = [row EXCEPT ![k].state = "PROMOTED"]
      BY <1>4 DEF Promote, storeVars, queueVars
  <2>2. \/ retainer' = GiveUp
        \/ retainer' = [pc |-> "next", todo |-> retainer.todo \ {k}, at |-> {}]
      BY <1>4 DEF Promote
  <2>3. retainer' \in Retainers /\ retainer'.pc \in {"idle", "next"}
      BY <1>0, <2>2 DEF Retainers
  <2>4. /\ row' \in [Kinds -> Rows]
        /\ \A j \in Kinds : /\ row'[j].retention = row[j].retention
                            /\ row[j].state # "NONE" => row'[j].state # "NONE"
      BY <1>0, <2>1 DEF Rows
  <2> QED
      BY <1>0, <2>1, <2>3, <2>4, RetainerStep
<1>5. ASSUME NEW k \in Kinds, LatePutLands(k) PROVE RetentionInv'
  <2>1. /\ UNCHANGED <<row, cleared, evaluated, doubt, enqueued, queue, report, purger, retainer,
                       finalizer, faults>>
        /\ k \in late /\ late' = late \ {k} /\ (store' = store \/ store' = store \cup {k})
      BY <1>5 DEF LatePutLands, rowVars, queueVars
  <2>2. /\ store \subseteq store' /\ store' \subseteq Kinds /\ late' \subseteq doubt'
        /\ \A j \in store' \ store : j \in doubt
      BY <1>0, <2>1
  <2>3. retainer.pc \in {"write", "promote"} =>
          finalizer = "idle" /\ \A j \in retainer.at : j \in Kinds => row[j].retention = "RETAINED"
      BY DEF RetentionInv, RowsAgree
  <2> QED
      BY <1>0, <2>1, <2>2, <2>3, RetainerStep
<1> QED
    BY <1>1, <1>2, <1>3, <1>4, <1>5, PlanKeeps DEF RetainStep

LEMMA DecideKeeps == RetentionInv /\ (BeginFinalize \/ CommitFinalize) => RetentionInv'
<1> SUFFICES ASSUME RetentionInv, BeginFinalize \/ CommitFinalize PROVE RetentionInv'
    OBVIOUS
<1>1. /\ UNCHANGED <<row, cleared, store, late, doubt, enqueued, queue, report, purger, retainer, faults>>
      /\ finalizer' \in {"idle", "decide"} /\ evaluated' \in BOOLEAN
    BY DEF BeginFinalize, CommitFinalize, rowVars, storeVars, queueVars, RetentionInv, RetentionTyped
<1>2. RetentionTyped'
    BY <1>1 DEF RetentionInv, RetentionTyped
<1>3. PromisedOnce' /\ BatchesApart' /\ DeletionIsHonest'
    BY <1>1 DEF RetentionInv, PromisedOnce, BatchesApart, DeletionIsHonest
<1>4. finalizer' = "decide" =>
        /\ retainer.pc \in {"idle", "next"} /\ cleared = {} /\ Kinds \subseteq store
        /\ \A k \in Kinds : row[k] = [state |-> "PROMOTED", retention |-> "RETAINED"]
  <2>1. \A k \in Kinds : row[k] \in Rows
      BY DEF RetentionInv, RetentionTyped
  <2> QED
      BY <2>1 DEF BeginFinalize, CommitFinalize, RunFree, SourcesIntact, Rows
<1>5. RowsAgree' /\ DecisionStands'
    BY <1>1, <1>4 DEF RetentionInv, RowsAgree, DecisionStands
<1> QED
    BY <1>2, <1>3, <1>5 DEF RetentionInv

-----------------------------------------------------------------------------
(* Recording a deletion.                                                   *)

LEMMA RecordKeeps ==
    ASSUME RetentionInv, NEW d \in Deletions, NEW cs \in SUBSET Classes, RecordDeletion(d, cs)
    PROVE  RetentionInv'
<1> DEFINE marked == Marked(cs)
<1>1. /\ report[d] = "none" /\ finalizer = "idle" /\ retainer.pc \in {"idle", "next"}
      /\ row' = [k \in Kinds |-> IF k \in marked THEN [row[k] EXCEPT !.retention = "DELETED"]
                                 ELSE row[k]]
      /\ cleared' = cleared \cup cs
      /\ enqueued' = [enqueued EXCEPT ![d] = marked]
      /\ queue' = queue \cup ({d} \X marked)
      /\ report' = [report EXCEPT ![d] = "recorded"]
      /\ purger' = [purger EXCEPT ![d] = [IdlePurge EXCEPT !.pc = "claim"]]
      /\ UNCHANGED <<evaluated, store, late, doubt, retainer, finalizer, faults>>
    BY DEF RecordDeletion, storeVars, RowsFree, RunFree
<1>2. marked \subseteq Kinds /\ \A k \in marked : row[k].state # "NONE" /\ row[k].retention # "DELETED"
    BY DEF Marked, Exists
<1> HIDE DEF marked
<1>3. /\ row' \in [Kinds -> Rows]
      /\ \A k \in Kinds : /\ row'[k].state = row[k].state
                          /\ row'[k].retention = IF k \in marked THEN "DELETED" ELSE row[k].retention
    BY <1>1 DEF RetentionInv, RetentionTyped, Rows
<1>4. /\ purger' \in [Purgers -> Purges]
      /\ purger'[d].held = {} /\ purger'[d].done = {} /\ purger'[d].failed = {}
      /\ \A p \in Purgers : p # d => purger'[p] = purger[p]
  <2>1. [IdlePurge EXCEPT !.pc = "claim"] = [pc |-> "claim", held |-> {}, done |-> {}, failed |-> {}]
      BY DEF IdlePurge
  <2>2. [pc |-> "claim", held |-> {}, done |-> {}, failed |-> {}] \in Purges
      BY DEF Purges
  <2>3. d \in Purgers /\ purger \in [Purgers -> Purges]
      BY DEF Purgers, RetentionInv, RetentionTyped
  <2> QED
      BY <1>1, <2>1, <2>2, <2>3
<1>5. /\ enqueued \in [Deletions -> SUBSET Kinds] /\ enqueued' \in [Deletions -> SUBSET Kinds]
      /\ enqueued'[d] = marked /\ \A e \in Deletions : e # d => enqueued'[e] = enqueued[e]
      /\ report' \in [Deletions -> {"none", "recorded", "gone", "pending"}]
      /\ report'[d] = "recorded" /\ \A e \in Deletions : e # d => report'[e] = report[e]
    BY <1>1, <1>2 DEF RetentionInv, RetentionTyped
<1>6. RetentionTyped'
  <2>1. queue' \subseteq Pairs /\ cleared' \subseteq Classes
      BY <1>1, <1>2 DEF RetentionInv, RetentionTyped, Pairs
  <2> QED
      BY <1>1, <1>3, <1>4, <1>5, <2>1 DEF RetentionInv, RetentionTyped
<1>7. RowsAgree' /\ DecisionStands'
    BY <1>1, <1>2, <1>3 DEF RetentionInv, RowsAgree, DecisionStands
<1>8. PromisedOnce'
  <2>1. \A e \in Deletions : report'[e] = "none" => enqueued'[e] = {}
      BY <1>5 DEF RetentionInv, PromisedOnce
  <2>2. ASSUME NEW e \in Deletions, NEW k \in enqueued'[e] PROVE row'[k].retention = "DELETED"
      BY <1>2, <1>3, <1>5, <2>2 DEF RetentionInv, PromisedOnce
  <2>3. ASSUME NEW e \in Deletions, NEW f \in Deletions, NEW k \in enqueued'[e], k \in enqueued'[f]
        PROVE  e = f
      BY <1>2, <1>5, <2>3 DEF RetentionInv, PromisedOnce
  <2>4. ASSUME NEW e \in Deletions, NEW k \in Kinds, <<e, k>> \in queue' PROVE k \in enqueued'[e]
    <3>1. CASE <<e, k>> \in queue
      <4>1. k \in enqueued[e] /\ e # d
          BY <1>1, <3>1 DEF RetentionInv, PromisedOnce
      <4> QED
          BY <1>5, <4>1
    <3>2. CASE <<e, k>> \notin queue
        BY <1>1, <1>5, <2>4, <3>2
    <3> QED
        BY <3>1, <3>2
  <2> QED
      BY <2>1, <2>2, <2>3, <2>4 DEF PromisedOnce
<1>9. BatchesApart'
  <2>1. queue \subseteq queue' /\ store' = store /\ doubt' = doubt
      BY <1>1
  <2> QED
      BY <1>4, <2>1 DEF RetentionInv, BatchesApart
<1>10. DeletionIsHonest'
  <2>1. ASSUME NEW k \in Kinds, row'[k].retention = "DELETED", k \in store'
        PROVE  k \in doubt' \/ \E e \in Deletions : <<e, k>> \in queue'
    <3>1. CASE k \in marked
        BY <1>1, <3>1
    <3>2. CASE k \notin marked
        BY <1>1, <1>3, <2>1, <3>2 DEF RetentionInv, DeletionIsHonest
    <3> QED
        BY <3>1, <3>2
  <2>2. \A e \in Deletions : report'[e] = "gone" => enqueued'[e] \cap store' \subseteq doubt'
      BY <1>1, <1>5 DEF RetentionInv, DeletionIsHonest
  <2> QED
      BY <2>1, <2>2 DEF DeletionIsHonest
<1> QED
    BY <1>6, <1>7, <1>8, <1>9, <1>10 DEF RetentionInv

-----------------------------------------------------------------------------
(* Purging.                                                                *)

\* A purger keeps the invariant when its batch stays its own, when it drops only what the store
\* let go of, and when it calls a deletion gone only once nothing of it is queued.
LEMMA PurgerStep ==
    ASSUME RetentionInv, NEW p \in Purgers, NEW s \in Purges, purger' = [purger EXCEPT ![p] = s],
           queue' \subseteq queue, store' \subseteq store,
           s.held \subseteq queue', s.done \cup s.failed \subseteq s.held,
           \A x \in s.done : x[2] \in store' => x[2] \in doubt,
           \A q \in Purgers : q # p => purger[q].held \subseteq queue' /\ purger[q].held \cap s.held = {},
           \A x \in queue \ queue' : x[2] \in store' => x[2] \in doubt,
           finalizer = "decide" => Kinds \subseteq store',
           report' \in [Deletions -> {"none", "recorded", "gone", "pending"}],
           \A d \in Deletions : report'[d] = "none" => report[d] = "none",
           \A d \in Deletions : report'[d] = "gone" =>
             report[d] = "gone" \/ \A k \in Kinds : <<d, k>> \notin queue',
           faults' \in 0 .. MaxFaults,
           UNCHANGED <<row, cleared, evaluated, late, doubt, enqueued, retainer, finalizer>>
    PROVE  RetentionInv'
<1>1. /\ purger' \in [Purgers -> Purges] /\ purger'[p] = s
      /\ \A q \in Purgers : q # p => purger'[q] = purger[q]
    BY DEF RetentionInv, RetentionTyped
<1>2. RetentionTyped'
    BY <1>1 DEF RetentionInv, RetentionTyped
<1>3. RowsAgree' /\ DecisionStands'
    BY DEF RetentionInv, RowsAgree, DecisionStands
<1>4. PromisedOnce'
    BY DEF RetentionInv, PromisedOnce
<1>5. BatchesApart'
  <2>1. ASSUME NEW q \in Purgers, NEW r \in Purgers, NEW x \in purger'[q].held, x \in purger'[r].held
        PROVE  q = r
      BY <1>1, <2>1 DEF RetentionInv, BatchesApart
  <2>2. ASSUME NEW q \in Purgers
        PROVE  /\ purger'[q].done \cup purger'[q].failed \subseteq purger'[q].held
               /\ purger'[q].held \subseteq queue'
               /\ \A x \in purger'[q].done : x[2] \in store' => x[2] \in doubt'
    <3>1. CASE q = p
        BY <1>1, <3>1
    <3>2. CASE q # p
        BY <1>1, <3>2 DEF RetentionInv, BatchesApart
    <3> QED
        BY <3>1, <3>2
  <2> QED
      BY <2>1, <2>2 DEF BatchesApart
<1>6. ASSUME NEW k \in Kinds, row[k].retention = "DELETED", k \in store'
      PROVE  k \in doubt \/ \E d \in Deletions : <<d, k>> \in queue'
  <2>1. k \in doubt \/ \E d \in Deletions : <<d, k>> \in queue
      BY <1>6 DEF RetentionInv, DeletionIsHonest
  <2>2. ASSUME NEW d \in Deletions, <<d, k>> \in queue PROVE k \in doubt \/ <<d, k>> \in queue'
    <3>1. <<d, k>>[2] = k
        OBVIOUS
    <3> QED
        BY <1>6, <2>2, <3>1
  <2> QED
      BY <2>1, <2>2
<1>7. ASSUME NEW d \in Deletions, report'[d] = "gone", NEW k \in enqueued[d], k \in store'
      PROVE  k \in doubt
  <2>1. CASE report[d] = "gone"
      BY <1>7, <2>1 DEF RetentionInv, DeletionIsHonest
  <2>2. CASE \A j \in Kinds : <<d, j>> \notin queue'
    <3>1. k \in Kinds /\ row[k].retention = "DELETED"
        BY DEF RetentionInv, RetentionTyped, PromisedOnce
    <3>2. ASSUME NEW e \in Deletions, <<e, k>> \in queue' PROVE FALSE
      <4>1. k \in enqueued[e]
          BY <3>1, <3>2 DEF RetentionInv, PromisedOnce
      <4>2. e = d
          BY <4>1 DEF RetentionInv, PromisedOnce
      <4> QED
          BY <2>2, <3>1, <3>2, <4>2
    <3> QED
        BY <1>6, <1>7, <3>1, <3>2
  <2> QED
      BY <1>7, <2>1, <2>2
<1>8. DeletionIsHonest'
    BY <1>6, <1>7 DEF DeletionIsHonest
<1> QED
    BY <1>2, <1>3, <1>4, <1>5, <1>8 DEF RetentionInv

LEMMA PurgeKeeps == RetentionInv /\ PurgeStep => RetentionInv'
<1> SUFFICES ASSUME RetentionInv, NEW p \in Purgers,
                    \/ StartPurge(p) \/ ClaimBatch(p) \/ CommitBatch(p) \/ CountPending(p)
                    \/ CrashPurger(p) \/ \E q \in queue : ReleaseBytes(p, q) \/ StoreRefuses(p, q)
             PROVE  RetentionInv'
    BY DEF PurgeStep
<1>0. /\ purger \in [Purgers -> Purges] /\ queue \subseteq Pairs /\ faults \in 0 .. MaxFaults
      /\ report \in [Deletions -> {"none", "recorded", "gone", "pending"}]
      /\ finalizer = "decide" => Kinds \subseteq store
      /\ \A q \in Purgers : purger[q].held \subseteq queue
      /\ purger[p].done \cup purger[p].failed \subseteq purger[p].held
      /\ \A x \in purger[p].done : x[2] \in store => x[2] \in doubt
      /\ \A q \in Purgers : q # p => purger[q].held \cap purger[p].held = {}
    BY DEF RetentionInv, RetentionTyped, DecisionStands, BatchesApart
<1> DEFINE Empty(c) == [pc |-> c, held |-> {}, done |-> {}, failed |-> {}]
<1>a. \A c \in {"idle", "claim", "delete", "count"} : Empty(c) \in Purges
    BY DEF Purges
<1>b. IdlePurge = Empty("idle") /\ \A c : [IdlePurge EXCEPT !.pc = c] = Empty(c)
    BY DEF IdlePurge
\* Two steps that only put an empty batch in place.
<1>1. CASE StartPurge(p) \/ CrashPurger(p)
  <2>1. PICK c \in {"idle", "claim"} : purger' = [purger EXCEPT ![p] = Empty(c)]
      BY <1>1, <1>b DEF StartPurge, CrashPurger
  <2>2. /\ UNCHANGED <<row, cleared, evaluated, store, late, doubt, enqueued, queue, report, retainer,
                       finalizer>>
        /\ faults' = faults \/ (faults' = faults + 1 /\ faults < MaxFaults)
      BY <1>1 DEF StartPurge, CrashPurger, rowVars, storeVars
  <2>3. faults' \in 0 .. MaxFaults
      BY <1>0, <2>2, FaultAssumption
  <2>4. PICK s \in Purges : /\ purger' = [purger EXCEPT ![p] = s]
                            /\ s.held = {} /\ s.done = {} /\ s.failed = {}
      BY <1>a, <2>1
  <2>5. /\ s.held \subseteq queue' /\ s.done \cup s.failed \subseteq s.held
        /\ \A x \in s.done : x[2] \in store' => x[2] \in doubt
        /\ \A q \in Purgers : q # p => purger[q].held \subseteq queue' /\ purger[q].held \cap s.held = {}
        /\ queue' \subseteq queue /\ store' \subseteq store
        /\ \A x \in queue \ queue' : x[2] \in store' => x[2] \in doubt
      BY <1>0, <2>2, <2>4
  <2> QED
      BY <1>0, <2>2, <2>3, <2>4, <2>5, PurgerStep
<1>2. CASE ClaimBatch(p)
  <2>1. PICK b \in SUBSET (Scope(p) \ Claimed) :
          purger' = [purger EXCEPT ![p] = [pc |-> "delete", held |-> b, done |-> {}, failed |-> {}]]
      BY <1>2 DEF ClaimBatch
  <2>2. UNCHANGED <<row, cleared, evaluated, store, late, doubt, enqueued, queue, report, retainer,
                    finalizer, faults>>
      BY <1>2 DEF ClaimBatch, rowVars, storeVars
  <2>3. b \subseteq queue /\ \A q \in Purgers : purger[q].held \cap b = {}
      BY <2>1 DEF Scope, Claimed
  <2> DEFINE s == [pc |-> "delete", held |-> b, done |-> {}, failed |-> {}]
  <2>4. s \in Purges /\ s.held = b /\ s.done = {} /\ s.failed = {}
      BY <1>0, <2>3 DEF Purges
  <2>5. purger' = [purger EXCEPT ![p] = s]
      BY <2>1
  <2> HIDE DEF s
  <2> QED
      BY <1>0, <2>2, <2>3, <2>4, <2>5, PurgerStep
<1>3. ASSUME NEW x \in queue, ReleaseBytes(p, x) \/ StoreRefuses(p, x) PROVE RetentionInv'
  <2>1. PICK s : /\ purger' = [purger EXCEPT ![p] = s]
                 /\ \/ s = [purger[p] EXCEPT !.done = @ \cup {x}] /\ store' = store \ {x[2]}
                    \/ s = [purger[p] EXCEPT !.failed = @ \cup {x}] /\ store' \subseteq store
      BY <1>3 DEF ReleaseBytes, StoreRefuses, FailureRecorded
  <2>2. /\ UNCHANGED <<row, cleared, evaluated, late, doubt, enqueued, queue, report, retainer,
                       finalizer, faults>>
        /\ x \in purger[p].held
      BY <1>3 DEF ReleaseBytes, StoreRefuses, rowVars
  <2>3. /\ s \in Purges /\ s.held = purger[p].held /\ s.done \cup s.failed \subseteq s.held
        /\ s.done = purger[p].done \/ (s.done = purger[p].done \cup {x} /\ store' = store \ {x[2]})
    <3>1. purger[p] \in Purges /\ x \in Pairs
        BY <1>0
    <3>2. s \in Purges /\ s.held = purger[p].held
        BY <2>1, <3>1 DEF Purges
    <3>3. \/ s.done = purger[p].done \cup {x} /\ s.failed = purger[p].failed /\ store' = store \ {x[2]}
          \/ s.done = purger[p].done /\ s.failed = purger[p].failed \cup {x}
        BY <2>1, <3>1 DEF Purges
    <3> QED
        BY <1>0, <2>2, <3>2, <3>3
  <2>4. store' \subseteq store
      BY <2>1
  <2>5. \A y \in s.done : y[2] \in store' => y[2] \in doubt
      BY <1>0, <2>3, <2>4
  <2>6. finalizer # "decide"
    <3>1. row[x[2]].retention = "DELETED" /\ x[2] \in Kinds
        BY <2>2, BatchIsPromised
    <3> QED
        BY <3>1 DEF RetentionInv, DecisionStands
  <2>7. /\ s.held \subseteq queue'
        /\ \A q \in Purgers : q # p => purger[q].held \subseteq queue' /\ purger[q].held \cap s.held = {}
        /\ queue' \subseteq queue /\ purger' = [purger EXCEPT ![p] = s]
        /\ \A y \in queue \ queue' : y[2] \in store' => y[2] \in doubt
      BY <1>0, <2>1, <2>2, <2>3
  <2>8. s \in Purges /\ s.done \cup s.failed \subseteq s.held
      BY <2>3
  <2>9. /\ report' \in [Deletions -> {"none", "recorded", "gone", "pending"}] /\ faults' \in 0 .. MaxFaults
        /\ \A d \in Deletions : report'[d] = report[d]
      BY <1>0, <2>2
  <2> QED
      BY <2>2, <2>4, <2>5, <2>6, <2>7, <2>8, <2>9, PurgerStep
<1>4. CASE CommitBatch(p)
  <2>1. /\ queue' = queue \ purger[p].done
        /\ UNCHANGED <<row, cleared, evaluated, store, late, doubt, enqueued, report, retainer,
                       finalizer, faults>>
      BY <1>4 DEF CommitBatch, rowVars, storeVars
  <2>2. PICK c \in {"count", "claim"} : purger' = [purger EXCEPT ![p] = Empty(c)]
      BY <1>4, <1>b DEF CommitBatch
  <2>3. \A q \in Purgers : q # p => purger[q].held \subseteq queue'
      BY <1>0, <2>1
  <2>4. PICK s \in Purges : /\ purger' = [purger EXCEPT ![p] = s]
                            /\ s.held = {} /\ s.done = {} /\ s.failed = {}
      BY <1>a, <2>2
  <2>5. /\ s.held \subseteq queue' /\ s.done \cup s.failed \subseteq s.held
        /\ \A x \in s.done : x[2] \in store' => x[2] \in doubt
        /\ \A q \in Purgers : q # p => purger[q].held \subseteq queue' /\ purger[q].held \cap s.held = {}
        /\ queue' \subseteq queue /\ store' \subseteq store
        /\ \A x \in queue \ queue' : x[2] \in store' => x[2] \in doubt
      BY <1>0, <2>1, <2>3, <2>4
  <2> QED
      BY <1>0, <2>1, <2>4, <2>5, PurgerStep
<1>5. CASE CountPending(p)
  <2>1. /\ purger' = [purger EXCEPT ![p] = Empty("idle")]
        /\ UNCHANGED <<row, cleared, evaluated, store, late, doubt, enqueued, queue, retainer,
                       finalizer, faults>>
      BY <1>5, <1>b DEF CountPending, rowVars, storeVars
  <2>2. /\ report' \in [Deletions -> {"none", "recorded", "gone", "pending"}]
        /\ \A d \in Deletions : report'[d] = "none" => report[d] = "none"
        /\ \A d \in Deletions : report'[d] = "gone" =>
             report[d] = "gone" \/ \A k \in Kinds : <<d, k>> \notin queue'
    <3>1. CASE p = PurgeWorker
      <4>1. report' = report
          BY <1>5, <3>1 DEF CountPending
      <4> QED
          BY <1>0, <4>1
    <3>2. CASE p # PurgeWorker
      <4>1. report' = [report EXCEPT ![p] = IF Scope(p) = {} THEN "gone" ELSE "pending"]
          BY <1>5, <3>2 DEF CountPending
      <4>2. p \in Deletions /\ (Scope(p) = {} => \A k \in Kinds : <<p, k>> \notin queue)
          BY <3>2 DEF Purgers, Scope
      <4> QED
          BY <1>0, <2>1, <4>1, <4>2
    <3> QED
        BY <3>1, <3>2
  <2>3. PICK s \in Purges : /\ purger' = [purger EXCEPT ![p] = s]
                            /\ s.held = {} /\ s.done = {} /\ s.failed = {}
      BY <1>a, <2>1
  <2>4. /\ s.held \subseteq queue' /\ s.done \cup s.failed \subseteq s.held
        /\ \A x \in s.done : x[2] \in store' => x[2] \in doubt
        /\ \A q \in Purgers : q # p => purger[q].held \subseteq queue' /\ purger[q].held \cap s.held = {}
        /\ queue' \subseteq queue /\ store' \subseteq store
        /\ \A x \in queue \ queue' : x[2] \in store' => x[2] \in doubt
      BY <1>0, <2>1, <2>3
  <2>5. faults' \in 0 .. MaxFaults /\ (finalizer = "decide" => Kinds \subseteq store')
      BY <1>0, <2>1
  <2> QED
      BY <2>1, <2>2, <2>3, <2>4, <2>5, PurgerStep
<1> QED
    BY <1>1, <1>2, <1>3, <1>4, <1>5

LEMMA RetentionKeeps == RetentionInv /\ [RetentionNext]_retentionVars => RetentionInv'
<1>1. RetentionInv /\ UNCHANGED retentionVars => RetentionInv'
  <2>1. UNCHANGED retentionVars =>
          UNCHANGED <<row, cleared, evaluated, store, late, doubt, enqueued, queue, report, purger,
                      retainer, finalizer, faults>>
      BY DEF retentionVars, rowVars, storeVars, queueVars
  <2> QED
      BY ZenonT(60), <2>1 DEF RetentionInv, RetentionTyped, RowsAgree, PromisedOnce, BatchesApart, DecisionStands,
                  DeletionIsHonest
<1> QED
    BY <1>1, RetainKeeps, PurgeKeeps, RecordKeeps, DecideKeeps DEF RetentionNext

\* A verdict is the finalizer's, and what it read still stands.
LEMMA VerdictIsTheFinalizers ==
    RetentionInv /\ [RetentionNext]_retentionVars =>
      (evaluated' # evaluated =>
        /\ cleared = {} /\ Kinds \subseteq store
        /\ \A k \in Kinds : row[k] = [state |-> "PROMOTED", retention |-> "RETAINED"])
<1>1. UNCHANGED retentionVars => evaluated' = evaluated
    BY DEF retentionVars, rowVars
<1>2. RetainStep => evaluated' = evaluated
    BY DEF RetainStep, PlanBundle, CrashRetainer, LockArtifact, WriteObject, Promote, LatePutLands, rowVars
<1>3. PurgeStep => evaluated' = evaluated
    BY DEF PurgeStep, StartPurge, ClaimBatch, CommitBatch, CountPending, CrashPurger, ReleaseBytes,
           StoreRefuses, rowVars
<1>4. (\E d \in Deletions : \E cs \in SUBSET Classes \ {{}} : RecordDeletion(d, cs)) =>
        evaluated' = evaluated
    BY DEF RecordDeletion
<1>5. BeginFinalize => evaluated' = evaluated
    BY DEF BeginFinalize, rowVars
<1>6. CommitFinalize => finalizer = "decide"
    BY DEF CommitFinalize
<1> QED
    BY <1>1, <1>2, <1>3, <1>4, <1>5, <1>6 DEF RetentionNext, RetentionInv, DecisionStands

\* Evidence recorded as deleted is gone or still promised, a caller that was told it is gone was
\* told the truth, and a run is decided only on a bundle that is whole, whatever crashes, whichever
\* put is late and however many purgers run: deletion.py, retention.py and the finalizer.
THEOREM HonestRetention == RetentionSpec => RetentionIsHonest
<1>1. RetentionInv => RetentionTypeOK /\ DeletionIsHonest
    BY DEF RetentionInv, RetentionTyped, RetentionTypeOK, DeletionIsHonest, Rows, Pairs, Purges,
           Retainers, BatchesApart
<1> DEFINE Stands == /\ cleared = {} /\ Kinds \subseteq store
                     /\ \A k \in Kinds : row[k] = [state |-> "PROMOTED", retention |-> "RETAINED"]
<1>2. RetentionInv /\ [RetentionNext]_retentionVars => [evaluated' # evaluated => Stands]_retentionVars
    BY VerdictIsTheFinalizers
<1> HIDE DEF Stands
<1>3. RetentionSpec => [](RetentionTypeOK /\ DeletionIsHonest) /\ [][evaluated' # evaluated => Stands]_retentionVars
    BY <1>1, <1>2, RetentionBegins, RetentionKeeps, PTL DEF RetentionSpec
<1> QED
    BY <1>3 DEF RetentionIsHonest, VerdictRestsOnEvidence, Stands
=============================================================================
