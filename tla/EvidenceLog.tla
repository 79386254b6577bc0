----------------------------- MODULE EvidenceLog -----------------------------
(***************************************************************************)
(* What the evidence sequencer promises its readers, without locks,        *)
(* replays or producer sequence numbers: one attempt's log only grows at   *)
(* its end, holds each producer's record once, and a producer that ended   *)
(* its stream adds nothing more.                                           *)
(***************************************************************************)
EXTENDS Sequences

CONSTANTS Producer, Id, Payload

VARIABLES
    log,    \* admitted records in canonical order
    ended   \* producers whose closing watermark was accepted

Init == log = <<>> /\ ended = {}

\* A record takes the position after the last one.
Admit(p, i, x) ==
    /\ p \notin ended
    /\ \A k \in DOMAIN log : log[k].producer # p \/ log[k].id # i
    /\ log' = Append(log, [producer |-> p, id |-> i, payload |-> x])
    /\ UNCHANGED ended

End(p) == ended' = ended \cup {p} /\ UNCHANGED log

Next == \E p \in Producer : End(p) \/ \E i \in Id, x \in Payload : Admit(p, i, x)

Spec == Init /\ [][Next]_<<log, ended>>

=============================================================================
