----------------------------- MODULE PacketStream -----------------------------
(***************************************************************************)
(* What the framing promises on one direction of a connection.  Once the   *)
(* receiver has found the packet boundaries it receives every packet sent, *)
(* once and in order.  Before that - only possible where an earlier        *)
(* session left bytes in the stream - it may hand up junk, miss packets or *)
(* give up; the first packet it recognises ends this for good.             *)
(***************************************************************************)
EXTENDS Naturals, Sequences

VARIABLES
    sent,      \* how many packets are sent
    received,  \* numbers of the packets handed up, 0 for junk
    aligned,   \* the receiver has found the packet boundaries
    broken     \* the receiver gave up

vars == <<sent, received, aligned, broken>>

Numbers == {received[i] : i \in 1..Len(received)}

Init ==
    /\ sent \in Nat
    /\ received = <<>>
    /\ aligned \in BOOLEAN
    /\ broken = FALSE

Receive ==
    /\ \E n \in 1..sent :
        /\ \A m \in Numbers : m < n
        /\ aligned => n = 1 \/ n - 1 \in Numbers
        /\ received' = Append(received, n)
    /\ aligned' = TRUE
    /\ UNCHANGED <<sent, broken>>

Junk ==
    /\ ~aligned
    /\ received' = Append(received, 0)
    /\ UNCHANGED <<sent, aligned, broken>>

GiveUp ==
    /\ ~aligned
    /\ broken' = TRUE
    /\ UNCHANGED <<sent, received, aligned>>

Next == ~broken /\ (Receive \/ Junk \/ GiveUp)

Safety == Init /\ [][Next]_vars

\* Once the boundaries are found nothing is held back.
EverythingArrives == aligned ~> (sent = 0 \/ sent \in Numbers)

Spec == Safety /\ EverythingArrives

=============================================================================
