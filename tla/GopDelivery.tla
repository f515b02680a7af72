----------------------------- MODULE GopDelivery -----------------------------
(***************************************************************************)
(* What the frame buffer between the network and the decoder promises: it  *)
(* may leave frames out, but the frame it hands over is a keyframe or the  *)
(* very next one, so a P-frame never loses its reference in the buffer.    *)
(* Frames are numbered in the order they were offered.                     *)
(***************************************************************************)
EXTENDS Naturals, Sequences

VARIABLES
    keys,       \* for each frame offered so far: is it a keyframe?
    delivered   \* number of the last frame handed over, 0 before the first

Init == keys = <<>> /\ delivered = 0

Offer ==
    /\ \E key \in BOOLEAN : keys' = Append(keys, key)
    /\ UNCHANGED delivered

Deliver ==
    /\ delivered' \in (delivered + 1)..Len(keys)
    /\ keys[delivered'] \/ delivered' = delivered + 1
    /\ UNCHANGED keys

Next == Offer \/ Deliver

Spec == Init /\ [][Next]_<<keys, delivered>>

=============================================================================
