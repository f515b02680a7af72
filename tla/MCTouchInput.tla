----------------------------- MODULE MCTouchInput -----------------------------
(* Places for TLC: beyond the left edge, in the middle, beyond the right edge. *)
EXTENDS TouchInput

MCPlaces == {-1, 1, 3}

=============================================================================
