------------------------------ MODULE MCFraming ------------------------------
(* Values for TLC: a packet without payload, and one with a payload of the   *)
(* greatest length that happens to be the magic.                             *)
EXTENDS Framing

MCMagic == <<8, 9>>
MCContents == {[type |-> 1, payload |-> <<>>], [type |-> 2, payload |-> <<8, 9>>]}

=============================================================================
