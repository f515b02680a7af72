--------------------------- MODULE MCSessionGuard ---------------------------
(* Two TCP clients and two USB sessions, with waits and cooldowns cut down   *)
(* to a few ticks of the watcher.                                            *)
EXTENDS SessionGuard
CONSTANTS c1, c2, u1, u2

MCClients == {c1, c2}
MCUsbSlots == {u1, u2}
=============================================================================
