--------------------------- MODULE MCSessionCache ---------------------------
(* Small instances of SessionCache for TLC. *)
EXTENDS SessionCache

MCSid == 1..3
=============================================================================
