----------------------------- MODULE MCTransport -----------------------------
(* Small instances of Transport for TLC: two application threads. *)
EXTENDS Transport

CONSTANTS u1, u2
=============================================================================
