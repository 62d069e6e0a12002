------------------------------ MODULE MCContext ------------------------------
(* A small instance of ContextManager for TLC: one application thread. *)
EXTENDS ContextManager

CONSTANT u1
=============================================================================
