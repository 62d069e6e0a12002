----------------------------- MODULE MCListeners -----------------------------
(* A small instance of Listeners for TLC: two names, and threads that are alike. *)
EXTENDS Listeners, TLC

CONSTANTS test, other, w1, w2
Symmetry == Permutations(Waiters)
=============================================================================
