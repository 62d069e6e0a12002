----------------------------- MODULE MCMulticast -----------------------------
(* Small instances of Multicast for TLC: two threads share the member m1. *)
EXTENDS Multicast

CONSTANTS m1, m2, a, b, c, x, destination

MCMemberOf == (a :> m1) @@ (b :> m1) @@ (c :> m2)
MCUses == (a :> {x}) @@ (b :> {None}) @@ (c :> {})
=============================================================================
