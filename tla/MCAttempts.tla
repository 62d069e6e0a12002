------------------------------ MODULE MCAttempts ------------------------------
(* A small instance of ConnectionAttempts for TLC: lists of up to two hosts. *)
EXTENDS ConnectionAttempts

HostPorts == {<<"127.0.0.1", 1>>, <<"own name", 1>>, <<"own name", 2>>, <<"remote", 1>>}
MCGiven == UNION {[1..n -> HostPorts] : n \in 0..2}
MCLimits == {-1, 0, 1, 3}
=============================================================================
