---------------------------- MODULE MCCommandLine ----------------------------
(* A small instance of CommandLine for TLC: two destinations. *)
EXTENDS CommandLine

CONSTANTS queue, topic
=============================================================================
