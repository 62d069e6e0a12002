----------------------------- MODULE MCHeartbeat -----------------------------
(* Small instances of HeartbeatListener for TLC. *)
EXTENDS HeartbeatListener

MCClient == <<2, 1>>
MCOffers == {None, <<1, 0>>, <<1, 1>>}
=============================================================================
