-------------------------- MODULE ConnectionContract --------------------------
(***************************************************************************)
(* What stomp.py promises an application about its connections, whatever   *)
(* the threads behind it do: a connection is opened, its session is set up *)
(* at most once, it goes down, and the listeners hear of it through        *)
(* on_disconnected (ConnectionListener in stomp/listener.py).  Once they   *)
(* have heard, the session never comes up again.  Transport implements     *)
(* this contract.                                                          *)
(***************************************************************************)
EXTENDS Naturals

CONSTANTS Connections, MaxTold  \* MaxTold: bound on the calls of on_disconnected

VARIABLES
  stage,  \* of each connection
  told    \* calls of on_disconnected for each connection

contractVars == <<stage, told>>
Stages == {"none", "open", "up", "down"}

ContractInit ==
  /\ stage = [c \in Connections |-> "none"]
  /\ told = [c \in Connections |-> 0]

Move(c, from, to) == stage[c] = from /\ stage' = [stage EXCEPT ![c] = to]

\* a TCP connection is established
Open(c) == Move(c, "none", "open") /\ UNCHANGED told
\* the server's CONNECTED frame is processed
Establish(c) == Move(c, "open", "up") /\ UNCHANGED told
\* the session is over
Drop(c) == Move(c, "up", "down") /\ UNCHANGED told
\* on_disconnected: only of a session that is not up
Tell(c) ==
  /\ stage[c] \in {"open", "down"} /\ told[c] < MaxTold
  /\ stage' = [stage EXCEPT ![c] = "down"]
  /\ told' = [told EXCEPT ![c] = @ + 1]

ContractNext == \E c \in Connections : Open(c) \/ Establish(c) \/ Drop(c) \/ Tell(c)

ContractSafety == ContractInit /\ [][ContractNext]_contractVars

\* a session that went down is told to the listeners
FirstTell(c) == stage[c] = "down" /\ told[c] = 0 /\ Tell(c)
Contract == ContractSafety /\ \A c \in Connections : WF_contractVars(FirstTell(c))
=============================================================================
