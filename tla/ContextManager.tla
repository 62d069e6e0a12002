---------------------------- MODULE ContextManager ----------------------------
(***************************************************************************)
(* A connection used as a context manager: __enter__ and __exit__ of       *)
(* BaseConnection (stomp/connect.py) with WaitingListener                  *)
(* (stomp/listener.py), composed with Transport.                           *)
(*                                                                         *)
(* The thread Manager runs the with statement.  __enter__ registers the    *)
(* listener; the body connects, or another thread does; __exit__           *)
(* disconnects with a receipt and waits for that receipt and then for      *)
(* on_disconnected.  WaitingListener tests and waits under the lock its    *)
(* callbacks take, so that a wait is a step that has to be enabled.        *)
(***************************************************************************)
EXTENDS Transport

CONSTANT Manager
ASSUME ManagerAssumption == Manager \in Disconnectors

VARIABLES
  exit,      \* where the with statement is: its body, a call of __exit__, after it
  received,  \* WaitingListener.received
  disconnected  \* WaitingListener.disconnected

listener == <<received, disconnected>>
contextVars == <<vars, exit, listener>>

ContextInit ==
  /\ Init
  /\ exit = "body" /\ received = FALSE /\ disconnected = FALSE

-----------------------------------------------------------------------------
\* The listeners hear of a receipt when the transport is done with it ...
OnReceipt ==
  \E r \in Receivers :
    pc[r] = "r_clear" /\ pc'[r] # "r_clear" /\ Head(frames[r]).id = Manager
\* ... and 'ZZZZZ-disconnect-listener' sorts just before 'protocol-listener'
OnDisconnected ==
  \E t \in Threads : pc[t] = "nd_heartbeat" /\ pc'[t] # "nd_heartbeat"

Callbacks ==
  /\ received' = (received \/ OnReceipt)
  /\ disconnected' = (disconnected \/ OnDisconnected)

\* a step of the transport, or of the application; Manager leaves its
\* disconnect() to __exit__
Observed(A) ==
  /\ A
  /\ Callbacks
  /\ Manager \in asked' => Manager \in asked
  /\ UNCHANGED exit

\* __exit__, also when the body of the with statement has raised
Exit ==
  /\ exit = "body" /\ starts > 0
  /\ Disconnect(Manager) /\ ret'[Manager] = "stop"
  /\ exit' = "disconnect"
  /\ UNCHANGED listener

\* disconnect() returns, or raises
Disconnected ==
  /\ exit = "disconnect" /\ At(Manager, "idle")
  /\ exit' = IF ret[Manager] = "stop" THEN "wait_on_receipt" ELSE "raised"
  /\ UNCHANGED <<vars, listener>>

\* Mutant of WaitOnReceipt: does not wait for the disconnection
WaitOnReceiptOnly ==
  /\ exit = "wait_on_receipt" /\ received
  /\ received' = FALSE
  /\ exit' = "returned"
  /\ UNCHANGED <<vars, disconnected>>

WaitOnReceipt ==
  /\ exit = "wait_on_receipt" /\ received
  /\ received' = FALSE
  /\ exit' = "wait_on_disconnected"
  /\ UNCHANGED <<vars, disconnected>>

WaitOnDisconnected ==
  /\ exit = "wait_on_disconnected" /\ disconnected
  /\ exit' = "returned"
  /\ UNCHANGED <<vars, listener>>

Exiting == Disconnected \/ WaitOnReceipt \/ WaitOnDisconnected
ContextNext == Observed(Next) \/ Exit \/ Exiting

ContextSpec == ContextInit /\ [][ContextNext]_contextVars
ContextFairness ==
  /\ \A t \in Threads : WF_contextVars(Observed(Run(t)))
  /\ \A s \in Sockets : WF_contextVars(Observed(Answer(s)))
  /\ WF_contextVars(Exiting)
FairContextSpec == ContextSpec /\ ContextFairness

-----------------------------------------------------------------------------
(* Properties *)

\* When __exit__ has returned the session is over, the listeners were told and
\* the socket is released, whichever thread ended the connection.
ExitMeansOver ==
  exit = "returned" => ~connected /\ socket = None /\ \E s \in Sockets : told[s] > 0

\* The receipt of the DISCONNECT that __exit__ sends is enough to end the with
\* statement, unless another thread disconnects (its receipt may take the place
\* of Manager's in __disconnect_receipt), a listener before it raises, or a
\* heartbeat timeout takes the socket away under disconnect_socket().
HasReceipt == \E r \in Receivers : \E i \in DOMAIN frames[r] : frames[r][i].id = Manager
ReceiptEndsContext ==
  HasReceipt /\ exit # "raised" ~> exit = "returned" \/ asked # {Manager} \/ raises + timeouts > 0

\* __exit__ does not wait for the answer to a DISCONNECT it could not send: "Stop
\* waiting for protocol answers when the connection has been closed"
\* (CHANGELOG.md:171).
ExitReturns == exit = "wait_on_receipt" ~> exit # "wait_on_receipt"
=============================================================================
