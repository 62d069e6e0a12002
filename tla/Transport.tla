------------------------------ MODULE Transport ------------------------------
(***************************************************************************)
(* The life of a connection as the threads of stomp.py drive it:           *)
(* stomp/transport.py (BaseTransport and Transport), the websocket         *)
(* transport of stomp/adapter/ws.py, the connect and disconnect calls of   *)
(* stomp/connect.py and stomp/protocol.py, and the timeout branch of the   *)
(* heartbeat loop of stomp/listener.py.                                    *)
(*                                                                         *)
(* Threads: application threads (Users), the heartbeat thread (Heartbeat)  *)
(* and one receiver thread per call of start() (Receivers).  All of them   *)
(* run the same methods on one Transport object, so a method is a sequence *)
(* of steps of "the thread t": pc[t] is the step t takes next, ret[t] the  *)
(* step that follows the method t is in.  A step accesses the shared       *)
(* attributes once, or holds one condition's lock: the interpreter may     *)
(* switch threads between any two steps.                                   *)
(*                                                                         *)
(* A socket is the number of the connection it was created for.  The       *)
(* server and the network are external: they answer, or lose, what the     *)
(* client sent on a socket.                                                *)
(***************************************************************************)
EXTENDS Integers, Sequences, FiniteSets

CONSTANTS
  Users,          \* application threads
  Disconnectors,  \* those of them that may call disconnect()
  Heartbeat,      \* the thread of HeartbeatListener
  None,           \* Python's None
  Adapters,       \* the transports to check: Transport, WSTransport, or both
  Reuse,          \* how the application connects again, see below
  MaxStarts,      \* bound: calls of start()
  MaxTimeouts,    \* bound: heartbeat timeouts (0 when heartbeats are off)
  MaxRaises       \* bound: application callbacks that raise

\* "no": one connection.  "callback": on_disconnected calls connect(), as
\* docs/source/api.rst shows.  "joined": an application thread connects again
\* once every thread of the previous connection has come to rest.
ASSUME ReuseAssumption == Reuse \in {"no", "callback", "joined"}

Receivers == 1..MaxStarts
Sockets   == 1..MaxStarts
Threads   == Users \cup {Heartbeat} \cup Receivers

ASSUME ThreadsAssumption ==
  /\ Disconnectors \subseteq Users
  /\ Heartbeat \notin Users /\ Heartbeat \notin Nat
  /\ Users \cap Nat = {}
  /\ None \notin Nat /\ None \notin Users

ASSUME AdaptersAssumption == Adapters \subseteq {"tcp", "websocket"}

ASSUME BoundsAssumption ==
  MaxStarts \in Nat \ {0} /\ MaxTimeouts \in Nat /\ MaxRaises \in Nat

VARIABLES
  running, connected, connection_error,  \* BaseTransport's flags
  adapter,             \* the class of the transport: chosen in Init, never changed
  socket,              \* Transport.socket
  receipts,            \* __receipts: the pending receipts of DISCONNECT frames
  disconnect_receipt,  \* __disconnect_receipt
  notified,            \* notified_on_disconnect
  exited,              \* __receiver_thread_exited
  stopWaiters,         \* threads waiting on __receiver_thread_exit_condition
  connectWaiters,      \* threads waiting on __connect_wait_condition
  hbRunning,           \* HeartbeatListener.running
  pc, ret,             \* control state of each thread
  reading,             \* the socket a receiver's recv() call is on
  frames,              \* the frames of the last chunk a receiver has still to process
  conns,               \* number of sockets created
  spawned,             \* number of receiver threads created
  closed, shut,        \* sockets the client has closed, has shut down
  eof,                 \* sockets whose other end is gone
  toServer, toClient,  \* frames in flight on each socket
  told,                \* history: calls of on_disconnected, per connection
  sessions,            \* history: CONNECTED frames processed, per socket they came on
  starts, timeouts, raises, asked  \* history: what the bounds count; who called disconnect()

flags   == <<running, connected, connection_error, notified, exited, hbRunning>>
rcpts   == <<receipts, disconnect_receipt>>
waiters == <<stopWaiters, connectWaiters>>
network == <<eof, toServer, toClient>>
sockets == <<adapter, socket, conns, closed, shut>>
chunk   == <<reading, frames>>
history == <<told, sessions, starts, timeouts, raises, asked>>
vars    == <<flags, rcpts, waiters, network, sockets, chunk, history, pc, ret, spawned>>

Frame(cmd, id) == [cmd |-> cmd, id |-> id]
ClientFrames == {Frame("CONNECT", None)} \cup {Frame("DISCONNECT", u) : u \in Users}
ServerFrames == {Frame("CONNECTED", None), Frame("ERROR", None)}
                  \cup {Frame("RECEIPT", u) : u \in Users}

UserLabels == {"idle"}
CallLabels ==
  {"start", "attempt", "dial", "verify", "spawn", "send_connect", "wait", "waiting", "wait_test",
   "disc_check", "disc_receipt", "disc_transmit", "disc_send", "stop", "stop_waiting",
   "ds_running", "ds_shutdown?", "ds_shutdown", "ds_close?", "ds_close", "ds_null", "ds_notify?",
   "nd_flag", "nd_connected", "nd_listeners", "nd_heartbeat"}
HeartbeatLabels == {"hb_loop", "hb_timeout", "hb_dead"}
ReceiverLabels ==
  {"unborn", "r_outer", "r_inner", "r_recv", "r_frame", "r_connected", "r_ack", "r_match",
   "r_clear", "r_lost", "cl_close", "cl_null", "r_exit", "r_notify?", "r_wake", "r_reset",
   "r_done", "r_dead"}
Labels == UserLabels \cup CallLabels \cup HeartbeatLabels \cup ReceiverLabels

ControlTypeOK ==
  /\ pc \in [Threads -> Labels] /\ ret \in [Threads -> Labels]
  /\ reading \in [Receivers -> Sockets \cup {None}]
  /\ frames \in [Receivers -> Seq(ServerFrames)]
DataTypeOK ==
  /\ running \in BOOLEAN /\ connected \in BOOLEAN /\ connection_error \in BOOLEAN
  /\ notified \in BOOLEAN /\ exited \in BOOLEAN /\ hbRunning \in BOOLEAN
  /\ adapter \in Adapters /\ socket \in Sockets \cup {None}
  /\ receipts \subseteq Users /\ disconnect_receipt \in Users \cup {None}
  /\ stopWaiters \subseteq Threads /\ connectWaiters \subseteq Threads
  /\ conns \in 0..MaxStarts /\ spawned \in 0..MaxStarts /\ starts \in 0..MaxStarts
  /\ closed \subseteq Sockets /\ shut \subseteq Sockets /\ eof \subseteq Sockets
  /\ toServer \in [Sockets -> Seq(ClientFrames)] /\ toClient \in [Sockets -> Seq(ServerFrames)]
  /\ told \in [Sockets -> Nat] /\ sessions \in [Sockets -> Nat]
  /\ timeouts \in 0..MaxTimeouts /\ raises \in 0..MaxRaises /\ asked \subseteq Users
TypeOK == ControlTypeOK /\ DataTypeOK

Init ==
  /\ running = FALSE /\ connected = FALSE /\ connection_error = FALSE
  /\ notified = FALSE /\ exited = FALSE /\ hbRunning = FALSE
  /\ adapter \in Adapters /\ socket = None
  /\ conns = 0 /\ spawned = 0 /\ closed = {} /\ shut = {} /\ eof = {}
  /\ receipts = {} /\ disconnect_receipt = None
  /\ stopWaiters = {} /\ connectWaiters = {}
  /\ pc = [t \in Threads |-> IF t \in Users THEN "idle"
                             ELSE IF t = Heartbeat THEN "hb_loop" ELSE "unborn"]
  /\ ret = [t \in Threads |-> "idle"]
  /\ reading = [r \in Receivers |-> None] /\ frames = [r \in Receivers |-> <<>>]
  /\ toServer = [s \in Sockets |-> <<>>] /\ toClient = [s \in Sockets |-> <<>>]
  /\ told = [s \in Sockets |-> 0] /\ sessions = [s \in Sockets |-> 0]
  /\ starts = 0 /\ timeouts = 0 /\ raises = 0 /\ asked = {}

-----------------------------------------------------------------------------
(* Control flow *)

At(t, label)   == pc[t] = label
Goto(t, label) == pc' = [pc EXCEPT ![t] = label] /\ UNCHANGED ret
\* enter the method that begins at label; next is the step that follows it
Call(t, label, next) == pc' = [pc EXCEPT ![t] = label] /\ ret' = [ret EXCEPT ![t] = next]
Return(t) == Goto(t, ret[t])

\* connect() returns to the application, or to the callback that called it
AfterConnect(t) == IF t \in Users THEN "idle" ELSE "nd_heartbeat"
AfterStop(t)    == IF t \in Users THEN "idle" ELSE "hb_loop"

\* An exception leaves every method t is in.  The application catches its own;
\* it ends the heartbeat thread; a receiver cleans up and leaves its loop, or,
\* when it already runs the finally block of the loop, just ends.
Raise(t) ==
  /\ pc' = [pc EXCEPT ![t] = CASE t \in Users -> "idle"
                               [] t = Heartbeat -> "hb_dead"
                               [] OTHER -> IF ret[t] = "r_wake" THEN "r_done" ELSE "cl_close"]
  /\ ret' = [ret EXCEPT ![t] = "r_exit"]
  /\ frames' = IF t \in Receivers THEN [frames EXCEPT ![t] = <<>>] ELSE frames
  /\ UNCHANGED reading

\* getsockname() fails on a closed socket; a websocket keeps the status of its
\* handshake, 101, when it is closed
IsConnected == socket # None /\ (adapter = "tcp" => socket \notin closed) /\ connected

\* Mutant of NotifyConnectWaiter: set_connected(True) without notify()
ConnectWaiterUnnotified == UNCHANGED connectWaiters

NotifyConnectWaiter ==
  IF connectWaiters = {} THEN UNCHANGED connectWaiters
  ELSE \E w \in connectWaiters : connectWaiters' = connectWaiters \ {w}

SetConnected(b) ==
  /\ connected' = b
  /\ IF b THEN NotifyConnectWaiter ELSE UNCHANGED connectWaiters

\* transmit() and send(): on a socket that is gone, or closed, the call raises;
\* on one the peer has left, the frame is lost or the call raises.
Usable == socket # None /\ socket \notin closed \cup shut
Send(t, frame, next) ==
  /\ \/ /\ Usable
        /\ toServer' = [toServer EXCEPT ![socket] = IF socket \in eof THEN @ ELSE Append(@, frame)]
        /\ Goto(t, next) /\ UNCHANGED chunk
     \/ /\ ~Usable \/ socket \in eof
        /\ Raise(t) /\ UNCHANGED toServer
  /\ UNCHANGED <<flags, rcpts, waiters, sockets, history, spawned, eof, toClient>>

-----------------------------------------------------------------------------
(* connect(): start(), the CONNECT frame, wait_for_connection() *)

AtRest == /\ \A r \in Receivers : pc[r] \in {"unborn", "r_done", "r_dead"}
          /\ pc[Heartbeat] \in {"hb_loop", "hb_dead"}
          /\ \A u \in Users : pc[u] = "idle"

\* An application thread calls connect(), with or without wait=True.
Connect(u) ==
  /\ At(u, "idle")
  /\ starts = 0 \/ (Reuse = "joined" /\ AtRest)
  /\ starts < MaxStarts /\ starts' = starts + 1
  /\ \E next \in {"wait", "idle"} : Call(u, "start", next)
  /\ UNCHANGED <<flags, rcpts, waiters, network, sockets, chunk, spawned,
                 told, sessions, timeouts, raises, asked>>

Start(t) ==
  /\ At(t, "start")
  /\ running' = TRUE
  /\ Goto(t, "attempt")
  /\ UNCHANGED <<connected, connection_error, notified, exited, hbRunning,
                 rcpts, waiters, network, sockets, chunk, history, spawned>>

\* attempt_connection(): connects only when there is no socket yet.  The rounds
\* of attempts and the sleeps between them are one step, Dial.
Attempt(t) ==
  /\ At(t, "attempt")
  /\ connection_error' = FALSE
  /\ Goto(t, IF running /\ socket = None THEN "dial" ELSE "verify")
  /\ UNCHANGED <<running, connected, notified, exited, hbRunning,
                 rcpts, waiters, network, sockets, chunk, history, spawned>>

Dial(t) ==
  /\ At(t, "dial")
  /\ \/ conns < MaxStarts  \* never refuses: one socket per start()
        /\ conns' = conns + 1 /\ socket' = conns + 1
     \/ UNCHANGED <<conns, socket>>
  /\ Goto(t, "verify")
  /\ UNCHANGED <<flags, rcpts, waiters, network, adapter, closed, shut, chunk, history, spawned>>

Verify(t) ==
  /\ At(t, "verify")
  /\ IF socket = None THEN Raise(t) ELSE Goto(t, "spawn") /\ UNCHANGED chunk
  /\ UNCHANGED <<flags, rcpts, waiters, network, sockets, history, spawned>>

Spawn(t) ==
  /\ At(t, "spawn")
  /\ spawned < MaxStarts  \* never refuses: one receiver per start()
  /\ spawned' = spawned + 1
  /\ pc' = [pc EXCEPT ![t] = "send_connect", ![spawned + 1] = "r_outer"]
  /\ UNCHANGED <<flags, rcpts, waiters, network, sockets, chunk, history, ret>>

SendConnect(t) ==
  /\ At(t, "send_connect")
  /\ Send(t, Frame("CONNECT", None), IF t \in Users THEN ret[t] ELSE "wait")

WaitForConnection(t) ==
  /\ At(t, "wait")
  /\ IF running /\ ~IsConnected /\ ~connection_error
     THEN connectWaiters' = connectWaiters \cup {t} /\ Goto(t, "waiting")
     ELSE UNCHANGED connectWaiters /\ Goto(t, "wait_test")
  /\ UNCHANGED <<flags, rcpts, stopWaiters, network, sockets, chunk, history, spawned>>

WakeFromConnectWait(t) ==
  /\ At(t, "waiting") /\ t \notin connectWaiters
  /\ Goto(t, "wait")
  /\ UNCHANGED <<flags, rcpts, waiters, network, sockets, chunk, history, spawned>>

\* raises ConnectFailedException unless the session is up
WaitTest(t) ==
  /\ At(t, "wait_test")
  /\ IF running /\ IsConnected /\ ~connection_error
     THEN Goto(t, AfterConnect(t)) /\ UNCHANGED chunk
     ELSE Raise(t)
  /\ UNCHANGED <<flags, rcpts, waiters, network, sockets, history, spawned>>

-----------------------------------------------------------------------------
(* disconnect(receipt) and stop() *)

\* With a receipt the call also stops the transport, whether or not it sent
\* the DISCONNECT frame; without one it only sends the frame.
Disconnect(u) ==
  /\ At(u, "idle") /\ u \in Disconnectors \ asked
  /\ asked' = asked \cup {u}
  /\ \E next \in {"stop", "idle"} : Call(u, "disc_check", next)
  /\ UNCHANGED <<flags, rcpts, waiters, network, sockets, chunk, spawned,
                 told, sessions, starts, timeouts, raises>>

DiscCheck(u) ==
  /\ At(u, "disc_check")
  /\ IF IsConnected THEN Goto(u, "disc_receipt") ELSE Return(u)
  /\ UNCHANGED <<flags, rcpts, waiters, network, sockets, chunk, history, spawned>>

\* Mutant of DiscReceipt: registers the receipt argument, even when there is none
DiscReceiptUnnamed(u) ==
  /\ At(u, "disc_receipt")
  /\ receipts' = receipts \cup {IF ret[u] = "stop" THEN u ELSE None}
  /\ Goto(u, "disc_transmit")
  /\ UNCHANGED <<flags, disconnect_receipt, waiters, network, sockets, chunk, history, spawned>>

DiscReceipt(u) ==
  /\ At(u, "disc_receipt")
  /\ receipts' = receipts \cup {u}
  /\ Goto(u, "disc_transmit")
  /\ UNCHANGED <<flags, disconnect_receipt, waiters, network, sockets, chunk, history, spawned>>

DiscTransmit(u) ==
  /\ At(u, "disc_transmit")
  /\ disconnect_receipt' = u
  /\ Goto(u, "disc_send")
  /\ UNCHANGED <<flags, receipts, waiters, network, sockets, chunk, history, spawned>>

DiscSend(u) ==
  /\ At(u, "disc_send")
  /\ Send(u, Frame("DISCONNECT", u), ret[u])

Stop(t) ==
  /\ At(t, "stop")
  /\ IF ~exited /\ IsConnected
     THEN stopWaiters' = stopWaiters \cup {t} /\ Goto(t, "stop_waiting")
     ELSE UNCHANGED stopWaiters /\ Goto(t, AfterStop(t))
  /\ UNCHANGED <<flags, rcpts, connectWaiters, network, sockets, chunk, history, spawned>>

WakeFromStopWait(t) ==
  /\ At(t, "stop_waiting") /\ t \notin stopWaiters
  /\ Goto(t, "stop")
  /\ UNCHANGED <<flags, rcpts, waiters, network, sockets, chunk, history, spawned>>

-----------------------------------------------------------------------------
(* disconnect_socket() *)

DsRunning(t) ==
  /\ At(t, "ds_running")
  /\ running' = FALSE
  /\ Goto(t, "ds_shutdown?")
  /\ UNCHANGED <<connected, connection_error, notified, exited, hbRunning,
                 rcpts, waiters, network, sockets, chunk, history, spawned>>

\* "self.socket is not None" is one read of the attribute ...
DsHasSocket(t, check, then, else) ==
  /\ At(t, check)
  /\ Goto(t, IF socket # None THEN then ELSE else)
  /\ UNCHANGED <<flags, rcpts, waiters, network, sockets, chunk, history, spawned>>

DsCheckShutdown(t) == DsHasSocket(t, "ds_shutdown?", "ds_shutdown", "ds_close?")
DsCheckClose(t)    == DsHasSocket(t, "ds_close?", "ds_close", "ds_null")

\* Mutant of TcpShutdown: shuts down the sending side only
TcpShutdownSending == UNCHANGED <<closed, shut>>

\* SHUT_RDWR ends a recv() that another thread is in ...
TcpShutdown ==
  /\ shut' = IF socket \in closed THEN shut ELSE shut \cup {socket}
  /\ UNCHANGED closed
\* ... the shutdown() of a websocket closes its socket, and that does not
WsShutdown == closed' = closed \cup {socket} /\ UNCHANGED shut

\* ... and the call on it another: None has no shutdown() and no close()
DsShutdown(t) ==
  /\ At(t, "ds_shutdown")
  /\ IF socket = None THEN Raise(t) /\ UNCHANGED <<closed, shut>>
     ELSE /\ IF adapter = "tcp" THEN TcpShutdown ELSE WsShutdown
          /\ Goto(t, "ds_close?") /\ UNCHANGED chunk
  /\ UNCHANGED <<flags, rcpts, waiters, network, adapter, socket, conns, history, spawned>>

DsClose(t) ==
  /\ At(t, "ds_close")
  /\ IF socket = None THEN Raise(t) /\ UNCHANGED closed
     ELSE closed' = closed \cup {socket} /\ Goto(t, "ds_null") /\ UNCHANGED chunk
  /\ UNCHANGED <<flags, rcpts, waiters, network, adapter, socket, conns, shut, history, spawned>>

DsNull(t) ==
  /\ At(t, "ds_null")
  /\ socket' = None
  /\ Goto(t, "ds_notify?")
  /\ UNCHANGED <<adapter, flags, rcpts, waiters, network, conns, closed, shut, chunk, history, spawned>>

DsCheckNotified(t) ==
  /\ At(t, "ds_notify?")
  /\ IF notified THEN Return(t) ELSE Goto(t, "nd_flag")
  /\ UNCHANGED <<flags, rcpts, waiters, network, sockets, chunk, history, spawned>>

-----------------------------------------------------------------------------
(* notify("disconnected") *)

NdFlag(t) ==
  /\ At(t, "nd_flag")
  /\ notified' = TRUE
  /\ Goto(t, "nd_connected")
  /\ UNCHANGED <<running, connected, connection_error, exited, hbRunning,
                 rcpts, waiters, network, sockets, chunk, history, spawned>>

\* Mutant of NdConnected: notify("disconnected") without set_connected(False)
NdConnectedKept(t) ==
  /\ At(t, "nd_connected")
  /\ Goto(t, "nd_listeners")
  /\ UNCHANGED <<flags, rcpts, waiters, network, sockets, chunk, history, spawned>>

NdConnected(t) ==
  /\ At(t, "nd_connected")
  /\ SetConnected(FALSE)
  /\ Goto(t, "nd_listeners")
  /\ UNCHANGED <<running, connection_error, notified, exited, hbRunning, rcpts, stopWaiters,
                 network, sockets, chunk, history, spawned>>

\* The application's listener: named '' in the docs, it sorts before
\* 'protocol-listener'.  It may connect again, and it may raise.
NdListeners(t) ==
  /\ At(t, "nd_listeners")
  /\ told' = [told EXCEPT ![conns] = @ + 1]
  /\ \/ /\ IF Reuse = "callback" /\ starts < MaxStarts
           THEN starts' = starts + 1 /\ Goto(t, "start")
           ELSE UNCHANGED starts /\ Goto(t, "nd_heartbeat")
        /\ UNCHANGED <<raises, chunk>>
     \/ /\ raises < MaxRaises /\ raises' = raises + 1
        /\ Raise(t) /\ UNCHANGED starts
  /\ UNCHANGED <<flags, rcpts, waiters, network, sockets, spawned, sessions, timeouts, asked>>

\* HeartbeatListener.on_disconnected, the protocol listener
NdHeartbeat(t) ==
  /\ At(t, "nd_heartbeat")
  /\ hbRunning' = FALSE
  /\ Return(t)
  /\ UNCHANGED <<running, connected, connection_error, notified, exited,
                 rcpts, waiters, network, sockets, chunk, history, spawned>>

-----------------------------------------------------------------------------
(* The timeout branch of the heartbeat loop *)

HbTimeout(t) ==
  /\ At(t, "hb_loop") /\ hbRunning /\ IsConnected
  /\ timeouts < MaxTimeouts /\ timeouts' = timeouts + 1
  /\ Call(t, "hb_timeout", "stop")
  /\ UNCHANGED <<flags, rcpts, waiters, network, sockets, chunk, spawned,
                 told, sessions, starts, raises, asked>>

HbSetConnected(t) ==
  /\ At(t, "hb_timeout")
  /\ SetConnected(FALSE)
  /\ Goto(t, "ds_running")
  /\ UNCHANGED <<running, connection_error, notified, exited, hbRunning, rcpts, stopWaiters,
                 network, sockets, chunk, history, spawned>>

-----------------------------------------------------------------------------
(* The receiver loop *)

ROuter(r) ==
  /\ At(r, "r_outer")
  /\ Goto(r, IF running THEN "r_inner" ELSE "r_exit")
  /\ UNCHANGED <<flags, rcpts, waiters, network, sockets, chunk, history, spawned>>

\* the inner loop, and __read() up to its call of recv()
RInner(r) ==
  /\ At(r, "r_inner")
  /\ \/ /\ running /\ socket # None /\ socket \notin closed
        /\ reading' = [reading EXCEPT ![r] = socket]
        /\ Goto(r, "r_recv")
     \/ /\ running /\ (socket = None \/ socket \in closed)
        /\ UNCHANGED reading
        /\ Goto(r, "r_lost")
     \/ /\ ~running
        /\ UNCHANGED reading
        /\ Call(r, "cl_close", "r_outer")
  /\ UNCHANGED <<flags, rcpts, waiters, network, sockets, frames, history, spawned>>

\* recv() returns some of what has arrived, which is looked at only while running
\* is True; nothing when the connection is over
RRecv(r) ==
  /\ At(r, "r_recv")
  /\ LET s == reading[r] IN
     \/ \E n \in 1..Len(toClient[s]) :
          /\ frames' = [frames EXCEPT ![r] = IF running THEN SubSeq(toClient[s], 1, n) ELSE <<>>]
          /\ toClient' = [toClient EXCEPT ![s] = SubSeq(@, n + 1, Len(@))]
          /\ Goto(r, "r_frame")
     \/ /\ toClient[s] = <<>> /\ s \in eof \cup shut
        /\ Goto(r, "r_lost") /\ UNCHANGED <<frames, toClient>>
  /\ UNCHANGED <<flags, rcpts, waiters, eof, toServer, sockets, reading, history, spawned>>

NextFrame(r) == frames' = [frames EXCEPT ![r] = Tail(@)]

RNoMoreFrames(r) ==
  /\ At(r, "r_frame") /\ frames[r] = <<>>
  /\ Goto(r, "r_inner")
  /\ UNCHANGED <<flags, rcpts, waiters, network, sockets, chunk, history, spawned>>

RConnected(r) ==
  /\ At(r, "r_frame") /\ frames[r] # <<>> /\ Head(frames[r]).cmd = "CONNECTED"
  /\ SetConnected(TRUE)
  /\ sessions' = [sessions EXCEPT ![reading[r]] = @ + 1]
  /\ NextFrame(r)
  /\ Goto(r, "r_connected")
  /\ UNCHANGED <<running, connection_error, notified, exited, hbRunning, rcpts, stopWaiters,
                 network, sockets, reading, spawned, told, starts, timeouts, raises, asked>>

\* on_connected of the listeners: the application's, which may raise, and the
\* protocol listener's, which starts the heartbeats
ROnConnected(r) ==
  /\ At(r, "r_connected")
  /\ \/ /\ hbRunning' = TRUE
        /\ Goto(r, "r_frame") /\ UNCHANGED <<chunk, raises>>
     \/ /\ raises < MaxRaises /\ raises' = raises + 1
        /\ Raise(r) /\ UNCHANGED hbRunning
  /\ UNCHANGED <<running, connected, connection_error, notified, exited, rcpts, waiters, network,
                 sockets, spawned, told, sessions, starts, timeouts, asked>>

RError(r) ==
  /\ At(r, "r_frame") /\ frames[r] # <<>> /\ Head(frames[r]).cmd = "ERROR"
  /\ IF connected THEN UNCHANGED <<connection_error, connectWaiters>>
     ELSE connection_error' = TRUE /\ NotifyConnectWaiter
  /\ NextFrame(r)
  /\ UNCHANGED <<running, connected, notified, exited, hbRunning, rcpts, stopWaiters, network,
                 sockets, reading, history, spawned, pc, ret>>

\* a RECEIPT: one that a DISCONNECT waits for ends the session
RReceipt(r) ==
  /\ At(r, "r_frame") /\ frames[r] # <<>> /\ Head(frames[r]).cmd = "RECEIPT"
  /\ IF Head(frames[r]).id \in receipts
     THEN /\ receipts' = receipts \ {Head(frames[r]).id}
          /\ Goto(r, "r_ack") /\ UNCHANGED frames
     ELSE NextFrame(r) /\ UNCHANGED <<receipts, pc, ret>>
  /\ UNCHANGED <<flags, disconnect_receipt, waiters, network, sockets, reading, history, spawned>>

RAck(r) ==
  /\ At(r, "r_ack")
  /\ SetConnected(FALSE)
  /\ Goto(r, "r_match")
  /\ UNCHANGED <<running, connection_error, notified, exited, hbRunning, rcpts, stopWaiters,
                 network, sockets, chunk, history, spawned>>

\* Mutant of RMatch: the comparison of the receipt ids never holds
RMatchNever(r) ==
  /\ At(r, "r_match")
  /\ Goto(r, "r_clear")
  /\ UNCHANGED <<flags, rcpts, waiters, network, sockets, chunk, history, spawned>>

RMatch(r) ==
  /\ At(r, "r_match")
  /\ IF Head(frames[r]).id = disconnect_receipt THEN Call(r, "ds_running", "r_clear")
     ELSE Goto(r, "r_clear")
  /\ UNCHANGED <<flags, rcpts, waiters, network, sockets, chunk, history, spawned>>

RClear(r) ==
  /\ At(r, "r_clear")
  /\ disconnect_receipt' = None
  /\ NextFrame(r)
  /\ Goto(r, "r_frame")
  /\ UNCHANGED <<flags, receipts, waiters, network, sockets, reading, history, spawned>>

\* Mutant of RLost: tells the listeners before the loop is left
RLostTellsFirst(r) ==
  /\ At(r, "r_lost")
  /\ running' = FALSE
  /\ Call(r, "nd_flag", "r_outer")
  /\ UNCHANGED <<connected, connection_error, notified, exited, hbRunning,
                 rcpts, waiters, network, sockets, chunk, history, spawned>>

\* ConnectionClosedException
RLost(r) ==
  /\ At(r, "r_lost")
  /\ running' = FALSE
  /\ Call(r, "cl_close", "r_exit")
  /\ UNCHANGED <<connected, connection_error, notified, exited, hbRunning,
                 rcpts, waiters, network, sockets, chunk, history, spawned>>

\* Mutant of CleanupClose: forgets the socket without closing it
CleanupNoClose(r) ==
  /\ At(r, "cl_close")
  /\ Goto(r, "cl_null")
  /\ UNCHANGED <<flags, rcpts, waiters, network, sockets, chunk, history, spawned>>

\* cleanup()
CleanupClose(r) ==
  /\ At(r, "cl_close")
  /\ closed' = IF socket = None THEN closed ELSE closed \cup {socket}
  /\ Goto(r, "cl_null")
  /\ UNCHANGED <<adapter, flags, rcpts, waiters, network, socket, conns, shut, chunk, history, spawned>>

CleanupNull(r) ==
  /\ At(r, "cl_null")
  /\ socket' = None
  /\ Return(r)
  /\ UNCHANGED <<adapter, flags, rcpts, waiters, network, conns, closed, shut, chunk, history, spawned>>

\* Mutant of RExit: no notify_all() on the exit condition
RExitSilent(r) ==
  /\ At(r, "r_exit")
  /\ exited' = TRUE
  /\ Goto(r, "r_notify?")
  /\ UNCHANGED <<running, connected, connection_error, notified, hbRunning, rcpts, waiters,
                 network, sockets, chunk, history, spawned>>

\* the finally block, up to notify("receiver_loop_completed") ...
RExit(r) ==
  /\ At(r, "r_exit")
  /\ exited' = TRUE
  /\ stopWaiters' = {}
  /\ Goto(r, "r_notify?")
  /\ UNCHANGED <<running, connected, connection_error, notified, hbRunning, rcpts, connectWaiters,
                 network, sockets, chunk, history, spawned>>

\* ... which a listener may leave by raising: of the rest nothing is done
RCompletedRaises(r) ==
  /\ At(r, "r_notify?")
  /\ raises < MaxRaises /\ raises' = raises + 1
  /\ Goto(r, "r_dead")
  /\ UNCHANGED <<flags, rcpts, waiters, network, sockets, chunk, spawned,
                 told, sessions, starts, timeouts, asked>>

\* Mutants of RCheckNotified: tells whatever the flag says; tells only while connected
RTellAlways(r) ==
  /\ At(r, "r_notify?")
  /\ Call(r, "nd_flag", "r_wake")
  /\ UNCHANGED <<flags, rcpts, waiters, network, sockets, chunk, history, spawned>>
RTellConnected(r) ==
  /\ At(r, "r_notify?")
  /\ IF notified \/ ~IsConnected THEN Goto(r, "r_wake") ELSE Call(r, "nd_flag", "r_wake")
  /\ UNCHANGED <<flags, rcpts, waiters, network, sockets, chunk, history, spawned>>

RCheckNotified(r) ==
  /\ At(r, "r_notify?")
  /\ IF notified THEN Goto(r, "r_wake") ELSE Call(r, "nd_flag", "r_wake")
  /\ UNCHANGED <<flags, rcpts, waiters, network, sockets, chunk, history, spawned>>

\* Mutant of RWake: no notify_all() on the connect condition
RWakeNobody(r) ==
  /\ At(r, "r_wake")
  /\ Goto(r, "r_reset")
  /\ UNCHANGED <<flags, rcpts, waiters, network, sockets, chunk, history, spawned>>

RWake(r) ==
  /\ At(r, "r_wake")
  /\ connectWaiters' = {}
  /\ Goto(r, "r_reset")
  /\ UNCHANGED <<flags, rcpts, stopWaiters, network, sockets, chunk, history, spawned>>

RReset(r) ==
  /\ At(r, "r_reset")
  /\ notified' = FALSE
  /\ Goto(r, "r_done")
  /\ UNCHANGED <<running, connected, connection_error, exited, hbRunning,
                 rcpts, waiters, network, sockets, chunk, history, spawned>>

-----------------------------------------------------------------------------
(* External: the server at the other end of socket s, and the network *)

Answer(s) ==
  /\ s \notin eof \cup shut /\ toServer[s] # <<>>
  /\ toServer' = [toServer EXCEPT ![s] = Tail(@)]
  /\ LET reply(cmd, id) == toClient' = [toClient EXCEPT ![s] = Append(@, Frame(cmd, id))] IN
     \/ /\ Head(toServer[s]).cmd = "CONNECT"
        /\ \/ reply("CONNECTED", None) /\ UNCHANGED eof
           \/ reply("ERROR", None) /\ eof' = eof \cup {s}
     \/ /\ Head(toServer[s]).cmd = "DISCONNECT"
        /\ reply("RECEIPT", Head(toServer[s]).id) /\ UNCHANGED eof
  /\ UNCHANGED <<flags, rcpts, waiters, sockets, chunk, history, spawned, pc, ret>>

\* the connection is lost, with any of the frames still on their way
Lose(s) ==
  /\ s \in 1..conns \ eof
  /\ eof' = eof \cup {s}
  /\ \E n \in 0..Len(toClient[s]) :
       toClient' = [toClient EXCEPT ![s] = SubSeq(@, 1, n)]
  /\ UNCHANGED <<flags, rcpts, waiters, sockets, chunk, history, spawned, pc, ret, toServer>>

-----------------------------------------------------------------------------
Connecting(t) ==
  \/ Start(t) \/ Attempt(t) \/ Dial(t) \/ Verify(t) \/ Spawn(t) \/ SendConnect(t)
  \/ WaitForConnection(t) \/ WakeFromConnectWait(t) \/ WaitTest(t)
Disconnecting(u) == DiscCheck(u) \/ DiscReceipt(u) \/ DiscTransmit(u) \/ DiscSend(u)
Stopping(t) == Stop(t) \/ WakeFromStopWait(t)
DisconnectingSocket(t) ==
  \/ DsRunning(t) \/ DsCheckShutdown(t) \/ DsShutdown(t) \/ DsCheckClose(t) \/ DsClose(t)
  \/ DsNull(t) \/ DsCheckNotified(t)
Notifying(t) == NdFlag(t) \/ NdConnected(t) \/ NdListeners(t) \/ NdHeartbeat(t)
Receiving(r) ==
  \/ ROuter(r) \/ RInner(r) \/ RRecv(r) \/ RNoMoreFrames(r) \/ RConnected(r) \/ ROnConnected(r)
  \/ RError(r) \/ RReceipt(r) \/ RAck(r) \/ RMatch(r) \/ RClear(r) \/ RLost(r)
  \/ CleanupClose(r) \/ CleanupNull(r)
  \/ RExit(r) \/ RCompletedRaises(r) \/ RCheckNotified(r) \/ RWake(r) \/ RReset(r)

\* every thread has come to rest: the program has nothing left to do
Rest == AtRest /\ UNCHANGED vars

Next ==
  \/ \E u \in Users : Connect(u) \/ Disconnect(u)
  \/ HbTimeout(Heartbeat)
  \/ \E t \in Threads : Connecting(t)
  \/ \E u \in Users : Disconnecting(u)
  \/ \E t \in Users \cup {Heartbeat} : Stopping(t)
  \/ \E t \in Receivers \cup {Heartbeat} : DisconnectingSocket(t) \/ Notifying(t)
  \/ HbSetConnected(Heartbeat)
  \/ \E r \in Receivers : Receiving(r)
  \/ \E s \in Sockets : Answer(s) \/ Lose(s)
  \/ Rest

Spec == Init /\ [][Next]_vars

\* The steps of thread t.  The calls the application makes, and the heartbeat
\* timeouts, are free: they may never come.
Run(t) ==
  \/ Connecting(t)
  \/ t \in Users /\ Disconnecting(t)
  \/ t \notin Receivers /\ Stopping(t)
  \/ t \notin Users /\ (DisconnectingSocket(t) \/ Notifying(t))
  \/ t = Heartbeat /\ HbSetConnected(t)
  \/ t \in Receivers /\ Receiving(t)

\* Threads are scheduled, and a server that is still there answers.
Fairness == /\ \A t \in Threads : WF_vars(Run(t))
            /\ \A s \in Sockets : WF_vars(Answer(s))
FairSpec == Spec /\ Fairness
-----------------------------------------------------------------------------
(* Properties *)

\* the threads that are inside notify("disconnected") and have yet to call the listeners
Telling == {t \in Threads : pc[t] \in {"nd_flag", "nd_connected", "nd_listeners"}}

\* A thread that waits in stop() is never left behind by a receiver that has
\* ended: the end of a receiver loop (transport.py:354-357) and the test before
\* the wait (119-121) cannot miss each other.
StopNotForgotten == stopWaiters # {} => ~exited

\* Nobody keeps waiting in wait_for_connection() once the session is up or the
\* server has refused it: each wake-up (137, 242) finds its waiter.
ConnectNotForgotten == connectWaiters # {} => ~IsConnected /\ ~connection_error

\* No two receivers read from the same socket: the bytes of a frame reach one of them.
OneReader ==
  \A r1, r2 \in Receivers :
    r1 # r2 /\ pc[r1] = "r_recv" /\ pc[r2] = "r_recv" => reading[r1] # reading[r2]

\* Once a connection's threads have ended it has no socket and its socket is closed.
SocketReleased ==
  \A r \in Receivers :
    pc[r] \in {"r_done", "r_dead"} /\ conns = r => socket = None /\ r \in closed

\* on_disconnected is called once per connection ("Fix for double disconnect
\* notifications", CHANGELOG.md:67) ...
ToldOnce == \A s \in Sockets : told[s] <= 1
\* ... which is so but for the heartbeat thread, which may call it a second time
\* when it took part in ending the connection (613 and 360 are tests without a lock).
ToldOncePerThread == \A s \in Sockets : told[s] <= 1 + timeouts

\* The listeners hear of the end of every connection whose receiver has ended; but
\* for one that ended in a listener's on_receiver_loop_completed ("r_dead").
LossIsTold ==
  \A r \in Receivers : pc[r] = "r_done" => told[r] > 0 \/ Telling # {}

\* Whoever waits in stop(), or for the connection, does not wait for ever; in stop()
\* this is so when no two threads disconnect at once, ...
DisconnectReturns == \A u \in Users : pc[u] = "disc_send" ~> pc[u] = "idle"
\* ... although a thread whose session is over is to come back from there: stop()
\* waits for the receiver thread to exit (116-120).  Two threads that disconnect at
\* once may overwrite each other's __disconnect_receipt (262) and both receipts be
\* processed without ending the socket: then this is false.
StopReturns ==
  \A u \in Users : pc[u] = "stop_waiting" /\ ~connected ~> pc[u] # "stop_waiting"
WaitReturns == \A t \in Threads : pc[t] = "waiting" ~> pc[t] # "waiting"
\* a connection the server drops is told to the listeners
DropIsTold == \A s \in Sockets : s \in eof ~> told[s] > 0

\* A receiver that is in recv() when another thread gives the connection up is
\* woken, also when the server has gone silent, and ends.  The shutdown() of a
\* websocket does not wake it: this holds of adapter = "tcp".
ReceiverEnds == \A r \in Receivers : ~running /\ pc[r] = "r_recv" ~> pc[r] \in {"r_done", "r_dead"}

-----------------------------------------------------------------------------
(* Refinement: what the application can see of the transport *)

Stage(s) ==
  IF s > conns THEN "none"
  ELSE IF s = conns /\ connected /\ sessions[s] > 0 THEN "up"
  ELSE IF sessions[s] = 0 /\ told[s] = 0 THEN "open"
  ELSE "down"

Promised == INSTANCE ConnectionContract
  WITH Connections <- Sockets, MaxTold <- 1 + MaxTimeouts,
       stage <- [s \in Sockets |-> Stage(s)], told <- told

\* Transport implements the contract: its safety part for every schedule, ...
ImplementsSafety == Promised!ContractSafety
\* ... and with fair scheduling all of it
Implements == Promised!Contract
=============================================================================
