---------------------------- MODULE TransportProofs ----------------------------
(***************************************************************************)
(* Theorems about Transport for every number of application threads,       *)
(* connections, timeouts and raising callbacks, and every way of           *)
(* connecting again.                                                       *)
(*                                                                         *)
(* Its types.  TypeOK is not inductive: RRecv reads the frames of the      *)
(* socket a receiver is on, and RClear drops the head of the frames a      *)
(* receiver holds.  That there is such a socket, and such a frame, depends *)
(* on where the receiver is and on what it returns to, which IInv adds.    *)
(*                                                                         *)
(* Who is inside connect().  No call of wait_for_connection() is           *)
(* forgotten, for every application that does not connect again from its   *)
(* on_disconnected.  set_connected(True) and an ERROR wake one waiter only *)
(* (notify(), not notify_all()): it must be the only one.  That is the     *)
(* argument: at most one thread is ever inside connect(), and whoever      *)
(* waits is inside it.                                                     *)
(*                                                                         *)
(* No two receivers read from one socket, and the contract is kept by an   *)
(* application that does connect again from its on_disconnected: two parts *)
(* after that, each with its argument.                                     *)
(*                                                                         *)
(* The life and the end of the connection of an application that connects  *)
(* once, and the contract for it: the last part.                           *)
(***************************************************************************)
EXTENDS Transport, SequenceTheorems, TLAPS

ReceiverReturns == {"idle", "r_exit", "r_outer", "r_clear", "r_wake"}
ReturnLabels == ReceiverReturns \cup {"wait", "stop"}

\* no method returns into recv(), and a receiver only into its own loop
ReturnsOK ==
  /\ ret \in [Threads -> ReturnLabels]
  /\ \A r \in Receivers : ret[r] \in ReceiverReturns
\* cleanup() is called by the loop alone
CleanupReturns ==
  \A r \in Receivers : pc[r] \in {"cl_close", "cl_null"} => ret[r] \in {"r_outer", "r_exit"}
\* recv() is called on a socket
ReadsASocket == \A r \in Receivers : pc[r] = "r_recv" => reading[r] # None
\* until it is dropped in RClear, a receiver keeps the RECEIPT it processes,
\* whatever it calls in the meantime
HoldsFrame ==
  \A r \in Receivers :
    pc[r] \in {"r_ack", "r_match", "r_clear"} \/ (pc[r] \in CallLabels /\ ret[r] = "r_clear")
      => frames[r] # <<>>

\* the control state: its types, with what they are proved from
ControlOK ==
  /\ pc \in [Threads -> Labels] /\ ReturnsOK /\ CleanupReturns
  /\ reading \in [Receivers -> Sockets \cup {None}] /\ ReadsASocket
  /\ frames \in [Receivers -> Seq(ServerFrames)] /\ HoldsFrame
IInv == ControlOK /\ DataTypeOK

-----------------------------------------------------------------------------
\* The three kinds of threads are distinct, and None is no socket.
LEMMA ThreadKinds ==
  /\ \A u \in Users : u \notin Receivers /\ u # Heartbeat /\ u \in Threads
  /\ Heartbeat \notin Receivers /\ Heartbeat \in Threads
  /\ \A r \in Receivers : r \in Threads /\ r \in Nat
  /\ None \notin Sockets /\ None \notin Users
BY ThreadsAssumption, BoundsAssumption DEF Threads, Receivers, Sockets

\* Counting one more.
LEMMA CountTyped ==
  ASSUME NEW S, NEW f \in [S -> Nat], NEW x
  PROVE  [f EXCEPT ![x] = f[x] + 1] \in [S -> Nat]
<1>1. CASE x \in S
  <2>1. f[x] + 1 \in Nat
    BY <1>1
  <2> QED
    BY <2>1
<1>2. CASE x \notin S
  BY <1>2
<1> QED
  BY <1>1, <1>2

\* A step of one thread that starts another.
LEMMA TwoMoves ==
  ASSUME NEW S, NEW L, NEW f \in [S -> L], NEW a, NEW b, NEW v, NEW w,
         NEW x \in S
  PROVE  LET g == [f EXCEPT ![a] = v, ![b] = w]
         IN  g[x] = f[x] \/ g[x] = w \/ (g[x] = v /\ x = a)
BY Zenon

\* A part of a sequence has the elements of the sequence.
LEMMA PartOfSeq ==
  ASSUME NEW S, NEW q \in Seq(S), NEW m \in Nat \ {0}, NEW n \in 0..Len(q)
  PROVE  SubSeq(q, m, n) \in Seq(S)
BY SubSeqProperties

-----------------------------------------------------------------------------
(* The moves of a thread *)

\* A thread that is no receiver may go anywhere.
LEMMA MoveOutside ==
  ASSUME ControlOK, NEW t \in Threads \ Receivers, NEW l \in Labels, Goto(t, l), UNCHANGED chunk
  PROVE  ControlOK'
BY DEF ControlOK, ReturnsOK, CleanupReturns, ReadsASocket, HoldsFrame, Goto, chunk

\* Any thread may go on within the method it is in.
LEMMA MoveInCall ==
  ASSUME ControlOK, NEW t \in Threads, pc[t] \in CallLabels, NEW l \in CallLabels,
         Goto(t, l), UNCHANGED chunk
  PROVE  ControlOK'
BY DEF ControlOK, ReturnsOK, CleanupReturns, ReadsASocket, HoldsFrame, Goto, chunk,
       Labels, CallLabels

\* A receiver may go on within its loop, except into recv() and cleanup().
LoopLabels == ReceiverLabels \ {"unborn", "r_recv", "cl_close", "cl_null"}
LEMMA MoveInLoop ==
  ASSUME ControlOK, NEW t \in Receivers, NEW l \in LoopLabels,
         l \in {"r_ack", "r_match", "r_clear"} => frames[t] # <<>>,
         Goto(t, l), UNCHANGED chunk
  PROVE  ControlOK'
BY ThreadKinds
DEF ControlOK, ReturnsOK, CleanupReturns, ReadsASocket, HoldsFrame, Goto, chunk,
    Labels, LoopLabels, ReceiverLabels, CallLabels

\* It may drop the frame it has processed.
LEMMA DropFrame ==
  ASSUME ControlOK, NEW t \in Receivers, pc[t] \in LoopLabels, frames[t] # <<>>,
         NextFrame(t), UNCHANGED reading,
         Goto(t, "r_frame") \/ Goto(t, "r_connected")
           \/ (pc[t] = "r_frame" /\ UNCHANGED <<pc, ret>>)
  PROVE  ControlOK'
<1>1. Tail(frames[t]) \in Seq(ServerFrames)
  BY HeadTailProperties DEF ControlOK
<1>2. frames' = [frames EXCEPT ![t] = Tail(frames[t])]
  BY DEF NextFrame
<1>3. frames' \in [Receivers -> Seq(ServerFrames)]
  BY <1>1, <1>2 DEF ControlOK
<1>4. /\ t \in Threads /\ pc \in [Threads -> Labels] /\ ret' = ret /\ reading' = reading
      /\ \A s \in Receivers : s \in Threads /\ (s # t => frames'[s] = frames[s])
  BY <1>2, ThreadKinds DEF ControlOK, Goto
<1>5. PICK l \in {"r_frame", "r_connected"} : pc' = [pc EXCEPT ![t] = l]
  <2>1. CASE pc[t] = "r_frame" /\ UNCHANGED <<pc, ret>>
    <3>1. pc' = [pc EXCEPT ![t] = "r_frame"]
      BY <1>4, <2>1
    <3> QED BY <3>1
  <2> QED BY <2>1 DEF Goto
<1>6. pc' \in [Threads -> Labels] /\ (ReturnsOK)'
  BY <1>4, <1>5 DEF ControlOK, ReturnsOK, Labels, ReceiverLabels
<1>7. (CleanupReturns)' /\ (ReadsASocket)'
  BY <1>4, <1>5 DEF ControlOK, CleanupReturns, ReadsASocket
<1>8. (HoldsFrame)'
  BY <1>4, <1>5 DEF ControlOK, HoldsFrame, CallLabels
<1> QED
  BY <1>3, <1>4, <1>6, <1>7, <1>8 DEF ControlOK

\* Calls and returns; an exception.
LEMMA CallOutside ==
  ASSUME ControlOK, NEW t \in Threads \ Receivers, NEW l \in Labels, NEW n \in ReturnLabels,
         Call(t, l, n), UNCHANGED chunk
  PROVE  ControlOK'
BY DEF ControlOK, ReturnsOK, CleanupReturns, ReadsASocket, HoldsFrame, Call, chunk

LEMMA CallInLoop ==
  ASSUME ControlOK, NEW t \in Receivers, NEW l \in CallLabels \cup {"cl_close"},
         NEW n \in ReceiverReturns, n = "r_clear" => frames[t] # <<>>,
         l = "cl_close" => n \in {"r_outer", "r_exit"},
         Call(t, l, n), UNCHANGED chunk
  PROVE  ControlOK'
BY ThreadKinds
DEF ControlOK, ReturnsOK, CleanupReturns, ReadsASocket, HoldsFrame, Call, chunk,
    Labels, ReceiverLabels, CallLabels, ReturnLabels

LEMMA ReturnKeeps ==
  ASSUME ControlOK, NEW t \in Threads, pc[t] \in CallLabels, Return(t), UNCHANGED chunk
  PROVE  ControlOK'
<1>1. ret[t] \in Labels
  BY DEF ControlOK, ReturnsOK, ReturnLabels, ReceiverReturns, Labels, UserLabels, CallLabels,
         ReceiverLabels
<1>2. CASE t \in Receivers
  BY <1>1, <1>2 DEF ControlOK, ReturnsOK, ReceiverReturns, CleanupReturns, ReadsASocket, HoldsFrame,
                    Return, Goto, chunk, CallLabels
<1>3. CASE t \notin Receivers
  BY <1>1, <1>3, MoveOutside DEF Return
<1> QED
  BY <1>2, <1>3

LEMMA RaiseKeeps ==
  ASSUME ControlOK, NEW t \in Threads, Raise(t)
  PROVE  ControlOK'
<1>1. pc' \in [Threads -> Labels] /\ ReturnsOK'
  BY DEF ControlOK, ReturnsOK, ReturnLabels, ReceiverReturns, Raise, Labels, UserLabels,
         HeartbeatLabels, ReceiverLabels
<1>2. frames' \in [Receivers -> Seq(ServerFrames)] /\ reading' = reading
  BY DEF ControlOK, Raise
<1>3. CleanupReturns' /\ ReadsASocket' /\ HoldsFrame'
  <2>1. CASE t \in Receivers
    BY <2>1, ThreadKinds
    DEF ControlOK, ReturnsOK, CleanupReturns, ReadsASocket, HoldsFrame, Raise, CallLabels, Threads
  <2>2. CASE t \notin Receivers
    BY <2>2 DEF ControlOK, ReturnsOK, CleanupReturns, ReadsASocket, HoldsFrame, Raise
  <2> QED
    BY <2>1, <2>2
<1> QED
  BY <1>1, <1>2, <1>3 DEF ControlOK

-----------------------------------------------------------------------------
(* The steps *)

\* What a client sends is a client's frame.
LEMMA SendTyped ==
  ASSUME DataTypeOK, NEW t, NEW f \in ClientFrames, NEW l, Send(t, f, l)
  PROVE  DataTypeOK'
<1>1. toServer' \in [Sockets -> Seq(ClientFrames)]
  <2>1. CASE socket \in Sockets
    <3>1. Append(toServer[socket], f) \in Seq(ClientFrames)
      BY <2>1, AppendProperties DEF DataTypeOK
    <3> QED
      BY <2>1, <3>1 DEF Send, DataTypeOK
  <2>2. CASE socket \notin Sockets
    BY <2>2 DEF Send, DataTypeOK
  <2> QED
    BY <2>1, <2>2
<1> QED
  BY <1>1 DEF Send, DataTypeOK, flags, rcpts, waiters, sockets, history

\* The number of the next socket, or receiver, is in range.
LEMMA NextNumber ==
  ASSUME NEW n \in 0..MaxStarts, n < MaxStarts
  PROVE  n + 1 \in 1..MaxStarts /\ n + 1 \in 0..MaxStarts
  BY BoundsAssumption

\* The steps of connect() keep the invariant.
LEMMA ConnectingStep ==
  ASSUME IInv, NEW t \in Threads, Connecting(t)
  PROVE  IInv'
<1> USE ThreadKinds DEF IInv, At
<1>1. CASE Start(t)
  <2>1. DataTypeOK'
    BY <1>1 DEF DataTypeOK, Start, flags, rcpts, waiters, network, sockets, history
  <2>2. ControlOK'
    BY <1>1, MoveInCall DEF Start, CallLabels
  <2> QED
    BY <2>1, <2>2
<1>2. CASE Attempt(t)
  <2>1. DataTypeOK'
    BY <1>2 DEF DataTypeOK, Attempt, flags, rcpts, waiters, network, sockets, history
  <2>2. ControlOK'
    BY <1>2, MoveInCall DEF Attempt, CallLabels
  <2> QED
    BY <2>1, <2>2
<1>3. CASE Dial(t)
  <2>1. DataTypeOK'
    <3>1. (conns < MaxStarts /\ conns' = conns + 1 /\ socket' = conns + 1)
            \/ (conns' = conns /\ socket' = socket)
      BY <1>3 DEF Dial
    <3>2. conns \in 0..MaxStarts /\ socket \in Sockets \cup {None}
      BY DEF DataTypeOK
    <3>3. conns < MaxStarts => conns + 1 \in Sockets /\ conns + 1 \in 0..MaxStarts
      BY <3>2, NextNumber DEF Sockets
    <3>4. conns' \in 0..MaxStarts
      BY <3>1, <3>2, <3>3
    <3>5. socket' \in Sockets \cup {None}
      BY <3>1, <3>2, <3>3
    <3> QED
      BY <1>3, <3>4, <3>5 DEF DataTypeOK, Dial, flags, rcpts, waiters, network, history
  <2>2. ControlOK'
    BY <1>3, MoveInCall DEF Dial, CallLabels
  <2> QED
    BY <2>1, <2>2
<1>4. CASE Verify(t)
  <2>1. DataTypeOK'
    BY <1>4 DEF DataTypeOK, Verify, flags, rcpts, waiters, network, sockets, history
  <2>2. ControlOK'
    BY <1>4, MoveInCall, RaiseKeeps DEF Verify, CallLabels
  <2> QED
    BY <2>1, <2>2
<1>5. CASE Spawn(t)
  <2>1. DataTypeOK'
    BY <1>5, BoundsAssumption
    DEF DataTypeOK, Spawn, flags, rcpts, waiters, network, sockets, history
  <2>2. spawned + 1 \in Receivers
    BY <1>5, NextNumber DEF Spawn, DataTypeOK, Receivers
  <2>3. /\ pc' = [pc EXCEPT ![t] = "send_connect", ![spawned + 1] = "r_outer"]
        /\ ret' = ret /\ reading' = reading /\ frames' = frames /\ pc[t] = "spawn"
    BY <1>5 DEF Spawn, chunk
  <2>4. pc' \in [Threads -> Labels]
    <3>1. "send_connect" \in Labels /\ "r_outer" \in Labels
      BY DEF Labels, CallLabels, ReceiverLabels
    <3> QED
      BY <2>2, <2>3, <3>1 DEF ControlOK
  <2>5. \A x \in Receivers : \/ pc'[x] = pc[x] \/ pc'[x] = "r_outer"
                             \/ pc'[x] = "send_connect" /\ pc[x] = "spawn"
    BY <2>3, TwoMoves DEF ControlOK
  <2>6. CleanupReturns' /\ ReadsASocket'
    BY <2>3, <2>5 DEF ControlOK, CleanupReturns, ReadsASocket
  <2>7. HoldsFrame'
    BY <2>3, <2>5 DEF ControlOK, HoldsFrame, CallLabels
  <2>8. ControlOK'
    BY <2>3, <2>4, <2>6, <2>7 DEF ControlOK, ReturnsOK
  <2> QED
    BY <2>1, <2>8
<1>6. CASE SendConnect(t)
  <2>1. DataTypeOK'
    BY <1>6, SendTyped DEF SendConnect, ClientFrames
  <2>2. CASE Raise(t)
    BY <1>6, <2>1, <2>2, RaiseKeeps
  <2>3. CASE t \in Users /\ Goto(t, ret[t]) /\ UNCHANGED chunk
    BY <1>6, <2>1, <2>3, ReturnKeeps DEF SendConnect, Return, CallLabels
  <2>4. CASE t \notin Users /\ Goto(t, "wait") /\ UNCHANGED chunk
    BY <1>6, <2>1, <2>4, MoveInCall DEF SendConnect, CallLabels
  <2> QED
    BY <1>6, <2>1, <2>2, <2>3, <2>4 DEF SendConnect, Send
<1>7. CASE WaitForConnection(t)
  <2>1. DataTypeOK'
    BY <1>7 DEF DataTypeOK, WaitForConnection, flags, rcpts, waiters, network, sockets, history
  <2>2. ControlOK'
    BY <1>7, MoveInCall DEF WaitForConnection, CallLabels
  <2> QED
    BY <2>1, <2>2
<1>8. CASE WakeFromConnectWait(t)
  <2>1. DataTypeOK'
    BY <1>8 DEF DataTypeOK, WakeFromConnectWait, flags, rcpts, waiters, network, sockets, history
  <2>2. ControlOK'
    BY <1>8, MoveInCall DEF WakeFromConnectWait, CallLabels
  <2> QED
    BY <2>1, <2>2
<1>9. CASE WaitTest(t)
  <2>1. DataTypeOK'
    BY <1>9 DEF DataTypeOK, WaitTest, flags, rcpts, waiters, network, sockets, history
  <2>2. CASE Raise(t)
    BY <1>9, <2>1, <2>2, RaiseKeeps
  <2>3. CASE t \in Users /\ Goto(t, "idle") /\ UNCHANGED chunk
    BY <1>9, <2>1, <2>3, MoveOutside DEF Labels, UserLabels
  <2>4. CASE t \notin Users /\ Goto(t, "nd_heartbeat") /\ UNCHANGED chunk
    BY <1>9, <2>1, <2>4, MoveInCall DEF WaitTest, CallLabels
  <2> QED
    BY <1>9, <2>1, <2>2, <2>3, <2>4 DEF WaitTest, AfterConnect
<1> QED
  BY <1>1, <1>2, <1>3, <1>4, <1>5, <1>6, <1>7, <1>8, <1>9 DEF Connecting

\* So do the steps of disconnect().
LEMMA DisconnectingStep ==
  ASSUME IInv, NEW t \in Users, Disconnecting(t)
  PROVE  IInv'
<1> USE ThreadKinds DEF IInv, At
<1>1. CASE DiscCheck(t)
  <2>1. DataTypeOK'
    BY <1>1 DEF DataTypeOK, DiscCheck, flags, rcpts, waiters, network, sockets, history
  <2>2. ControlOK'
    BY <1>1, MoveInCall, ReturnKeeps DEF DiscCheck, CallLabels
  <2> QED
    BY <2>1, <2>2
<1>2. CASE DiscReceipt(t)
  <2>1. DataTypeOK'
    BY <1>2 DEF DataTypeOK, DiscReceipt, flags, rcpts, waiters, network, sockets, history
  <2>2. ControlOK'
    BY <1>2, MoveInCall DEF DiscReceipt, CallLabels
  <2> QED
    BY <2>1, <2>2
<1>3. CASE DiscTransmit(t)
  <2>1. DataTypeOK'
    BY <1>3 DEF DataTypeOK, DiscTransmit, flags, rcpts, waiters, network, sockets, history
  <2>2. ControlOK'
    BY <1>3, MoveInCall DEF DiscTransmit, CallLabels
  <2> QED
    BY <2>1, <2>2
<1>4. CASE DiscSend(t)
  <2>1. DataTypeOK'
    BY <1>4, SendTyped DEF DiscSend, ClientFrames
  <2>2. ControlOK'
    BY <1>4, ReturnKeeps, RaiseKeeps DEF DiscSend, CallLabels, Send, Return
  <2> QED
    BY <2>1, <2>2
<1> QED
  BY <1>1, <1>2, <1>3, <1>4 DEF Disconnecting

\* So do the steps of stop().
LEMMA StoppingStep ==
  ASSUME IInv, NEW t \in Users \cup {Heartbeat}, Stopping(t)
  PROVE  IInv'
<1> USE ThreadKinds DEF IInv, At
<1>1. CASE Stop(t)
  <2>1. DataTypeOK'
    BY <1>1 DEF DataTypeOK, Stop, flags, rcpts, waiters, network, sockets, history
  <2>2. ControlOK'
    BY <1>1, MoveOutside DEF Stop, AfterStop, CallLabels, Labels, UserLabels, HeartbeatLabels
  <2> QED
    BY <2>1, <2>2
<1>2. CASE WakeFromStopWait(t)
  <2>1. DataTypeOK'
    BY <1>2 DEF DataTypeOK, WakeFromStopWait, flags, rcpts, waiters, network, sockets, history
  <2>2. ControlOK'
    BY <1>2, MoveInCall DEF WakeFromStopWait, CallLabels
  <2> QED
    BY <2>1, <2>2
<1> QED
  BY <1>1, <1>2 DEF Stopping

\* So do the steps of disconnect_socket().
LEMMA DisconnectingSocketStep ==
  ASSUME IInv, NEW t \in Receivers \cup {Heartbeat}, DisconnectingSocket(t)
  PROVE  IInv'
<1> USE ThreadKinds DEF IInv, At
<1>1. CASE DsRunning(t)
  <2>1. DataTypeOK'
    BY <1>1 DEF DataTypeOK, DsRunning, flags, rcpts, waiters, network, sockets, history
  <2>2. ControlOK'
    BY <1>1, MoveInCall DEF DsRunning, CallLabels
  <2> QED
    BY <2>1, <2>2
<1>2. CASE DsCheckShutdown(t)
  <2>1. DataTypeOK'
    BY <1>2
    DEF DataTypeOK, DsCheckShutdown, DsHasSocket, flags, rcpts, waiters, network, sockets, history
  <2>2. ControlOK'
    BY <1>2, MoveInCall DEF DsCheckShutdown, CallLabels, DsHasSocket
  <2> QED
    BY <2>1, <2>2
<1>3. CASE DsShutdown(t)
  <2>1. DataTypeOK'
    BY <1>3 DEF DataTypeOK, DsShutdown, TcpShutdown, WsShutdown, flags, rcpts, waiters, network, sockets, history
  <2>2. ControlOK'
    BY <1>3, MoveInCall, RaiseKeeps DEF DsShutdown, CallLabels
  <2> QED
    BY <2>1, <2>2
<1>4. CASE DsCheckClose(t)
  <2>1. DataTypeOK'
    BY <1>4
    DEF DataTypeOK, DsCheckClose, DsHasSocket, flags, rcpts, waiters, network, sockets, history
  <2>2. ControlOK'
    BY <1>4, MoveInCall DEF DsCheckClose, CallLabels, DsHasSocket
  <2> QED
    BY <2>1, <2>2
<1>5. CASE DsClose(t)
  <2>1. DataTypeOK'
    BY <1>5 DEF DataTypeOK, DsClose, flags, rcpts, waiters, network, sockets, history
  <2>2. ControlOK'
    BY <1>5, MoveInCall, RaiseKeeps DEF DsClose, CallLabels
  <2> QED
    BY <2>1, <2>2
<1>6. CASE DsNull(t)
  <2>1. DataTypeOK'
    BY <1>6 DEF DataTypeOK, DsNull, flags, rcpts, waiters, network, sockets, history
  <2>2. ControlOK'
    BY <1>6, MoveInCall DEF DsNull, CallLabels
  <2> QED
    BY <2>1, <2>2
<1>7. CASE DsCheckNotified(t)
  <2>1. DataTypeOK'
    BY <1>7 DEF DataTypeOK, DsCheckNotified, flags, rcpts, waiters, network, sockets, history
  <2>2. ControlOK'
    BY <1>7, MoveInCall, ReturnKeeps DEF DsCheckNotified, CallLabels
  <2> QED
    BY <2>1, <2>2
<1> QED
  BY <1>1, <1>2, <1>3, <1>4, <1>5, <1>6, <1>7 DEF DisconnectingSocket

\* So do the steps of notify("disconnected").
LEMMA NotifyingStep ==
  ASSUME IInv, NEW t \in Receivers \cup {Heartbeat}, Notifying(t)
  PROVE  IInv'
<1> USE ThreadKinds DEF IInv, At
<1>1. CASE NdFlag(t)
  <2>1. DataTypeOK'
    BY <1>1 DEF DataTypeOK, NdFlag, flags, rcpts, waiters, network, sockets, history
  <2>2. ControlOK'
    BY <1>1, MoveInCall DEF NdFlag, CallLabels
  <2> QED
    BY <2>1, <2>2
<1>2. CASE NdConnected(t)
  <2>1. DataTypeOK'
    BY <1>2
    DEF DataTypeOK, NdConnected, SetConnected, NotifyConnectWaiter, flags, rcpts, waiters,
        network, sockets, history
  <2>2. ControlOK'
    BY <1>2, MoveInCall DEF NdConnected, CallLabels
  <2> QED
    BY <2>1, <2>2
<1>3. CASE NdListeners(t)
  <2>1. DataTypeOK'
    <3>1. told' \in [Sockets -> Nat]
      BY <1>3, CountTyped DEF NdListeners, DataTypeOK
    <3>2. raises' \in 0..MaxRaises /\ starts' \in 0..MaxStarts
      BY <1>3, BoundsAssumption DEF NdListeners, DataTypeOK
    <3> QED
      BY <1>3, <3>1, <3>2 DEF DataTypeOK, NdListeners, flags, rcpts, waiters, network, sockets
  <2>2. ControlOK'
    BY <1>3, MoveInCall, RaiseKeeps DEF NdListeners, CallLabels
  <2> QED
    BY <2>1, <2>2
<1>4. CASE NdHeartbeat(t)
  <2>1. DataTypeOK'
    BY <1>4 DEF DataTypeOK, NdHeartbeat, flags, rcpts, waiters, network, sockets, history
  <2>2. ControlOK'
    BY <1>4, ReturnKeeps DEF NdHeartbeat, CallLabels
  <2> QED
    BY <2>1, <2>2
<1> QED
  BY <1>1, <1>2, <1>3, <1>4 DEF Notifying

\* So do the steps of the receiver loop.
LEMMA ReceivingStep ==
  ASSUME IInv, NEW t \in Receivers, Receiving(t)
  PROVE  IInv'
<1> USE ThreadKinds DEF IInv, At
<1>1. CASE ROuter(t)
  <2>1. DataTypeOK'
    BY <1>1 DEF DataTypeOK, ROuter, flags, rcpts, waiters, network, sockets, history
  <2>2. ControlOK'
    BY <1>1, MoveInLoop DEF ROuter, LoopLabels, ReceiverLabels
  <2> QED
    BY <2>1, <2>2
<1>2. CASE RInner(t)
  <2>1. DataTypeOK'
    BY <1>2 DEF DataTypeOK, RInner, flags, rcpts, waiters, network, sockets, history
  <2>2. CASE Goto(t, "r_recv") /\ socket # None /\ reading' = [reading EXCEPT ![t] = socket]
    <3>1. reading' \in [Receivers -> Sockets \cup {None}] /\ reading'[t] # None
      BY <2>2 DEF ControlOK, DataTypeOK
    <3>2. frames' = frames
      BY <1>2 DEF RInner
    <3>3. /\ pc' \in [Threads -> Labels] /\ pc'[t] = "r_recv"
          /\ \A r \in Receivers \ {t} : pc'[r] = pc[r] /\ reading'[r] = reading[r]
      BY <2>2 DEF ControlOK, Goto, Labels, ReceiverLabels
    <3>4. ret' = ret
      BY <2>2 DEF Goto
    <3>5. CleanupReturns' /\ ReadsASocket'
      BY <3>1, <3>3, <3>4 DEF ControlOK, CleanupReturns, ReadsASocket
    <3>6. HoldsFrame'
      BY <3>2, <3>3, <3>4 DEF ControlOK, HoldsFrame, CallLabels
    <3>7. ReturnsOK' /\ frames' \in [Receivers -> Seq(ServerFrames)]
      BY <3>2, <3>4 DEF ControlOK, ReturnsOK
    <3> QED
      BY <2>1, <3>1, <3>3, <3>5, <3>6, <3>7 DEF ControlOK
  <2>3. CASE Goto(t, "r_lost") /\ UNCHANGED chunk
    BY <2>1, <2>3, MoveInLoop DEF LoopLabels, ReceiverLabels
  <2>4. CASE Call(t, "cl_close", "r_outer") /\ UNCHANGED chunk
    BY <2>1, <2>4, CallInLoop DEF ReceiverReturns
  <2> QED
    BY <1>2, <2>1, <2>2, <2>3, <2>4 DEF RInner, chunk
<1>3. CASE RRecv(t)
  <2> DEFINE s == reading[t]
  <2>1. s \in Sockets
    BY <1>3 DEF RRecv, ControlOK, ReadsASocket
  <2>2. ASSUME NEW n \in 1..Len(toClient[s]),
               frames' = [frames EXCEPT ![t] =
                            IF running THEN SubSeq(toClient[s], 1, n) ELSE <<>>],
               toClient' = [toClient EXCEPT ![s] = SubSeq(toClient[s], n + 1, Len(toClient[s]))],
               Goto(t, "r_frame")
        PROVE  IInv'
    <3>1. toClient[s] \in Seq(ServerFrames)
      BY <2>1 DEF DataTypeOK
    <3>2. /\ SubSeq(toClient[s], 1, n) \in Seq(ServerFrames) /\ <<>> \in Seq(ServerFrames)
          /\ SubSeq(toClient[s], n + 1, Len(toClient[s])) \in Seq(ServerFrames)
      BY <2>2, <3>1, PartOfSeq
    <3>3. DataTypeOK'
      BY <1>3, <2>1, <2>2, <3>2 DEF RRecv, DataTypeOK, flags, rcpts, waiters, sockets, history
    <3>4. ControlOK'
      BY <1>3, <2>2, <3>2 DEF RRecv, ControlOK, ReturnsOK, CleanupReturns, ReadsASocket, HoldsFrame,
                              Goto, Labels, ReceiverLabels, CallLabels
    <3> QED
      BY <3>3, <3>4
  <2>3. CASE Goto(t, "r_lost") /\ UNCHANGED <<frames, toClient>>
    <3>1. DataTypeOK'
      BY <1>3, <2>3 DEF RRecv, DataTypeOK, flags, rcpts, waiters, sockets, history
    <3>2. ControlOK'
      BY <1>3, <2>3, MoveInLoop DEF RRecv, LoopLabels, ReceiverLabels, chunk
    <3> QED
      BY <3>1, <3>2
  <2> QED
    BY <1>3, <2>2, <2>3 DEF RRecv
<1>4. CASE RNoMoreFrames(t)
  <2>1. DataTypeOK'
    BY <1>4 DEF DataTypeOK, RNoMoreFrames, flags, rcpts, waiters, network, sockets, history
  <2>2. ControlOK'
    BY <1>4, MoveInLoop DEF RNoMoreFrames, LoopLabels, ReceiverLabels
  <2> QED
    BY <2>1, <2>2
<1>5. CASE RConnected(t)
  <2>1. DataTypeOK'
    <3>1. sessions' \in [Sockets -> Nat]
      BY <1>5, CountTyped DEF RConnected, DataTypeOK
    <3>2. connectWaiters' \subseteq Threads
      BY <1>5 DEF RConnected, SetConnected, NotifyConnectWaiter, DataTypeOK
    <3> QED
      BY <1>5, <3>1, <3>2 DEF DataTypeOK, RConnected, SetConnected, rcpts, network, sockets
  <2>2. ControlOK'
    BY <1>5, DropFrame DEF RConnected, LoopLabels, ReceiverLabels
  <2> QED
    BY <2>1, <2>2
<1>6. CASE ROnConnected(t)
  <2>1. DataTypeOK'
    <3>1. raises' = raises \/ (raises < MaxRaises /\ raises' = raises + 1)
      BY <1>6 DEF ROnConnected
    <3>2. raises' \in 0..MaxRaises
      BY <3>1, BoundsAssumption DEF DataTypeOK
    <3>3. hbRunning' \in BOOLEAN
      BY <1>6 DEF ROnConnected, DataTypeOK
    <3> QED
      BY <1>6, <3>2, <3>3 DEF DataTypeOK, ROnConnected, rcpts, waiters, network, sockets
  <2>2. ControlOK'
    BY <1>6, MoveInLoop, RaiseKeeps DEF ROnConnected, LoopLabels, ReceiverLabels
  <2> QED
    BY <2>1, <2>2
<1>7. CASE RError(t)
  <2>1. DataTypeOK'
    BY <1>7
    DEF DataTypeOK, RError, NotifyConnectWaiter, flags, rcpts, waiters, network, sockets, history
  <2>2. ControlOK'
    BY <1>7, DropFrame DEF RError, LoopLabels, ReceiverLabels
  <2> QED
    BY <2>1, <2>2
<1>8. CASE RReceipt(t)
  <2>1. DataTypeOK'
    BY <1>8 DEF DataTypeOK, RReceipt, flags, rcpts, waiters, network, sockets, history
  <2>2. ControlOK'
    BY <1>8, MoveInLoop, DropFrame DEF RReceipt, LoopLabels, ReceiverLabels, chunk
  <2> QED
    BY <2>1, <2>2
<1>9. CASE RAck(t)
  <2>1. DataTypeOK'
    BY <1>9
    DEF DataTypeOK, RAck, SetConnected, NotifyConnectWaiter, flags, rcpts, waiters, network,
        sockets, history
  <2>2. ControlOK'
    BY <1>9, MoveInLoop DEF RAck, LoopLabels, ReceiverLabels, ControlOK, HoldsFrame
  <2> QED
    BY <2>1, <2>2
<1>10. CASE RMatch(t)
  <2>1. DataTypeOK'
    BY <1>10 DEF DataTypeOK, RMatch, flags, rcpts, waiters, network, sockets, history
  <2>2. ControlOK'
    BY <1>10, MoveInLoop, CallInLoop
    DEF RMatch, LoopLabels, ReceiverLabels, ControlOK, HoldsFrame, CallLabels, ReceiverReturns
  <2> QED
    BY <2>1, <2>2
<1>11. CASE RClear(t)
  <2>1. DataTypeOK'
    BY <1>11 DEF DataTypeOK, RClear, flags, rcpts, waiters, network, sockets, history
  <2>2. ControlOK'
    BY <1>11, DropFrame DEF RClear, LoopLabels, ReceiverLabels, ControlOK, HoldsFrame
  <2> QED
    BY <2>1, <2>2
<1>12. CASE RLost(t)
  <2>1. DataTypeOK'
    BY <1>12 DEF DataTypeOK, RLost, flags, rcpts, waiters, network, sockets, history
  <2>2. ControlOK'
    BY <1>12, CallInLoop DEF RLost, ReceiverReturns
  <2> QED
    BY <2>1, <2>2
<1>13. CASE CleanupClose(t)
  <2>1. DataTypeOK'
    BY <1>13 DEF DataTypeOK, CleanupClose, flags, rcpts, waiters, network, sockets, history
  <2>2. ControlOK'
    BY <1>13, ThreadKinds
    DEF CleanupClose, ControlOK, ReturnsOK, CleanupReturns, ReadsASocket, HoldsFrame, Goto, chunk,
        Labels, ReceiverLabels, CallLabels
  <2> QED
    BY <2>1, <2>2
<1>14. CASE CleanupNull(t)
  <2>1. DataTypeOK'
    BY <1>14 DEF DataTypeOK, CleanupNull, flags, rcpts, waiters, network, sockets, history
  <2>2. ControlOK'
    BY <1>14, MoveInLoop
    DEF CleanupNull, LoopLabels, ReceiverLabels, ControlOK, CleanupReturns, Return
  <2> QED
    BY <2>1, <2>2
<1>15. CASE RExit(t)
  <2>1. DataTypeOK'
    BY <1>15 DEF DataTypeOK, RExit, flags, rcpts, waiters, network, sockets, history
  <2>2. ControlOK'
    BY <1>15, MoveInLoop DEF RExit, LoopLabels, ReceiverLabels
  <2> QED
    BY <2>1, <2>2
<1>16. CASE RCheckNotified(t)
  <2>1. DataTypeOK'
    BY <1>16 DEF DataTypeOK, RCheckNotified, flags, rcpts, waiters, network, sockets, history
  <2>2. ControlOK'
    BY <1>16, MoveInLoop, CallInLoop
    DEF RCheckNotified, LoopLabels, ReceiverLabels, CallLabels, ReceiverReturns
  <2> QED
    BY <2>1, <2>2
<1>17. CASE RWake(t)
  <2>1. DataTypeOK'
    BY <1>17 DEF DataTypeOK, RWake, flags, rcpts, waiters, network, sockets, history
  <2>2. ControlOK'
    BY <1>17, MoveInLoop DEF RWake, LoopLabels, ReceiverLabels
  <2> QED
    BY <2>1, <2>2
<1>18. CASE RReset(t)
  <2>1. DataTypeOK'
    BY <1>18 DEF DataTypeOK, RReset, flags, rcpts, waiters, network, sockets, history
  <2>2. ControlOK'
    BY <1>18, MoveInLoop DEF RReset, LoopLabels, ReceiverLabels
  <2> QED
    BY <2>1, <2>2
<1>19. CASE RCompletedRaises(t)
  <2>1. DataTypeOK'
    <3>1. raises' \in 0..MaxRaises
      BY <1>19, BoundsAssumption DEF RCompletedRaises, DataTypeOK
    <3> QED
      BY <1>19, <3>1
      DEF DataTypeOK, RCompletedRaises, flags, rcpts, waiters, network, sockets
  <2>2. ControlOK'
    BY <1>19, MoveInLoop DEF RCompletedRaises, LoopLabels, ReceiverLabels
  <2> QED
    BY <2>1, <2>2
<1> QED
  BY <1>1, <1>2, <1>3, <1>4, <1>5, <1>6, <1>7, <1>8, <1>9, <1>10, <1>11, <1>12, <1>13, <1>14,
      <1>15, <1>16, <1>17, <1>18, <1>19
  DEF Receiving

\* So do the calls of the application, the heartbeat timeout, the server and the network.
LEMMA OtherStep ==
  ASSUME IInv,
         \/ \E u \in Users : Connect(u) \/ Disconnect(u)
         \/ HbTimeout(Heartbeat) \/ HbSetConnected(Heartbeat)
         \/ \E s \in Sockets : Answer(s) \/ Lose(s)
         \/ UNCHANGED vars
  PROVE  IInv'
<1> USE ThreadKinds DEF IInv, At
<1>1. ASSUME NEW u \in Users, Connect(u) PROVE IInv'
  <2>1. DataTypeOK'
    BY SMTT(20), <1>1, BoundsAssumption
    DEF Connect, DataTypeOK, flags, rcpts, waiters, network, sockets
  <2>2. ControlOK'
    BY <1>1, CallOutside DEF Connect, Labels, CallLabels, ReturnLabels, ReceiverReturns
  <2> QED
    BY <2>1, <2>2
<1>2. ASSUME NEW u \in Users, Disconnect(u) PROVE IInv'
  <2>1. DataTypeOK'
    BY <1>2 DEF Disconnect, DataTypeOK, flags, rcpts, waiters, network, sockets
  <2>2. ControlOK'
    BY <1>2, CallOutside DEF Disconnect, Labels, CallLabels, ReturnLabels, ReceiverReturns
  <2> QED
    BY <2>1, <2>2
<1>3. CASE HbTimeout(Heartbeat)
  <2>1. DataTypeOK'
    BY <1>3, BoundsAssumption DEF HbTimeout, DataTypeOK, flags, rcpts, waiters, network, sockets
  <2>2. ControlOK'
    BY <1>3, CallOutside DEF HbTimeout, Labels, HeartbeatLabels, ReturnLabels
  <2> QED
    BY <2>1, <2>2
<1>4. CASE HbSetConnected(Heartbeat)
  <2>1. DataTypeOK'
    BY <1>4 DEF HbSetConnected, SetConnected, DataTypeOK, rcpts, network, sockets, history
  <2>2. ControlOK'
    BY <1>4, MoveOutside DEF HbSetConnected, Labels, CallLabels
  <2> QED
    BY <2>1, <2>2
<1>5. ASSUME NEW s \in Sockets, Answer(s) PROVE IInv'
  <2> DEFINE request == Head(toServer[s])
  <2>1. /\ request \in ClientFrames /\ Tail(toServer[s]) \in Seq(ClientFrames)
        /\ toClient[s] \in Seq(ServerFrames)
    BY <1>5, HeadTailProperties DEF Answer, DataTypeOK
  <2>2. request.cmd = "DISCONNECT" => request.id \in Users
    BY <2>1 DEF ClientFrames, Frame
  <2>3. \E f \in ServerFrames : toClient' = [toClient EXCEPT ![s] = Append(toClient[s], f)]
    BY <1>5, <2>2 DEF Answer, ServerFrames
  <2>4. toClient' \in [Sockets -> Seq(ServerFrames)]
    BY <2>1, <2>3, AppendProperties DEF DataTypeOK
  <2>5. DataTypeOK'
    BY <1>5, <2>1, <2>4 DEF Answer, DataTypeOK, flags, rcpts, waiters, sockets, history
  <2>6. ControlOK'
    BY <1>5 DEF Answer, chunk, ControlOK, ReturnsOK, CleanupReturns, ReadsASocket, HoldsFrame
  <2> QED
    BY <2>5, <2>6
<1>6. ASSUME NEW s \in Sockets, Lose(s) PROVE IInv'
  <2>1. PICK n \in 0..Len(toClient[s]) :
          toClient' = [toClient EXCEPT ![s] = SubSeq(toClient[s], 1, n)]
    BY <1>6 DEF Lose
  <2>2. SubSeq(toClient[s], 1, n) \in Seq(ServerFrames)
    BY PartOfSeq DEF DataTypeOK
  <2>3. DataTypeOK'
    BY <1>6, <2>1, <2>2 DEF Lose, DataTypeOK, flags, rcpts, waiters, sockets, history
  <2>4. ControlOK'
    BY <1>6 DEF Lose, chunk, ControlOK, ReturnsOK, CleanupReturns, ReadsASocket, HoldsFrame
  <2> QED
    BY <2>3, <2>4
<1>7. CASE UNCHANGED vars
  BY <1>7 DEF vars, DataTypeOK, flags, rcpts, waiters, network, sockets, history, chunk,
              ControlOK, ReturnsOK, CleanupReturns, ReadsASocket, HoldsFrame
<1> QED
  BY <1>1, <1>2, <1>3, <1>4, <1>5, <1>6, <1>7

\* The invariant holds initially, and every step keeps it.
LEMMA Invariance == Spec => []IInv
<1>1. Init => IInv
  <2> SUFFICES ASSUME Init PROVE IInv
    OBVIOUS
  <2>1. DataTypeOK
    <3>1. /\ toServer \in [Sockets -> Seq(ClientFrames)]
          /\ toClient \in [Sockets -> Seq(ServerFrames)]
          /\ told \in [Sockets -> Nat] /\ sessions \in [Sockets -> Nat]
      BY DEF Init
    <3>2. /\ conns \in 0..MaxStarts /\ spawned \in 0..MaxStarts /\ starts \in 0..MaxStarts
          /\ timeouts \in 0..MaxTimeouts /\ raises \in 0..MaxRaises
      BY BoundsAssumption DEF Init
    <3> QED
      BY <3>1, <3>2 DEF Init, DataTypeOK
  <2>2. ControlOK
    BY ThreadKinds
    DEF Init, ControlOK, ReturnsOK, ReceiverReturns, ReturnLabels, CleanupReturns, ReadsASocket,
        HoldsFrame, Labels, UserLabels, CallLabels, HeartbeatLabels, ReceiverLabels
  <2> QED
    BY <2>1, <2>2 DEF IInv
<1>2. IInv /\ [Next]_vars => IInv'
  <2> SUFFICES ASSUME IInv, [Next]_vars PROVE IInv'
    OBVIOUS
  <2> QED
    BY ConnectingStep, DisconnectingStep, StoppingStep, DisconnectingSocketStep, NotifyingStep,
       ReceivingStep, OtherStep DEF Next, Rest
<1> QED
  BY <1>1, <1>2, PTL DEF Spec

\* Every state the threads reach is well-typed: in particular no method indexes
\* a socket or a frame that is not there.
THEOREM TypeCorrect == Spec => []TypeOK
<1>1. IInv => TypeOK
  <2>1. \A f : f \in [Threads -> ReturnLabels] => f \in [Threads -> Labels]
    BY DEF ReturnLabels, ReceiverReturns, Labels, UserLabels, CallLabels, ReceiverLabels
  <2> QED
    BY <2>1 DEF IInv, ControlOK, DataTypeOK, ReturnsOK, ControlTypeOK, TypeOK
<1> QED
  BY <1>1, Invariance, PTL

\* The last receiver to end a connection leaves nobody waiting in stop(), and
\* nobody begins to wait once a receiver has ended: stop() tests and waits, and
\* the receiver sets the flag and notifies, under the same lock
\* (transport.py:119-121, 355-357).
THEOREM StopWaitersSafe == Spec => []StopNotForgotten
<1>1. Init => StopNotForgotten
  BY DEF Init, StopNotForgotten
<1>2. StopNotForgotten /\ [Next]_vars => StopNotForgotten'
  <2> SUFFICES ASSUME StopNotForgotten, [Next]_vars, stopWaiters' # {} PROVE ~exited'
    BY DEF StopNotForgotten
  <2>1. ASSUME NEW t, Stop(t) PROVE ~exited'
    BY <2>1 DEF Stop, StopNotForgotten, flags
  <2>2. ASSUME NEW r, RExit(r) PROVE ~exited'
    BY <2>2 DEF RExit
  <2>3. CASE UNCHANGED <<stopWaiters, exited>>
    BY <2>3 DEF StopNotForgotten
  <2>4. ASSUME NEW t, Connecting(t) PROVE UNCHANGED <<stopWaiters, exited>>
    BY <2>4 DEF Connecting, Start, Attempt, Dial, Verify, Spawn, SendConnect, Send, WaitForConnection,
                WakeFromConnectWait, WaitTest, flags, waiters
  <2>5. ASSUME NEW u, Disconnecting(u) PROVE UNCHANGED <<stopWaiters, exited>>
    BY <2>5 DEF Disconnecting, DiscCheck, DiscReceipt, DiscTransmit, DiscSend, Send, flags, waiters
  <2>6. ASSUME NEW t, DisconnectingSocket(t) PROVE UNCHANGED <<stopWaiters, exited>>
    BY <2>6 DEF DisconnectingSocket, DsRunning, DsCheckShutdown, DsCheckClose, DsHasSocket,
                DsShutdown, DsClose, DsNull, DsCheckNotified, flags, waiters
  <2>7. ASSUME NEW t, Notifying(t) PROVE UNCHANGED <<stopWaiters, exited>>
    BY <2>7 DEF Notifying, NdFlag, NdConnected, NdListeners, NdHeartbeat, flags, waiters
  <2>8. ASSUME NEW r, Receiving(r), ~RExit(r) PROVE UNCHANGED <<stopWaiters, exited>>
    BY <2>8 DEF Receiving, ROuter, RInner, RRecv, RNoMoreFrames, RConnected, ROnConnected, RError,
                RReceipt, RAck, RMatch, RClear, RLost, CleanupClose, CleanupNull, RCheckNotified,
                RCompletedRaises, RWake, RReset, flags, waiters
  <2>9. ASSUME NEW t, WakeFromStopWait(t) \/ HbSetConnected(t) \/ HbTimeout(t)
                        \/ Connect(t) \/ Disconnect(t)
        PROVE  UNCHANGED <<stopWaiters, exited>>
    BY <2>9 DEF WakeFromStopWait, HbSetConnected, HbTimeout, Connect, Disconnect, flags, waiters
  <2>10. ASSUME NEW s, Answer(s) \/ Lose(s) PROVE UNCHANGED <<stopWaiters, exited>>
    BY <2>10 DEF Answer, Lose, flags, waiters
  <2>11. CASE UNCHANGED vars
    BY <2>11, <2>3 DEF vars, flags, waiters
  <2> QED
    BY <2>1, <2>2, <2>3, <2>4, <2>5, <2>6, <2>7, <2>8, <2>9, <2>10, <2>11
    DEF Next, Rest, Stopping
<1> QED
  BY <1>1, <1>2, PTL DEF Spec

-----------------------------------------------------------------------------
(* Inside connect() *)

\* the steps of connect()
ConnectLabels ==
  {"start", "attempt", "dial", "verify", "spawn", "send_connect", "wait", "waiting", "wait_test"}

OneConnects ==
  /\ starts = 0 => \A t \in Threads : pc[t] \notin ConnectLabels
  /\ \A t1, t2 \in Threads : pc[t1] \in ConnectLabels /\ pc[t2] \in ConnectLabels => t1 = t2
WaitersWait == \A t \in connectWaiters : pc[t] = "waiting"
\* only connect(), called by the application, returns into wait_for_connection()
OnlyConnectWaits ==
  \A t \in Threads :
    ret[t] = "wait" => t \in Users /\ pc[t] \notin CallLabels \ ConnectLabels
ConnectControl == OneConnects /\ WaitersWait /\ OnlyConnectWaits
CInv == ConnectControl /\ ConnectNotForgotten

-----------------------------------------------------------------------------
(* The moves of a thread *)

\* nobody begins to wait, or to connect
NoMoreWaiters == connectWaiters' \subseteq connectWaiters /\ starts' = starts

\* A thread that is not in connect() goes on outside it, ...
LEMMA GoOutside ==
  ASSUME IInv, ConnectControl, NEW t \in Threads, pc[t] \notin ConnectLabels,
         NEW l \in Labels \ ConnectLabels,
         l \in CallLabels => pc[t] \in CallLabels \/ t \notin Users,
         Goto(t, l), NoMoreWaiters
  PROVE  ConnectControl'
BY DEF IInv, ControlOK, DataTypeOK, ReturnsOK, ConnectControl, OneConnects, WaitersWait,
       OnlyConnectWaits, ConnectLabels, Goto, NoMoreWaiters

\* ... stays where it is, ...
LEMMA StayOutside ==
  ASSUME IInv, ConnectControl, UNCHANGED <<pc, ret>>, NoMoreWaiters
  PROVE  ConnectControl'
BY DEF IInv, DataTypeOK, ConnectControl, OneConnects, WaitersWait, OnlyConnectWaits, NoMoreWaiters

\* ... calls another method, ...
LEMMA CallOutOfConnect ==
  ASSUME IInv, ConnectControl, NEW t \in Threads, pc[t] \notin ConnectLabels,
         NEW l \in Labels \ ConnectLabels, NEW n \in ReturnLabels \ {"wait"},
         Call(t, l, n), NoMoreWaiters
  PROVE  ConnectControl'
BY DEF IInv, ControlOK, DataTypeOK, ReturnsOK, ConnectControl, OneConnects, WaitersWait,
       OnlyConnectWaits, ConnectLabels, Call, NoMoreWaiters

\* ... or returns from one.
LEMMA ReturnOutside ==
  ASSUME IInv, ConnectControl, NEW t \in Threads, pc[t] \in CallLabels \ ConnectLabels,
         Return(t), NoMoreWaiters
  PROVE  ConnectControl'
<1>1. ret[t] \in Labels \ ConnectLabels
  BY
  DEF IInv, ControlOK, ReturnsOK, ReturnLabels, ReceiverReturns, ConnectControl, OnlyConnectWaits,
         Labels, UserLabels, CallLabels, ReceiverLabels, ConnectLabels
<1> QED
  BY <1>1, GoOutside DEF Return

\* A thread in connect() goes on, or leaves it; an exception leaves every method.
LEMMA GoInside ==
  ASSUME IInv, ConnectControl, NEW t \in Threads, pc[t] \in ConnectLabels, t \notin connectWaiters,
         NEW l \in ConnectLabels \cup {"idle", "nd_heartbeat"}, l = "nd_heartbeat" => t \notin
             Users,
         Goto(t, l), starts' = starts,
         \/ connectWaiters' = connectWaiters
         \/ l = "waiting" /\ connectWaiters' = connectWaiters \cup {t}
  PROVE  ConnectControl'
BY DEF IInv, ControlOK, DataTypeOK, ReturnsOK, ConnectControl, OneConnects, WaitersWait,
       OnlyConnectWaits, ConnectLabels, CallLabels, Goto

LEMMA RaiseLeaves ==
  ASSUME IInv, ConnectControl, NEW t \in Threads, pc[t] # "waiting", Raise(t), NoMoreWaiters
  PROVE  ConnectControl'
BY DEF IInv, ControlOK, DataTypeOK, ReturnsOK, ConnectControl, OneConnects, WaitersWait,
       OnlyConnectWaits, ConnectLabels, CallLabels, Raise, NoMoreWaiters

-----------------------------------------------------------------------------
(* The steps *)

\* No step of connect() forgets a waiter.
LEMMA ConnectingWaits ==
  ASSUME Reuse # "callback", IInv, CInv, NEW t \in Threads, Connecting(t)
  PROVE  CInv'
<1> USE ThreadKinds DEF At, CInv
<1>1. CASE Start(t)
  <2>1. ConnectControl'
    BY <1>1, GoInside
    DEF Start, NoMoreWaiters, ConnectLabels, ConnectControl, WaitersWait, waiters, history
  <2>2. ConnectNotForgotten'
    BY <1>1
    DEF ConnectControl, OneConnects, WaitersWait, ConnectNotForgotten, IsConnected, ConnectLabels,
        IInv, DataTypeOK, flags, waiters, sockets, Start
  <2> QED
    BY <2>1, <2>2
<1>2. CASE Attempt(t)
  <2>1. ConnectControl'
    BY <1>2, GoInside
    DEF Attempt, NoMoreWaiters, ConnectLabels, ConnectControl, WaitersWait, waiters, history
  <2>2. ConnectNotForgotten'
    BY <1>2
    DEF ConnectControl, OneConnects, WaitersWait, ConnectNotForgotten, IsConnected, ConnectLabels,
        IInv, DataTypeOK, flags, waiters, sockets, Attempt
  <2> QED
    BY <2>1, <2>2
<1>3. CASE Dial(t)
  <2>1. ConnectControl'
    BY <1>3, GoInside
    DEF Dial, NoMoreWaiters, ConnectLabels, ConnectControl, WaitersWait, waiters, history
  <2>2. ConnectNotForgotten'
    BY <1>3
    DEF ConnectControl, OneConnects, WaitersWait, ConnectNotForgotten, IsConnected, ConnectLabels,
        IInv, DataTypeOK, flags, waiters, sockets, Dial
  <2> QED
    BY <2>1, <2>2
<1>4. CASE Verify(t)
  <2>1. ConnectControl'
    BY <1>4, GoInside, RaiseLeaves
    DEF Verify, NoMoreWaiters, ConnectLabels, ConnectControl, WaitersWait, waiters, history
  <2>2. ConnectNotForgotten'
    BY <1>4
    DEF ConnectControl, OneConnects, WaitersWait, ConnectNotForgotten, IsConnected, ConnectLabels,
        IInv, DataTypeOK, flags, waiters, sockets, Verify
  <2> QED
    BY <2>1, <2>2
<1>5. CASE Spawn(t)
  <2>1. ConnectControl'
    <3>1. /\ pc' = [pc EXCEPT ![t] = "send_connect", ![spawned + 1] = "r_outer"]
          /\ ret' = ret /\ connectWaiters' = connectWaiters /\ starts' = starts
          /\ pc[t] = "spawn"
      BY <1>5 DEF Spawn, waiters, history
    <3>2. pc \in [Threads -> Labels] /\ connectWaiters \subseteq Threads
      BY DEF IInv, ControlOK, DataTypeOK
    <3>3. \A x \in Threads :
            \/ pc'[x] \in {pc[x], "r_outer"}
            \/ pc'[x] = "send_connect" /\ pc[x] = "spawn"
      BY <3>1, <3>2, TwoMoves
    <3>4. OneConnects'
      <4>1. \A x \in Threads : pc'[x] \in ConnectLabels => pc[x] \in ConnectLabels
        BY <3>3 DEF ConnectLabels
      <4> QED
        BY <3>1, <4>1 DEF ConnectControl, OneConnects
    <3>5. OnlyConnectWaits'
      <4>1. \A x \in Threads : pc[x] \notin CallLabels \ ConnectLabels
                               => pc'[x] \notin CallLabels \ ConnectLabels
        BY <3>3 DEF ConnectLabels, CallLabels
      <4> QED
        BY <3>1, <4>1 DEF ConnectControl, OnlyConnectWaits
    <3>6. connectWaiters' = {}
      BY <1>5, <3>1, <3>2 DEF Spawn, ConnectControl, OneConnects, WaitersWait, ConnectLabels
    <3> QED
      BY <3>4, <3>5, <3>6 DEF ConnectControl, WaitersWait
  <2>2. ConnectNotForgotten'
    BY <1>5
    DEF ConnectControl, OneConnects, WaitersWait, ConnectNotForgotten, IsConnected, ConnectLabels,
        IInv, DataTypeOK, flags, waiters, sockets, Spawn
  <2> QED
    BY <2>1, <2>2
<1>6. CASE SendConnect(t)
  <2>1. ConnectControl'
    <3>1. NoMoreWaiters /\ connectWaiters' = connectWaiters /\ starts' = starts
      BY <1>6 DEF SendConnect, Send, NoMoreWaiters, waiters, history
    <3>2. t \notin connectWaiters
      BY <1>6 DEF SendConnect, ConnectControl, WaitersWait
    <3>3. CASE Raise(t)
      BY <1>6, <3>1, <3>3, RaiseLeaves DEF SendConnect
    <3>4. CASE t \in Users /\ Goto(t, ret[t])
      BY <1>6, <3>1, <3>2, <3>4
      DEF SendConnect, IInv, ControlOK, ReturnsOK, ConnectControl, OneConnects, WaitersWait,
          OnlyConnectWaits, ConnectLabels, Goto
    <3>5. CASE t \notin Users /\ Goto(t, "wait")
      BY <1>6, <3>1, <3>2, <3>5, GoInside DEF SendConnect, ConnectLabels
    <3> QED
      BY <1>6, <3>3, <3>4, <3>5 DEF SendConnect, Send
  <2>2. ConnectNotForgotten'
    BY <1>6
    DEF ConnectControl, OneConnects, WaitersWait, ConnectNotForgotten, IsConnected, ConnectLabels,
        IInv, DataTypeOK, flags, waiters, sockets, SendConnect, Send
  <2> QED
    BY <2>1, <2>2
<1>7. CASE WaitForConnection(t)
  <2>1. ConnectControl'
    BY <1>7, GoInside
    DEF WaitForConnection, NoMoreWaiters, ConnectLabels, ConnectControl, WaitersWait, waiters,
        history
  <2>2. ConnectNotForgotten'
    BY <1>7
    DEF ConnectControl, OneConnects, WaitersWait, ConnectNotForgotten, IsConnected, ConnectLabels,
        IInv, DataTypeOK, flags, waiters, sockets, WaitForConnection
  <2> QED
    BY <2>1, <2>2
<1>8. CASE WakeFromConnectWait(t)
  <2>1. ConnectControl'
    BY <1>8, GoInside
    DEF WakeFromConnectWait, NoMoreWaiters, ConnectLabels, ConnectControl, WaitersWait, waiters,
        history
  <2>2. ConnectNotForgotten'
    BY <1>8
    DEF ConnectControl, OneConnects, WaitersWait, ConnectNotForgotten, IsConnected, ConnectLabels,
        IInv, DataTypeOK, flags, waiters, sockets, WakeFromConnectWait
  <2> QED
    BY <2>1, <2>2
<1>9. CASE WaitTest(t)
  <2>1. ConnectControl'
    BY <1>9, GoInside, RaiseLeaves
    DEF WaitTest, AfterConnect, NoMoreWaiters, ConnectLabels, ConnectControl, WaitersWait,
        waiters, history
  <2>2. ConnectNotForgotten'
    BY <1>9
    DEF ConnectControl, OneConnects, WaitersWait, ConnectNotForgotten, IsConnected, ConnectLabels,
        IInv, DataTypeOK, flags, waiters, sockets, WaitTest, AfterConnect
  <2> QED
    BY <2>1, <2>2
<1> QED
  BY <1>1, <1>2, <1>3, <1>4, <1>5, <1>6, <1>7, <1>8, <1>9 DEF Connecting

\* Nor a step of disconnect(), ...
LEMMA DisconnectingWaits ==
  ASSUME Reuse # "callback", IInv, CInv, NEW t \in Users, Disconnecting(t)
  PROVE  CInv'
<1> USE ThreadKinds DEF At, CInv
<1>1. CASE DiscCheck(t)
  <2>1. ConnectControl'
    BY <1>1, GoOutside, ReturnOutside
    DEF DiscCheck, NoMoreWaiters, ConnectLabels, Labels, CallLabels, waiters, history
  <2>2. ConnectNotForgotten'
    BY <1>1
    DEF ConnectControl, OneConnects, WaitersWait, ConnectNotForgotten, IsConnected, ConnectLabels,
        IInv, DataTypeOK, flags, waiters, sockets, DiscCheck
  <2> QED
    BY <2>1, <2>2
<1>2. CASE DiscReceipt(t)
  <2>1. ConnectControl'
    BY <1>2, GoOutside
    DEF DiscReceipt, NoMoreWaiters, ConnectLabels, Labels, CallLabels, ReceiverLabels, waiters,
        history
  <2>2. ConnectNotForgotten'
    BY <1>2
    DEF ConnectControl, OneConnects, WaitersWait, ConnectNotForgotten, IsConnected, ConnectLabels,
        IInv, DataTypeOK, flags, waiters, sockets, DiscReceipt
  <2> QED
    BY <2>1, <2>2
<1>3. CASE DiscTransmit(t)
  <2>1. ConnectControl'
    BY <1>3, GoOutside
    DEF DiscTransmit, NoMoreWaiters, ConnectLabels, Labels, CallLabels, ReceiverLabels, waiters,
        history
  <2>2. ConnectNotForgotten'
    BY <1>3
    DEF ConnectControl, OneConnects, WaitersWait, ConnectNotForgotten, IsConnected, ConnectLabels,
        IInv, DataTypeOK, flags, waiters, sockets, DiscTransmit
  <2> QED
    BY <2>1, <2>2
<1>4. CASE DiscSend(t)
  <2>1. ConnectControl'
    BY <1>4, ReturnOutside, RaiseLeaves
    DEF DiscSend, Send, NoMoreWaiters, ConnectLabels, Return, CallLabels, waiters, history
  <2>2. ConnectNotForgotten'
    BY <1>4
    DEF ConnectControl, OneConnects, WaitersWait, ConnectNotForgotten, IsConnected, ConnectLabels,
        IInv, DataTypeOK, flags, waiters, sockets, DiscSend, Send
  <2> QED
    BY <2>1, <2>2
<1> QED
  BY <1>1, <1>2, <1>3, <1>4 DEF Disconnecting

\* ... of stop(), ...
LEMMA StoppingWaits ==
  ASSUME Reuse # "callback", IInv, CInv, NEW t \in Users \cup {Heartbeat}, Stopping(t)
  PROVE  CInv'
<1> USE ThreadKinds DEF At, CInv
<1>1. CASE Stop(t)
  <2>1. ConnectControl'
    BY <1>1, GoOutside
    DEF Stop, AfterStop, NoMoreWaiters, ConnectLabels, Labels, UserLabels, CallLabels,
        HeartbeatLabels, waiters, history
  <2>2. ConnectNotForgotten'
    BY <1>1
    DEF ConnectControl, OneConnects, WaitersWait, ConnectNotForgotten, IsConnected, ConnectLabels,
        IInv, DataTypeOK, flags, waiters, sockets, Stop, AfterStop
  <2> QED
    BY <2>1, <2>2
<1>2. CASE WakeFromStopWait(t)
  <2>1. ConnectControl'
    BY <1>2, GoOutside
    DEF WakeFromStopWait, NoMoreWaiters, ConnectLabels, Labels, CallLabels, ReceiverLabels,
        waiters, history
  <2>2. ConnectNotForgotten'
    BY <1>2
    DEF ConnectControl, OneConnects, WaitersWait, ConnectNotForgotten, IsConnected, ConnectLabels,
        IInv, DataTypeOK, flags, waiters, sockets, WakeFromStopWait
  <2> QED
    BY <2>1, <2>2
<1> QED
  BY <1>1, <1>2 DEF Stopping

\* ... of disconnect_socket(), ...
LEMMA DisconnectingSocketWaits ==
  ASSUME Reuse # "callback", IInv, CInv, NEW t \in Receivers \cup {Heartbeat},
      DisconnectingSocket(t)
  PROVE  CInv'
<1> USE ThreadKinds DEF At, CInv
<1>1. CASE DsRunning(t)
  <2>1. ConnectControl'
    BY <1>1, GoOutside
    DEF DsRunning, NoMoreWaiters, ConnectLabels, Labels, CallLabels, ReceiverLabels, waiters,
        history
  <2>2. ConnectNotForgotten'
    BY <1>1
    DEF ConnectControl, OneConnects, WaitersWait, ConnectNotForgotten, IsConnected, ConnectLabels,
        IInv, DataTypeOK, flags, waiters, sockets, DsRunning
  <2> QED
    BY <2>1, <2>2
<1>2. CASE DsCheckShutdown(t)
  <2>1. ConnectControl'
    BY <1>2, GoOutside
    DEF DsCheckShutdown, DsHasSocket, NoMoreWaiters, ConnectLabels, Labels, CallLabels,
        ReceiverLabels, waiters, history
  <2>2. ConnectNotForgotten'
    BY <1>2
    DEF ConnectControl, OneConnects, WaitersWait, ConnectNotForgotten, IsConnected, ConnectLabels,
        IInv, DataTypeOK, flags, waiters, sockets, DsCheckShutdown, DsHasSocket
  <2> QED
    BY <2>1, <2>2
<1>3. CASE DsShutdown(t)
  <2>1. ConnectControl'
    BY <1>3, GoOutside, RaiseLeaves
    DEF DsShutdown, NoMoreWaiters, ConnectLabels, Labels, CallLabels, ReceiverLabels, waiters,
        history
  <2>2. ConnectNotForgotten'
    BY <1>3
    DEF ConnectControl, OneConnects, WaitersWait, ConnectNotForgotten, IsConnected, ConnectLabels,
        IInv, DataTypeOK, flags, waiters, sockets, DsShutdown, TcpShutdown, WsShutdown
  <2> QED
    BY <2>1, <2>2
<1>4. CASE DsCheckClose(t)
  <2>1. ConnectControl'
    BY <1>4, GoOutside
    DEF DsCheckClose, DsHasSocket, NoMoreWaiters, ConnectLabels, Labels, CallLabels,
        ReceiverLabels, waiters, history
  <2>2. ConnectNotForgotten'
    BY <1>4
    DEF ConnectControl, OneConnects, WaitersWait, ConnectNotForgotten, IsConnected, ConnectLabels,
        IInv, DataTypeOK, flags, waiters, sockets, DsCheckClose, DsHasSocket
  <2> QED
    BY <2>1, <2>2
<1>5. CASE DsClose(t)
  <2>1. ConnectControl'
    BY <1>5, GoOutside, RaiseLeaves
    DEF DsClose, NoMoreWaiters, ConnectLabels, Labels, CallLabels, ReceiverLabels, waiters, history
  <2>2. ConnectNotForgotten'
    BY <1>5
    DEF ConnectControl, OneConnects, WaitersWait, ConnectNotForgotten, IsConnected, ConnectLabels,
        IInv, DataTypeOK, flags, waiters, sockets, DsClose
  <2> QED
    BY <2>1, <2>2
<1>6. CASE DsNull(t)
  <2>1. ConnectControl'
    BY <1>6, GoOutside
    DEF DsNull, NoMoreWaiters, ConnectLabels, Labels, CallLabels, ReceiverLabels, waiters, history
  <2>2. ConnectNotForgotten'
    BY <1>6
    DEF ConnectControl, OneConnects, WaitersWait, ConnectNotForgotten, IsConnected, ConnectLabels,
        IInv, DataTypeOK, flags, waiters, sockets, DsNull
  <2> QED
    BY <2>1, <2>2
<1>7. CASE DsCheckNotified(t)
  <2>1. ConnectControl'
    BY <1>7, GoOutside, ReturnOutside
    DEF DsCheckNotified, NoMoreWaiters, ConnectLabels, Labels, CallLabels, waiters, history
  <2>2. ConnectNotForgotten'
    BY <1>7
    DEF ConnectControl, OneConnects, WaitersWait, ConnectNotForgotten, IsConnected, ConnectLabels,
        IInv, DataTypeOK, flags, waiters, sockets, DsCheckNotified
  <2> QED
    BY <2>1, <2>2
<1> QED
  BY <1>1, <1>2, <1>3, <1>4, <1>5, <1>6, <1>7 DEF DisconnectingSocket

\* ... of notify("disconnected"), ...
LEMMA NotifyingWaits ==
  ASSUME Reuse # "callback", IInv, CInv, NEW t \in Receivers \cup {Heartbeat}, Notifying(t)
  PROVE  CInv'
<1> USE ThreadKinds DEF At, CInv
<1>1. CASE NdFlag(t)
  <2>1. ConnectControl'
    BY <1>1, GoOutside
    DEF NdFlag, NoMoreWaiters, ConnectLabels, Labels, CallLabels, ReceiverLabels, waiters, history
  <2>2. ConnectNotForgotten'
    BY <1>1
    DEF ConnectControl, OneConnects, WaitersWait, ConnectNotForgotten, IsConnected, ConnectLabels,
        IInv, DataTypeOK, flags, waiters, sockets, NdFlag
  <2> QED
    BY <2>1, <2>2
<1>2. CASE NdConnected(t)
  <2>1. ConnectControl'
    BY <1>2, GoOutside
    DEF NdConnected, SetConnected, NotifyConnectWaiter, NoMoreWaiters, ConnectLabels, Labels,
        CallLabels, ReceiverLabels, waiters, history
  <2>2. ConnectNotForgotten'
    BY <1>2
    DEF ConnectControl, OneConnects, WaitersWait, ConnectNotForgotten, IsConnected, ConnectLabels,
        IInv, DataTypeOK, flags, waiters, sockets, NdConnected, SetConnected, NotifyConnectWaiter
  <2> QED
    BY <2>1, <2>2
<1>3. CASE NdListeners(t)
  <2>1. ConnectControl'
    BY <1>3, GoOutside, RaiseLeaves
    DEF NdListeners, NoMoreWaiters, ConnectLabels, Labels, CallLabels, ReceiverLabels, waiters,
        history
  <2>2. ConnectNotForgotten'
    BY <1>3
    DEF ConnectControl, OneConnects, WaitersWait, ConnectNotForgotten, IsConnected, ConnectLabels,
        IInv, DataTypeOK, flags, waiters, sockets, NdListeners
  <2> QED
    BY <2>1, <2>2
<1>4. CASE NdHeartbeat(t)
  <2>1. ConnectControl'
    BY <1>4, GoOutside, ReturnOutside
    DEF NdHeartbeat, NoMoreWaiters, ConnectLabels, Labels, CallLabels, waiters, history
  <2>2. ConnectNotForgotten'
    BY <1>4
    DEF ConnectControl, OneConnects, WaitersWait, ConnectNotForgotten, IsConnected, ConnectLabels,
        IInv, DataTypeOK, flags, waiters, sockets, NdHeartbeat
  <2> QED
    BY <2>1, <2>2
<1> QED
  BY <1>1, <1>2, <1>3, <1>4 DEF Notifying

\* ... or of the receiver loop.
LEMMA ReceivingWaits ==
  ASSUME Reuse # "callback", IInv, CInv, NEW t \in Receivers, Receiving(t)
  PROVE  CInv'
<1> USE ThreadKinds DEF At, CInv
<1>1. CASE ROuter(t)
  <2>1. ConnectControl'
    BY <1>1, GoOutside
    DEF ROuter, NoMoreWaiters, ConnectLabels, Labels, CallLabels, ReceiverLabels, waiters, history
  <2>2. ConnectNotForgotten'
    BY <1>1
    DEF ConnectControl, OneConnects, WaitersWait, ConnectNotForgotten, IsConnected, ConnectLabels,
        IInv, DataTypeOK, flags, waiters, sockets, ROuter
  <2> QED
    BY <2>1, <2>2
<1>2. CASE RInner(t)
  <2>1. ConnectControl'
    BY <1>2, GoOutside, CallOutOfConnect
    DEF RInner, NoMoreWaiters, ConnectLabels, Labels, CallLabels, ReceiverLabels, ReturnLabels,
        ReceiverReturns, waiters, history
  <2>2. ConnectNotForgotten'
    BY <1>2
    DEF ConnectControl, OneConnects, WaitersWait, ConnectNotForgotten, IsConnected, ConnectLabels,
        IInv, DataTypeOK, flags, waiters, sockets, RInner
  <2> QED
    BY <2>1, <2>2
<1>3. CASE RRecv(t)
  <2>1. ConnectControl'
    BY <1>3, GoOutside
    DEF RRecv, NoMoreWaiters, ConnectLabels, Labels, CallLabels, ReceiverLabels, waiters, history
  <2>2. ConnectNotForgotten'
    BY <1>3
    DEF ConnectControl, OneConnects, WaitersWait, ConnectNotForgotten, IsConnected, ConnectLabels,
        IInv, DataTypeOK, flags, waiters, sockets, RRecv
  <2> QED
    BY <2>1, <2>2
<1>4. CASE RNoMoreFrames(t)
  <2>1. ConnectControl'
    BY <1>4, GoOutside
    DEF RNoMoreFrames, NoMoreWaiters, ConnectLabels, Labels, CallLabels, ReceiverLabels,
        waiters, history
  <2>2. ConnectNotForgotten'
    BY <1>4
    DEF ConnectControl, OneConnects, WaitersWait, ConnectNotForgotten, IsConnected, ConnectLabels,
        IInv, DataTypeOK, flags, waiters, sockets, RNoMoreFrames
  <2> QED
    BY <2>1, <2>2
<1>5. CASE RConnected(t)
  <2>1. ConnectControl'
    BY <1>5, GoOutside
    DEF RConnected, SetConnected, NotifyConnectWaiter, NoMoreWaiters, ConnectLabels, Labels,
        CallLabels, ReceiverLabels, waiters, history
  <2>2. ConnectNotForgotten'
    BY <1>5
    DEF ConnectControl, OneConnects, WaitersWait, ConnectNotForgotten, IsConnected, ConnectLabels,
        IInv, DataTypeOK, flags, waiters, sockets, RConnected, SetConnected, NotifyConnectWaiter
  <2> QED
    BY <2>1, <2>2
<1>6. CASE ROnConnected(t)
  <2>1. ConnectControl'
    BY <1>6, GoOutside, RaiseLeaves
    DEF ROnConnected, NoMoreWaiters, ConnectLabels, Labels, CallLabels, ReceiverLabels, waiters,
        history
  <2>2. ConnectNotForgotten'
    BY <1>6
    DEF ConnectControl, OneConnects, WaitersWait, ConnectNotForgotten, IsConnected, ConnectLabels,
        IInv, DataTypeOK, flags, waiters, sockets, ROnConnected
  <2> QED
    BY <2>1, <2>2
<1>7. CASE RError(t)
  <2>1. ConnectControl'
    BY <1>7, StayOutside, GoOutside
    DEF RError, NotifyConnectWaiter, NoMoreWaiters, ConnectLabels, Labels, CallLabels,
        ReceiverLabels, waiters, history
  <2>2. ConnectNotForgotten'
    BY <1>7
    DEF ConnectControl, OneConnects, WaitersWait, ConnectNotForgotten, IsConnected, ConnectLabels,
        IInv, DataTypeOK, flags, waiters, sockets, RError, NotifyConnectWaiter
  <2> QED
    BY <2>1, <2>2
<1>8. CASE RReceipt(t)
  <2>1. ConnectControl'
    BY <1>8, StayOutside, GoOutside
    DEF RReceipt, NoMoreWaiters, ConnectLabels, Labels, CallLabels, ReceiverLabels, waiters, history
  <2>2. ConnectNotForgotten'
    BY <1>8
    DEF ConnectControl, OneConnects, WaitersWait, ConnectNotForgotten, IsConnected, ConnectLabels,
        IInv, DataTypeOK, flags, waiters, sockets, RReceipt
  <2> QED
    BY <2>1, <2>2
<1>9. CASE RAck(t)
  <2>1. ConnectControl'
    BY <1>9, GoOutside
    DEF RAck, SetConnected, NotifyConnectWaiter, NoMoreWaiters, ConnectLabels, Labels,
        CallLabels, ReceiverLabels, waiters, history
  <2>2. ConnectNotForgotten'
    BY <1>9
    DEF ConnectControl, OneConnects, WaitersWait, ConnectNotForgotten, IsConnected, ConnectLabels,
        IInv, DataTypeOK, flags, waiters, sockets, RAck, SetConnected, NotifyConnectWaiter
  <2> QED
    BY <2>1, <2>2
<1>10. CASE RMatch(t)
  <2>1. ConnectControl'
    BY <1>10, GoOutside, CallOutOfConnect
    DEF RMatch, NoMoreWaiters, ConnectLabels, Labels, CallLabels, ReceiverLabels, ReturnLabels,
        ReceiverReturns, waiters, history
  <2>2. ConnectNotForgotten'
    BY <1>10
    DEF ConnectControl, OneConnects, WaitersWait, ConnectNotForgotten, IsConnected, ConnectLabels,
        IInv, DataTypeOK, flags, waiters, sockets, RMatch
  <2> QED
    BY <2>1, <2>2
<1>11. CASE RClear(t)
  <2>1. ConnectControl'
    BY <1>11, GoOutside
    DEF RClear, NoMoreWaiters, ConnectLabels, Labels, CallLabels, ReceiverLabels, waiters, history
  <2>2. ConnectNotForgotten'
    BY <1>11
    DEF ConnectControl, OneConnects, WaitersWait, ConnectNotForgotten, IsConnected, ConnectLabels,
        IInv, DataTypeOK, flags, waiters, sockets, RClear
  <2> QED
    BY <2>1, <2>2
<1>12. CASE RLost(t)
  <2>1. ConnectControl'
    BY <1>12, GoOutside, CallOutOfConnect
    DEF RLost, NoMoreWaiters, ConnectLabels, Labels, CallLabels, ReceiverLabels, ReturnLabels,
        ReceiverReturns, waiters, history
  <2>2. ConnectNotForgotten'
    BY <1>12
    DEF ConnectControl, OneConnects, WaitersWait, ConnectNotForgotten, IsConnected, ConnectLabels,
        IInv, DataTypeOK, flags, waiters, sockets, RLost
  <2> QED
    BY <2>1, <2>2
<1>13. CASE CleanupClose(t)
  <2>1. ConnectControl'
    BY <1>13, GoOutside
    DEF CleanupClose, NoMoreWaiters, ConnectLabels, Labels, CallLabels, ReceiverLabels, waiters,
        history
  <2>2. ConnectNotForgotten'
    BY <1>13
    DEF ConnectControl, OneConnects, WaitersWait, ConnectNotForgotten, IsConnected, ConnectLabels,
        IInv, DataTypeOK, flags, waiters, sockets, CleanupClose
  <2> QED
    BY <2>1, <2>2
<1>14. CASE CleanupNull(t)
  <2>1. ConnectControl'
    BY <1>14, GoOutside
    DEF CleanupNull, NoMoreWaiters, ConnectLabels, IInv, ControlOK, CleanupReturns, Return,
        Labels, CallLabels, ReceiverLabels, waiters, history
  <2>2. ConnectNotForgotten'
    BY <1>14
    DEF ConnectControl, OneConnects, WaitersWait, ConnectNotForgotten, IsConnected, ConnectLabels,
        IInv, DataTypeOK, flags, waiters, sockets, CleanupNull
  <2> QED
    BY <2>1, <2>2
<1>15. CASE RExit(t)
  <2>1. ConnectControl'
    BY <1>15, GoOutside
    DEF RExit, NoMoreWaiters, ConnectLabels, Labels, CallLabels, ReceiverLabels, waiters, history
  <2>2. ConnectNotForgotten'
    BY <1>15
    DEF ConnectControl, OneConnects, WaitersWait, ConnectNotForgotten, IsConnected, ConnectLabels,
        IInv, DataTypeOK, flags, waiters, sockets, RExit
  <2> QED
    BY <2>1, <2>2
<1>16. CASE RCheckNotified(t)
  <2>1. ConnectControl'
    BY <1>16, GoOutside, CallOutOfConnect
    DEF RCheckNotified, NoMoreWaiters, ConnectLabels, Labels, CallLabels, ReceiverLabels,
        ReturnLabels, ReceiverReturns, waiters, history
  <2>2. ConnectNotForgotten'
    BY <1>16
    DEF ConnectControl, OneConnects, WaitersWait, ConnectNotForgotten, IsConnected, ConnectLabels,
        IInv, DataTypeOK, flags, waiters, sockets, RCheckNotified
  <2> QED
    BY <2>1, <2>2
<1>17. CASE RWake(t)
  <2>1. ConnectControl'
    BY <1>17, GoOutside
    DEF RWake, NoMoreWaiters, ConnectLabels, Labels, CallLabels, ReceiverLabels, waiters, history
  <2>2. ConnectNotForgotten'
    BY <1>17
    DEF ConnectControl, OneConnects, WaitersWait, ConnectNotForgotten, IsConnected, ConnectLabels,
        IInv, DataTypeOK, flags, waiters, sockets, RWake
  <2> QED
    BY <2>1, <2>2
<1>18. CASE RReset(t)
  <2>1. ConnectControl'
    BY <1>18, GoOutside
    DEF RReset, NoMoreWaiters, ConnectLabels, Labels, CallLabels, ReceiverLabels, waiters, history
  <2>2. ConnectNotForgotten'
    BY <1>18
    DEF ConnectControl, OneConnects, WaitersWait, ConnectNotForgotten, IsConnected, ConnectLabels,
        IInv, DataTypeOK, flags, waiters, sockets, RReset
  <2> QED
    BY <2>1, <2>2
<1>19. CASE RCompletedRaises(t)
  <2>1. ConnectControl'
    BY <1>19, GoOutside
    DEF RCompletedRaises, NoMoreWaiters, ConnectLabels, Labels, CallLabels, ReceiverLabels,
        waiters
  <2>2. ConnectNotForgotten'
    BY <1>19
    DEF ConnectControl, OneConnects, WaitersWait, ConnectNotForgotten, IsConnected, ConnectLabels,
        IInv, DataTypeOK, flags, waiters, sockets, RCompletedRaises
  <2> QED
    BY <2>1, <2>2
<1> QED
  BY <1>1, <1>2, <1>3, <1>4, <1>5, <1>6, <1>7, <1>8, <1>9, <1>10, <1>11, <1>12, <1>13, <1>14,
      <1>15, <1>16, <1>17, <1>18, <1>19
  DEF Receiving

\* Nor does a call of the application, a heartbeat timeout, the server or the network.
LEMMA OtherWaits ==
  ASSUME Reuse # "callback", IInv, CInv,
         \/ \E u \in Users : Connect(u) \/ Disconnect(u)
         \/ HbTimeout(Heartbeat) \/ HbSetConnected(Heartbeat)
         \/ \E s \in Sockets : Answer(s) \/ Lose(s)
         \/ UNCHANGED vars
  PROVE  CInv'
<1> USE ThreadKinds DEF At, CInv
<1>1. ASSUME NEW u \in Users, Connect(u) PROVE CInv'
  <2>1. \A t \in Threads : pc[t] \notin ConnectLabels
    <3>1. CASE starts = 0
      BY <3>1 DEF ConnectControl, OneConnects
    <3>2. CASE AtRest
      BY <3>2 DEF AtRest, Threads, ConnectLabels
    <3> QED
      BY <1>1, <3>1, <3>2 DEF Connect
  <2>2. /\ pc' = [pc EXCEPT ![u] = "start"] /\ connectWaiters' = connectWaiters
        /\ starts' # 0 /\ \E n \in {"wait", "idle"} : ret' = [ret EXCEPT ![u] = n]
    <3>1. starts' = starts + 1 /\ starts \in Nat
      BY <1>1, BoundsAssumption DEF Connect, IInv, DataTypeOK
    <3>2. starts' # 0
      BY <3>1
    <3>3. /\ pc' = [pc EXCEPT ![u] = "start"] /\ connectWaiters' = connectWaiters
          /\ \E n \in {"wait", "idle"} : ret' = [ret EXCEPT ![u] = n]
      BY <1>1 DEF Connect, Call, waiters
    <3> QED
      BY <3>2, <3>3
  <2>3. ConnectControl'
    BY <2>1, <2>2
    DEF IInv, ControlOK, DataTypeOK, ReturnsOK, ConnectControl, OneConnects, WaitersWait,
        OnlyConnectWaits, ConnectLabels, CallLabels
  <2>4. ConnectNotForgotten'
    BY <1>1 DEF Connect, ConnectNotForgotten, IsConnected, flags, waiters, sockets
  <2> QED
    BY <2>3, <2>4
<1>2. ASSUME NEW u \in Users, Disconnect(u) PROVE CInv'
  <2>1. ConnectControl'
    BY <1>2, CallOutOfConnect
    DEF Disconnect, NoMoreWaiters, ConnectLabels, Labels, CallLabels, ReturnLabels,
        ReceiverReturns, waiters
  <2>2. ConnectNotForgotten'
    BY <1>2 DEF Disconnect, ConnectNotForgotten, IsConnected, flags, waiters, sockets
  <2> QED
    BY <2>1, <2>2
<1>3. CASE HbTimeout(Heartbeat)
  <2>1. ConnectControl'
    BY <1>3, CallOutOfConnect
    DEF HbTimeout, NoMoreWaiters, ConnectLabels, Labels, HeartbeatLabels, ReturnLabels, waiters
  <2>2. ConnectNotForgotten'
    BY <1>3 DEF HbTimeout, ConnectNotForgotten, IsConnected, flags, waiters, sockets
  <2> QED
    BY <2>1, <2>2
<1>4. CASE HbSetConnected(Heartbeat)
  <2>1. ConnectControl'
    BY <1>4, GoOutside
    DEF HbSetConnected, SetConnected, NoMoreWaiters, ConnectLabels, Labels, CallLabels, history
  <2>2. ConnectNotForgotten'
    BY <1>4 DEF HbSetConnected, SetConnected, ConnectNotForgotten, IsConnected, sockets
  <2> QED
    BY <2>1, <2>2
<1>5. ASSUME NEW s \in Sockets, Answer(s) \/ Lose(s) PROVE CInv'
  BY <1>5, StayOutside
  DEF Answer, Lose, NoMoreWaiters, ConnectNotForgotten, IsConnected, flags, waiters, sockets,
      history
<1>6. CASE UNCHANGED vars
  BY <1>6, StayOutside
  DEF vars, NoMoreWaiters, ConnectNotForgotten, IsConnected, flags, waiters, sockets, history
<1> QED
  BY <1>1, <1>2, <1>3, <1>4, <1>5, <1>6

\* Whoever waits in wait_for_connection() is woken by the CONNECTED or the ERROR
\* that ends the wait (transport.py:133-137, 240-242, 315-317), as long as
\* on_disconnected does not connect: a waiter and a receiver that both wait
\* share one notify().
THEOREM ConnectWaitersSafe == Reuse # "callback" /\ Spec => []ConnectNotForgotten
<1> SUFFICES ASSUME Reuse # "callback" PROVE Spec => []ConnectNotForgotten
  OBVIOUS
<1>1. Init => CInv
  BY ThreadKinds
  DEF Init, CInv, ConnectControl, OneConnects, WaitersWait, OnlyConnectWaits, ConnectNotForgotten,
      ConnectLabels
<1>2. IInv /\ CInv /\ [Next]_vars => CInv'
  <2> SUFFICES ASSUME IInv, CInv, [Next]_vars PROVE CInv'
    OBVIOUS
  <2> QED
    BY ConnectingWaits, DisconnectingWaits, StoppingWaits, DisconnectingSocketWaits, NotifyingWaits,
       ReceivingWaits, OtherWaits DEF Next, Rest
<1>3. CInv => ConnectNotForgotten
  BY DEF CInv
<1> QED
  BY <1>1, <1>2, <1>3, Invariance, PTL DEF Spec

-----------------------------------------------------------------------------
(***************************************************************************)
(* No two receivers read from one socket.  More than that: there is never  *)
(* more than one receiver with a loop to go on with.  The right to be it   *)
(* is passed on: by the thread in connect(), which has it until it starts  *)
(* the receiver; by the receiver, which gives it up when its loop is over  *)
(* and it has told the listeners, or when its own on_disconnected has      *)
(* started the next receiver.                                              *)
(***************************************************************************)

\* on_disconnected is only called at the end of a receiver's loop
Quiet == Disconnectors = {} /\ MaxTimeouts = 0
\* the steps of connect() before there is a receiver
Making == {"start", "attempt", "dial", "verify", "spawn"}

\* thread t, at step l of a method that returns to n, has the right
HoldsAt(t, l, n) ==
  IF t \in Users THEN l \in Making
  ELSE /\ l \notin {"unborn", "r_wake", "r_reset", "r_done", "r_dead"}
       /\ n = "r_wake" => l \notin {"nd_heartbeat"} \cup (ConnectLabels \ Making)
Holds(t) == HoldsAt(t, pc[t], ret[t])

\* thread t may be at step l of a method that returns to n
Placed(t, l, n) ==
  /\ l \in ConnectLabels =>
       t \in Users \/ (t \in Receivers /\ n = "r_wake" /\ Reuse = "callback")
  /\ t = Heartbeat => n # "wait"
  /\ Quiet =>
       /\ t = Heartbeat => l = "hb_loop"
       /\ t \in Users => /\ l \in ConnectLabels \cup {"idle"}
                         /\ l \in ConnectLabels => n \in {"wait", "idle"}
       /\ t \in Receivers => /\ l \notin {"r_ack", "r_match", "r_clear"}
                             /\ l \in CallLabels => n = "r_wake"

ReadersInv ==
  /\ \A t1, t2 \in Users \cup Receivers : Holds(t1) /\ Holds(t2) => t1 = t2
  /\ starts = 0 => \A t \in Users \cup Receivers : ~Holds(t)
  /\ \A t \in Threads : Placed(t, pc[t], ret[t])
  /\ Quiet => receipts = {}

\* the applications for which this holds
OneAtATime == Reuse # "callback" \/ Quiet

\* no call of start() is forgotten, and no receipt comes up
Steady == (starts' = 0 => starts = 0) /\ (Quiet => receipts' = {})

-----------------------------------------------------------------------------
(* The moves of a thread *)

\* A thread that moves to a place it may be at, with the right it had or without it.
LEMMA MovesOn ==
  ASSUME IInv, ReadersInv, Steady, NEW t \in Threads, NEW l, NEW n,
         pc' = [pc EXCEPT ![t] = l], ret' = [ret EXCEPT ![t] = n],
         Placed(t, l, n), HoldsAt(t, l, n) => Holds(t) \/ t = Heartbeat
  PROVE  ReadersInv'
<1>1. \A x \in Threads : \/ x = t /\ pc'[x] = l /\ ret'[x] = n
                         \/ x # t /\ pc'[x] = pc[x] /\ ret'[x] = ret[x]
  BY DEF IInv, ControlOK, ReturnsOK
<1>2. \A x \in Users \cup Receivers : Holds(x)' => Holds(x)
  BY <1>1, ThreadKinds DEF Holds, HoldsAt
<1>3. \A x \in Threads : Placed(x, pc'[x], ret'[x])
  BY <1>1 DEF ReadersInv
<1> QED
  BY <1>2, <1>3 DEF ReadersInv, Steady, Placed

\* It goes on, without a call and a return, ...
LEMMA GoesOn ==
  ASSUME IInv, ReadersInv, Steady, NEW t \in Threads, NEW l, Goto(t, l),
         Placed(t, l, ret[t]), HoldsAt(t, l, ret[t]) => Holds(t) \/ t = Heartbeat
  PROVE  ReadersInv'
<1>1. pc' = [pc EXCEPT ![t] = l] /\ ret' = [ret EXCEPT ![t] = ret[t]]
  BY DEF Goto, IInv, ControlOK, ReturnsOK
<1>2. PICK n : n = ret[t]
  OBVIOUS
<1>3. /\ ret' = [ret EXCEPT ![t] = n] /\ Placed(t, l, n)
      /\ HoldsAt(t, l, n) => Holds(t) \/ t = Heartbeat
  BY <1>1, <1>2
<1> QED
  BY <1>1, <1>3, MovesOn

\* ... within a method other than connect(), ...
LEMMA GoesInCall ==
  ASSUME IInv, ReadersInv, Steady, NEW t \in Threads,
         pc[t] \in CallLabels \ (ConnectLabels \cup {"nd_heartbeat"}),
         NEW l \in CallLabels \ ConnectLabels, Goto(t, l)
  PROVE  ReadersInv'
<1>1. Placed(t, l, ret[t])
  BY ThreadKinds DEF ReadersInv, Placed, CallLabels, ConnectLabels, Threads
<1>2. HoldsAt(t, l, ret[t]) => Holds(t)
  BY DEF Holds, HoldsAt, CallLabels, ConnectLabels, Making
<1> QED
  BY <1>1, <1>2, GoesOn

\* ... within the receiver's loop; ...
LEMMA GoesInLoop ==
  ASSUME IInv, ReadersInv, Steady, NEW t \in Receivers,
         pc[t] \in ReceiverLabels \ {"unborn", "r_wake", "r_reset", "r_done", "r_dead"},
         NEW l \in ReceiverLabels, Quiet => l \notin {"r_ack", "r_match", "r_clear"}, Goto(t, l)
  PROVE  ReadersInv'
<1>1. Placed(t, l, ret[t])
  BY ThreadKinds DEF ReadersInv, Placed, CallLabels, ConnectLabels, ReceiverLabels
<1>2. HoldsAt(t, l, ret[t]) => Holds(t)
  BY ThreadKinds DEF Holds, HoldsAt, CallLabels, ConnectLabels, ReceiverLabels
<1> QED
  BY <1>1, <1>2, ThreadKinds, GoesOn

\* ... it returns; ...
LEMMA ReturnReads ==
  ASSUME IInv, ReadersInv, Steady, NEW t \in Threads, pc[t] \in CallLabels \ ConnectLabels,
         Return(t)
  PROVE  ReadersInv'
<1>1. PICK n : n = ret[t]
  OBVIOUS
<1>2. n \in ReturnLabels /\ (t \in Receivers => n \in ReceiverReturns)
  BY <1>1 DEF IInv, ControlOK, ReturnsOK
<1>3. Placed(t, pc[t], n)
  BY <1>1 DEF ReadersInv
<1>4. Placed(t, n, n)
  BY <1>2, <1>3, ThreadKinds
  DEF Placed, CallLabels, ConnectLabels, ReturnLabels, ReceiverReturns, Threads
<1>5. HoldsAt(t, n, n) => HoldsAt(t, pc[t], n) \/ t = Heartbeat
  BY <1>2, ThreadKinds
  DEF HoldsAt, CallLabels, ConnectLabels, Making, ReturnLabels, ReceiverReturns, Threads
<1> QED
  BY <1>1, <1>4, <1>5, GoesOn DEF Return, Holds

\* ... it calls a method from the loop; ...
LEMMA CallsInLoop ==
  ASSUME IInv, ReadersInv, Steady, NEW t \in Receivers,
         pc[t] \in ReceiverLabels \ {"unborn", "r_wake", "r_reset", "r_done", "r_dead"},
         NEW l \in (CallLabels \ ConnectLabels) \cup {"cl_close"}, NEW n,
         Quiet /\ l \in CallLabels => n = "r_wake", Call(t, l, n)
  PROVE  ReadersInv'
<1>1. Placed(t, l, n)
  BY ThreadKinds DEF Placed, CallLabels, ConnectLabels
<1>2. Holds(t)
  BY ThreadKinds DEF Holds, HoldsAt, ConnectLabels, ReceiverLabels
<1> QED
  BY <1>1, <1>2, ThreadKinds, MovesOn DEF Call

\* ... or an exception takes it out of all of them.
LEMMA RaiseReads ==
  ASSUME IInv, ReadersInv, Steady, NEW t \in Threads,
         pc[t] \notin {"unborn", "r_wake", "r_reset", "r_done", "r_dead", "hb_loop"}, Raise(t)
  PROVE  ReadersInv'
<1>1. PICK l : l = CASE t \in Users -> "idle"
                     [] t = Heartbeat -> "hb_dead"
                     [] OTHER -> IF ret[t] = "r_wake" THEN "r_done" ELSE "cl_close"
  OBVIOUS
<1>2. pc' = [pc EXCEPT ![t] = l] /\ ret' = [ret EXCEPT ![t] = "r_exit"]
  BY <1>1 DEF Raise
<1>3. \/ t \in Users /\ l = "idle"
      \/ t = Heartbeat /\ l = "hb_dead"
      \/ t \in Receivers /\ ret[t] = "r_wake" /\ l = "r_done"
      \/ t \in Receivers /\ ret[t] # "r_wake" /\ l = "cl_close"
  BY <1>1, ThreadKinds DEF Threads
<1>4. Placed(t, l, "r_exit")
  BY <1>3, ThreadKinds DEF ReadersInv, Placed, ConnectLabels, CallLabels
<1>5. HoldsAt(t, l, "r_exit") => Holds(t) \/ t = Heartbeat
  BY <1>3, ThreadKinds DEF Holds, HoldsAt, Making
<1> QED
  BY <1>2, <1>4, <1>5, MovesOn

-----------------------------------------------------------------------------
(* The steps *)

\* Only the right to it starts a receiver.
LEMMA ConnectingReads ==
  ASSUME OneAtATime, IInv, ReadersInv, NEW t \in Threads, Connecting(t)
  PROVE  ReadersInv'
<1> USE ThreadKinds DEF At
<1>1. Steady
  BY DEF ReadersInv, Steady, Connecting, Start, Attempt, Dial, Verify, Spawn, SendConnect, Send,
         WaitForConnection, WakeFromConnectWait, WaitTest, rcpts, history
<1>2. pc[t] \in ConnectLabels
  BY DEF Connecting, Start, Attempt, Dial, Verify, Spawn, SendConnect, WaitForConnection,
         WakeFromConnectWait, WaitTest, ConnectLabels
<1>3. Placed(t, pc[t], ret[t])
  BY DEF ReadersInv
<1>4. t \in Users \/ (t \in Receivers /\ ret[t] = "r_wake")
  BY <1>2, <1>3 DEF Placed
<1>5. t # Heartbeat
  BY <1>4
<1>6. ASSUME NEW l \in Making \ {"start"}, pc[t] \in Making, Goto(t, l) PROVE ReadersInv'
  <2>1. Placed(t, l, ret[t])
    BY <1>2, <1>3, <1>6 DEF Placed, Making, ConnectLabels, CallLabels
  <2>2. HoldsAt(t, l, ret[t]) => Holds(t)
    BY <1>6 DEF Holds, HoldsAt, Making, ConnectLabels
  <2> QED
    BY <1>1, <1>6, <2>1, <2>2, GoesOn
<1>7. ASSUME NEW l \in ConnectLabels \ Making, Goto(t, l) PROVE ReadersInv'
  <2>1. Placed(t, l, ret[t])
    BY <1>2, <1>3, <1>7 DEF Placed, ConnectLabels, CallLabels
  <2>2. ~HoldsAt(t, l, ret[t])
    BY <1>4, <1>7 DEF HoldsAt
  <2> QED
    BY <1>1, <1>7, <2>1, <2>2, GoesOn
<1>8. ASSUME Raise(t) PROVE ReadersInv'
  BY <1>1, <1>2, <1>8, RaiseReads DEF ConnectLabels
<1>9. CASE Start(t) \/ Attempt(t) \/ Dial(t) \/ Verify(t)
  BY <1>6, <1>8, <1>9 DEF Start, Attempt, Dial, Verify, Making
<1>10. CASE Spawn(t)
  <2>1. PICK r : r = spawned + 1
    OBVIOUS
  <2>2. r \in Receivers
    BY <1>10, <2>1, NextNumber DEF Spawn, IInv, DataTypeOK, Receivers
  <2>3. /\ pc' = [pc EXCEPT ![t] = "send_connect", ![r] = "r_outer"]
        /\ ret' = ret /\ pc[t] = "spawn" /\ pc \in [Threads -> Labels]
    BY <1>10, <2>1 DEF Spawn, IInv, ControlOK
  <2>4. \A x \in Threads : \/ x = r /\ pc'[x] = "r_outer"
                           \/ x = t /\ pc'[x] = "send_connect"
                           \/ x # t /\ x # r /\ pc'[x] = pc[x]
    BY <2>2, <2>3
  <2>5. Holds(t) /\ t \in Users \cup Receivers
    BY <1>4, <2>3 DEF Holds, HoldsAt, Making, ConnectLabels
  <2>6. \A x \in Users \cup Receivers : Holds(x) => x = t
    BY <2>5 DEF ReadersInv
  <2>7. \A x \in Users \cup Receivers : Holds(x)' => x = r
    <3> SUFFICES ASSUME NEW x \in Users \cup Receivers, Holds(x)', x # r PROVE FALSE
      OBVIOUS
    <3>1. x \in Threads
      OBVIOUS
    <3>2. CASE x = t
      <4>1. pc'[t] = "send_connect" /\ ret'[t] = ret[t]
        BY <2>3, <2>4, <3>1, <3>2
      <4> QED
        BY <1>4, <3>2, <4>1 DEF Holds, HoldsAt, Making, ConnectLabels
    <3>3. CASE x # t
      <4>1. pc'[x] = pc[x] /\ ret'[x] = ret[x]
        BY <2>3, <2>4, <3>1, <3>3
      <4> QED
        BY <2>6, <3>3, <4>1 DEF Holds
    <3> QED
      BY <3>2, <3>3
  <2>8. starts # 0
    BY <2>5 DEF ReadersInv
  <2>9. ASSUME NEW x \in Threads PROVE Placed(x, pc'[x], ret'[x])
    <3>1. Placed(x, pc[x], ret[x])
      BY DEF ReadersInv
    <3>2. CASE x = r
      <4>1. pc'[x] \in {"r_outer", "send_connect"} /\ ret'[x] = ret[x]
        BY <2>3, <2>4, <3>2
      <4>2. pc'[x] = "r_outer"
        BY <2>2, <2>3, <3>2
      <4> QED
        BY <2>2, <3>1, <3>2, <4>1, <4>2 DEF Placed, ConnectLabels, CallLabels
    <3>3. CASE x = t /\ x # r
      <4>1. pc'[x] = "send_connect" /\ ret'[x] = ret[x] /\ pc[x] = "spawn"
        BY <2>3, <2>4, <3>3
      <4> QED
        BY <3>1, <4>1 DEF Placed, ConnectLabels, CallLabels
    <3>4. CASE x # t /\ x # r
      BY <2>3, <2>4, <3>1, <3>4
    <3> QED
      BY <3>2, <3>3, <3>4
  <2>10. starts' # 0
    BY <1>1, <2>8 DEF Steady
  <2> QED
    BY <1>1, <2>7, <2>9, <2>10 DEF ReadersInv, Steady, Placed
<1>11. CASE SendConnect(t)
  <2>1. CASE t \in Users /\ Goto(t, ret[t])
    <3>1. PICK n : n = ret[t]
      OBVIOUS
    <3>2. n \in ReturnLabels
      BY <3>1 DEF IInv, ControlOK, ReturnsOK
    <3>3. n \notin Making
      BY <3>2 DEF ReturnLabels, ReceiverReturns, Making
    <3>4. Placed(t, n, n)
      BY <1>2, <1>3, <2>1, <3>1 DEF Placed, ConnectLabels
    <3> QED
      BY <1>1, <2>1, <3>1, <3>3, <3>4, GoesOn DEF HoldsAt
  <2>2. CASE t \notin Users /\ Goto(t, "wait")
    BY <1>7, <2>2 DEF ConnectLabels, Making
  <2> QED
    BY <1>8, <1>11, <2>1, <2>2 DEF SendConnect, Send
<1>12. CASE WaitForConnection(t) \/ WakeFromConnectWait(t)
  BY <1>7, <1>12 DEF WaitForConnection, WakeFromConnectWait, ConnectLabels, Making
<1>13. CASE WaitTest(t)
  <2>1. CASE Goto(t, AfterConnect(t))
    <3>1. PICK l : l = AfterConnect(t)
      OBVIOUS
    <3>2. (t \in Users /\ l = "idle") \/ (t \in Receivers /\ l = "nd_heartbeat")
      BY <1>4, <3>1 DEF AfterConnect
    <3>3. Placed(t, l, ret[t])
      BY <1>2, <1>3, <1>4, <3>2 DEF Placed, ConnectLabels, CallLabels
    <3>4. ~HoldsAt(t, l, ret[t])
      BY <1>4, <3>2 DEF HoldsAt, Making
    <3> QED
      BY <1>1, <2>1, <3>1, <3>3, <3>4, GoesOn
  <2> QED
    BY <1>8, <1>13, <2>1 DEF WaitTest
<1> QED
  BY <1>9, <1>10, <1>11, <1>12, <1>13 DEF Connecting

\* A user in disconnect(), which is nobody's business here.
LEMMA DisconnectingReads ==
  ASSUME IInv, ReadersInv, NEW t \in Users, Disconnecting(t)
  PROVE  ReadersInv'
<1> USE ThreadKinds DEF At
<1>1. pc[t] \in {"disc_check", "disc_receipt", "disc_transmit", "disc_send"}
  BY DEF Disconnecting, DiscCheck, DiscReceipt, DiscTransmit, DiscSend
<1>2. ~Quiet
  BY <1>1 DEF ReadersInv, Placed, ConnectLabels
<1>3. Steady
  BY <1>2 DEF Steady, Disconnecting, DiscCheck, DiscReceipt, DiscTransmit, DiscSend, Send, history
<1>4. CASE DiscCheck(t)
  BY <1>1, <1>3, <1>4, GoesInCall, ReturnReads DEF DiscCheck, CallLabels, ConnectLabels
<1>5. CASE DiscReceipt(t)
  BY <1>1, <1>3, <1>5, GoesInCall DEF DiscReceipt, CallLabels, ConnectLabels
<1>6. CASE DiscTransmit(t)
  BY <1>1, <1>3, <1>6, GoesInCall DEF DiscTransmit, CallLabels, ConnectLabels
<1>7. CASE DiscSend(t)
  <2>1. CASE Raise(t)
    BY <1>1, <1>3, <2>1, RaiseReads
  <2>2. CASE Goto(t, ret[t])
    BY <1>1, <1>3, <2>2, ReturnReads DEF Return, CallLabels, ConnectLabels
  <2> QED
    BY <1>7, <2>1, <2>2 DEF DiscSend, Send
<1> QED
  BY <1>4, <1>5, <1>6, <1>7 DEF Disconnecting

\* A thread in stop().
LEMMA StoppingReads ==
  ASSUME IInv, ReadersInv, NEW t \in Users \cup {Heartbeat}, Stopping(t)
  PROVE  ReadersInv'
<1> USE ThreadKinds DEF At
<1>1. pc[t] \in {"stop", "stop_waiting"} /\ t \in Threads
  BY DEF Stopping, Stop, WakeFromStopWait
<1>2. ~Quiet
  BY <1>1 DEF ReadersInv, Placed, ConnectLabels
<1>3. Steady
  BY <1>2 DEF Steady, Stopping, Stop, WakeFromStopWait, history
<1>4. CASE Stop(t)
  <2>1. CASE Goto(t, "stop_waiting")
    BY <1>1, <1>3, <2>1, GoesInCall DEF CallLabels, ConnectLabels
  <2>2. CASE Goto(t, AfterStop(t))
    <3>1. PICK l : l = AfterStop(t)
      OBVIOUS
    <3>2. (t \in Users /\ l = "idle") \/ (t = Heartbeat /\ l = "hb_loop")
      BY <3>1 DEF AfterStop
    <3>3. Placed(t, pc[t], ret[t])
      BY <1>1 DEF ReadersInv
    <3>4. Placed(t, l, ret[t])
      BY <1>2, <3>2, <3>3 DEF Placed, ConnectLabels
    <3>5. HoldsAt(t, l, ret[t]) => t = Heartbeat
      BY <3>2 DEF HoldsAt, Making
    <3> QED
      BY <1>1, <1>3, <2>2, <3>1, <3>4, <3>5, GoesOn
  <2> QED
    BY <1>4, <2>1, <2>2 DEF Stop
<1>5. CASE WakeFromStopWait(t)
  BY <1>1, <1>3, <1>5, GoesInCall DEF WakeFromStopWait, CallLabels, ConnectLabels
<1> QED
  BY <1>4, <1>5 DEF Stopping

\* A thread in disconnect_socket() keeps what it has.
LEMMA DisconnectingSocketReads ==
  ASSUME IInv, ReadersInv, NEW t \in Receivers \cup {Heartbeat}, DisconnectingSocket(t)
  PROVE  ReadersInv'
<1> USE ThreadKinds DEF At
<1>1. /\ pc[t] \in {"ds_running", "ds_shutdown?", "ds_shutdown", "ds_close?", "ds_close",
                    "ds_null", "ds_notify?"}
      /\ t \in Threads
  BY DEF DisconnectingSocket, DsRunning, DsCheckShutdown, DsShutdown, DsCheckClose, DsClose,
         DsNull, DsCheckNotified, DsHasSocket
<1>2. Steady
  BY DEF ReadersInv, Steady, DisconnectingSocket, DsRunning, DsCheckShutdown, DsShutdown,
         DsCheckClose, DsClose, DsNull, DsCheckNotified, DsHasSocket, history, rcpts
<1>3. pc[t] \in CallLabels \ (ConnectLabels \cup {"nd_heartbeat"})
  BY <1>1 DEF CallLabels, ConnectLabels
<1>4. ASSUME NEW l \in CallLabels \ ConnectLabels, Goto(t, l) PROVE ReadersInv'
  BY <1>1, <1>2, <1>3, <1>4, GoesInCall
<1>5. ASSUME Raise(t) PROVE ReadersInv'
  BY <1>1, <1>2, <1>5, RaiseReads
<1>6. CASE DsRunning(t)
  BY <1>4, <1>6 DEF DsRunning, CallLabels, ConnectLabels
<1>7. CASE DsCheckShutdown(t)
  BY <1>4, <1>7 DEF DsCheckShutdown, DsHasSocket, CallLabels, ConnectLabels
<1>8. CASE DsShutdown(t)
  BY <1>4, <1>5, <1>8 DEF DsShutdown, CallLabels, ConnectLabels
<1>9. CASE DsCheckClose(t)
  BY <1>4, <1>9 DEF DsCheckClose, DsHasSocket, CallLabels, ConnectLabels
<1>10. CASE DsClose(t)
  BY <1>4, <1>5, <1>10 DEF DsClose, CallLabels, ConnectLabels
<1>11. CASE DsNull(t)
  BY <1>4, <1>11 DEF DsNull, CallLabels, ConnectLabels
<1>12. CASE DsCheckNotified(t)
  BY <1>1, <1>2, <1>3, <1>4, <1>12, ReturnReads DEF DsCheckNotified, CallLabels, ConnectLabels
<1> QED
  BY <1>6, <1>7, <1>8, <1>9, <1>10, <1>11, <1>12 DEF DisconnectingSocket

\* The callback of a receiver whose loop is over may connect: it has the right to.
LEMMA NotifyingReads ==
  ASSUME OneAtATime, IInv, ReadersInv, NEW t \in Receivers \cup {Heartbeat}, Notifying(t)
  PROVE  ReadersInv'
<1> USE ThreadKinds DEF At
<1>1. pc[t] \in {"nd_flag", "nd_connected", "nd_listeners", "nd_heartbeat"} /\ t \in Threads
  BY DEF Notifying, NdFlag, NdConnected, NdListeners, NdHeartbeat
<1>2. Steady
  <2>1. starts' = starts \/ starts' = starts + 1
    BY DEF Notifying, NdFlag, NdConnected, NdListeners, NdHeartbeat, history
  <2>2. starts' = 0 => starts = 0
    BY <2>1, BoundsAssumption DEF IInv, DataTypeOK
  <2>3. receipts' = receipts
    BY DEF Notifying, NdFlag, NdConnected, NdListeners, NdHeartbeat, rcpts
  <2> QED
    BY <2>2, <2>3 DEF ReadersInv, Steady
<1>3. CASE NdFlag(t)
  BY <1>1, <1>2, <1>3, GoesInCall DEF NdFlag, CallLabels, ConnectLabels
<1>4. CASE NdConnected(t)
  BY <1>1, <1>2, <1>4, GoesInCall DEF NdConnected, CallLabels, ConnectLabels
<1>5. CASE NdListeners(t)
  <2>1. Placed(t, pc[t], ret[t]) /\ pc[t] = "nd_listeners"
    BY <1>1, <1>5 DEF ReadersInv, NdListeners
  <2>2. CASE Reuse = "callback" /\ Goto(t, "start")
    <3>1. Quiet
      BY <2>2 DEF OneAtATime
    <3>2. t \in Receivers /\ ret[t] = "r_wake"
      BY <2>1, <3>1 DEF Placed, CallLabels
    <3>3. Placed(t, "start", ret[t])
      BY <2>1, <2>2, <3>2 DEF Placed, ConnectLabels, CallLabels
    <3>4. Holds(t)
      BY <2>1, <3>2 DEF Holds, HoldsAt, ConnectLabels
    <3> QED
      BY <1>1, <1>2, <2>2, <3>3, <3>4, GoesOn
  <2>3. CASE Goto(t, "nd_heartbeat")
    BY <1>1, <1>2, <2>1, <2>3, GoesInCall DEF CallLabels, ConnectLabels
  <2>4. CASE Raise(t)
    BY <1>1, <1>2, <2>4, RaiseReads
  <2> QED
    BY <1>5, <2>2, <2>3, <2>4 DEF NdListeners
<1>6. CASE NdHeartbeat(t)
  BY <1>1, <1>2, <1>6, ReturnReads DEF NdHeartbeat, CallLabels, ConnectLabels
<1> QED
  BY <1>3, <1>4, <1>5, <1>6 DEF Notifying

\* A receiver in its loop keeps the right, and gives it up at its end.
LEMMA ReceivingReads ==
  ASSUME IInv, ReadersInv, NEW t \in Receivers, Receiving(t)
  PROVE  ReadersInv'
<1> USE ThreadKinds DEF At
<1>1. Placed(t, pc[t], ret[t]) /\ t \in Threads
  BY DEF ReadersInv
<1>2. Steady
  <2>1. starts' = starts
    BY DEF Receiving, ROuter, RInner, RRecv, RNoMoreFrames, RConnected, ROnConnected, RError,
           RReceipt, RAck, RMatch, RClear, RLost, CleanupClose, CleanupNull, RExit,
           RCompletedRaises, RCheckNotified, RWake, RReset, history
  <2>2. receipts' \subseteq receipts
    BY DEF Receiving, ROuter, RInner, RRecv, RNoMoreFrames, RConnected, ROnConnected, RError,
           RReceipt, RAck, RMatch, RClear, RLost, CleanupClose, CleanupNull, RExit,
           RCompletedRaises, RCheckNotified, RWake, RReset, rcpts
  <2> QED
    BY <2>1, <2>2 DEF ReadersInv, Steady
<1>3. ASSUME NEW l \in ReceiverLabels, Quiet => l \notin {"r_ack", "r_match", "r_clear"},
             pc[t] \in ReceiverLabels \ {"unborn", "r_wake", "r_reset", "r_done", "r_dead"}, Goto(t, l)
      PROVE  ReadersInv'
  BY <1>2, <1>3, GoesInLoop
<1>4. CASE ROuter(t)
  BY <1>3, <1>4 DEF ROuter, ReceiverLabels
<1>5. CASE RInner(t)
  <2>1. CASE Goto(t, "r_recv") \/ Goto(t, "r_lost")
    BY <1>3, <1>5, <2>1 DEF RInner, ReceiverLabels
  <2>2. CASE Call(t, "cl_close", "r_outer")
    BY <1>2, <1>5, <2>2, CallsInLoop DEF RInner, ReceiverLabels, CallLabels
  <2> QED
    BY <1>5, <2>1, <2>2 DEF RInner
<1>6. CASE RRecv(t)
  BY <1>3, <1>6 DEF RRecv, ReceiverLabels
<1>7. CASE RNoMoreFrames(t)
  BY <1>3, <1>7 DEF RNoMoreFrames, ReceiverLabels
<1>8. CASE RConnected(t)
  BY <1>3, <1>8 DEF RConnected, ReceiverLabels
<1>9. CASE ROnConnected(t)
  BY <1>1, <1>2, <1>3, <1>9, RaiseReads DEF ROnConnected, ReceiverLabels
<1>10. CASE RError(t)
  <2>1. pc' = pc /\ ret' = ret
    BY <1>10 DEF RError
  <2> QED
    BY <1>2, <2>1 DEF ReadersInv, Steady, Holds
<1>11. CASE RReceipt(t)
  <2>1. CASE Goto(t, "r_ack") /\ receipts # {}
    BY <1>3, <1>11, <2>1 DEF RReceipt, ReceiverLabels, ReadersInv
  <2>2. CASE UNCHANGED <<pc, ret>>
    BY <1>2, <2>2 DEF ReadersInv, Steady, Holds
  <2> QED
    BY <1>11, <2>1, <2>2 DEF RReceipt
<1>12. CASE RAck(t)
  BY <1>1, <1>3, <1>12 DEF RAck, ReceiverLabels, Placed
<1>13. CASE RMatch(t)
  <2>1. ~Quiet
    BY <1>1, <1>13 DEF RMatch, Placed
  <2>2. CASE Call(t, "ds_running", "r_clear")
    BY <1>2, <1>13, <2>1, <2>2, CallsInLoop DEF RMatch, ReceiverLabels, CallLabels, ConnectLabels
  <2>3. CASE Goto(t, "r_clear")
    BY <1>3, <1>13, <2>1, <2>3 DEF RMatch, ReceiverLabels
  <2> QED
    BY <1>13, <2>2, <2>3 DEF RMatch
<1>14. CASE RClear(t)
  BY <1>3, <1>14 DEF RClear, ReceiverLabels
<1>15. CASE RLost(t)
  BY <1>2, <1>15, CallsInLoop DEF RLost, ReceiverLabels, CallLabels
<1>16. CASE CleanupClose(t)
  BY <1>3, <1>16 DEF CleanupClose, ReceiverLabels
<1>17. CASE CleanupNull(t)
  <2>1. PICK n : n = ret[t]
    OBVIOUS
  <2>2. n \in {"r_outer", "r_exit"}
    BY <1>17, <2>1 DEF CleanupNull, IInv, ControlOK, CleanupReturns
  <2> QED
    BY <1>3, <1>17, <2>1, <2>2 DEF CleanupNull, Return, ReceiverLabels
<1>18. CASE RExit(t)
  BY <1>3, <1>18 DEF RExit, ReceiverLabels
<1>19. CASE RCheckNotified(t)
  <2>1. CASE Goto(t, "r_wake")
    BY <1>3, <1>19, <2>1 DEF RCheckNotified, ReceiverLabels
  <2>2. CASE Call(t, "nd_flag", "r_wake")
    BY <1>2, <1>19, <2>2, CallsInLoop DEF RCheckNotified, ReceiverLabels, CallLabels, ConnectLabels
  <2> QED
    BY <1>19, <2>1, <2>2 DEF RCheckNotified
<1>20. CASE RWake(t) \/ RReset(t) \/ RCompletedRaises(t)
  <2>1. ASSUME NEW l \in {"r_reset", "r_done", "r_dead"}, Goto(t, l) PROVE ReadersInv'
    <3>1. Placed(t, l, ret[t])
      BY <1>1 DEF Placed, ConnectLabels, CallLabels
    <3>2. ~HoldsAt(t, l, ret[t])
      BY DEF HoldsAt
    <3> QED
      BY <1>1, <1>2, <2>1, <3>1, <3>2, GoesOn
  <2> QED
    BY <1>20, <2>1 DEF RWake, RReset, RCompletedRaises
<1> QED
  BY <1>4, <1>5, <1>6, <1>7, <1>8, <1>9, <1>10, <1>11, <1>12, <1>13, <1>14, <1>15, <1>16, <1>17,
     <1>18, <1>19, <1>20 DEF Receiving

\* An application that calls connect() does so when nobody has the right.
LEMMA OtherReads ==
  ASSUME IInv, ReadersInv,
         \/ \E u \in Users : Connect(u) \/ Disconnect(u)
         \/ HbTimeout(Heartbeat) \/ HbSetConnected(Heartbeat)
         \/ \E s \in Sockets : Answer(s) \/ Lose(s)
         \/ UNCHANGED vars
  PROVE  ReadersInv'
<1> USE ThreadKinds DEF At
<1>1. ASSUME NEW u \in Users, Connect(u) PROVE ReadersInv'
  <2>1. PICK n \in {"wait", "idle"} : Call(u, "start", n)
    BY <1>1 DEF Connect
  <2>2. \A x \in Users \cup Receivers : ~Holds(x)
    <3>1. CASE AtRest
      BY <3>1 DEF AtRest, Holds, HoldsAt, Making
    <3> QED
      BY <1>1, <3>1 DEF Connect, ReadersInv
  <2>3. starts' # 0
    <3>1. starts' = starts + 1 /\ starts \in Nat
      BY <1>1, BoundsAssumption DEF Connect, IInv, DataTypeOK
    <3> QED
      BY <3>1
  <2>4. \A x \in Threads : \/ x = u /\ pc'[x] = "start" /\ ret'[x] = n
                           \/ x # u /\ pc'[x] = pc[x] /\ ret'[x] = ret[x]
    BY <2>1 DEF Call, IInv, ControlOK, ReturnsOK
  <2>5. \A x \in Users \cup Receivers : Holds(x)' => x = u
    BY <2>2, <2>4 DEF Holds
  <2>6. \A x \in Threads : Placed(x, pc'[x], ret'[x])
    <3>1. Placed(u, "start", n)
      BY DEF Placed, ConnectLabels
    <3> QED
      BY <2>4, <3>1 DEF ReadersInv
  <2>7. receipts' = receipts
    BY <1>1 DEF Connect, rcpts
  <2> QED
    BY <2>3, <2>5, <2>6, <2>7 DEF ReadersInv, Placed
<1>2. ASSUME NEW u \in Users, Disconnect(u) PROVE ReadersInv'
  <2>1. PICK n \in {"stop", "idle"} : Call(u, "disc_check", n)
    BY <1>2 DEF Disconnect
  <2>2. ~Quiet
    BY <1>2 DEF Disconnect, Quiet
  <2>3. Steady
    BY <1>2, <2>2 DEF Disconnect, Steady
  <2>4. Placed(u, "disc_check", n) /\ ~HoldsAt(u, "disc_check", n)
    BY <2>2 DEF Placed, HoldsAt, Making, ConnectLabels
  <2> QED
    BY <2>1, <2>3, <2>4, MovesOn DEF Call
<1>3. CASE HbTimeout(Heartbeat)
  <2>1. ~Quiet
    <3>1. timeouts < MaxTimeouts /\ timeouts \in Nat /\ MaxTimeouts \in Nat
      BY <1>3, BoundsAssumption DEF HbTimeout, IInv, DataTypeOK
    <3>2. MaxTimeouts # 0
      BY <3>1
    <3> QED
      BY <3>2 DEF Quiet
  <2>2. Steady
    BY <1>3, <2>1 DEF HbTimeout, Steady
  <2>3. Placed(Heartbeat, "hb_timeout", "stop")
    BY <2>1 DEF Placed, ConnectLabels
  <2> QED
    BY <1>3, <2>2, <2>3, MovesOn DEF HbTimeout, Call
<1>4. CASE HbSetConnected(Heartbeat)
  <2>1. Placed(Heartbeat, "hb_timeout", ret[Heartbeat])
    BY <1>4 DEF HbSetConnected, ReadersInv
  <2>2. Placed(Heartbeat, "ds_running", ret[Heartbeat])
    BY <2>1 DEF Placed, ConnectLabels
  <2>3. Steady
    BY <1>4 DEF HbSetConnected, ReadersInv, Steady, rcpts, history
  <2> QED
    BY <1>4, <2>2, <2>3, GoesOn DEF HbSetConnected
<1>5. ASSUME UNCHANGED <<pc, ret, starts, receipts>> PROVE ReadersInv'
  BY <1>5 DEF ReadersInv, Holds
<1>6. ASSUME NEW s \in Sockets, Answer(s) \/ Lose(s) PROVE ReadersInv'
  BY <1>5, <1>6 DEF Answer, Lose, rcpts, history
<1>7. CASE UNCHANGED vars
  BY <1>5, <1>7 DEF vars, rcpts, history
<1> QED
  BY <1>1, <1>2, <1>3, <1>4, <1>6, <1>7

\* At any time one thread at most has the right to run a receiver.
LEMMA ReadersInvariance == OneAtATime /\ Spec => []ReadersInv
<1> SUFFICES ASSUME OneAtATime PROVE Spec => []ReadersInv
  OBVIOUS
<1>1. Init => ReadersInv
  BY ThreadKinds
  DEF Init, ReadersInv, Holds, HoldsAt, Placed, Making, ConnectLabels, CallLabels, Threads
<1>2. IInv /\ ReadersInv /\ [Next]_vars => ReadersInv'
  <2> SUFFICES ASSUME IInv, ReadersInv, [Next]_vars PROVE ReadersInv'
    OBVIOUS
  <2> QED
    BY ConnectingReads, DisconnectingReads, StoppingReads, DisconnectingSocketReads,
       NotifyingReads, ReceivingReads, OtherReads DEF Next, Rest
<1> QED
  BY <1>1, <1>2, Invariance, PTL DEF Spec

\* No two receivers read from the same socket (transport.py:323-338): of an
\* application that connects again once the threads of its connection have come
\* to rest, whatever ends the connection; and of one that connects again from
\* its on_disconnected, as long as the connections are ended by the server or the
\* network.  In fact no two receivers are in recv() at all.
THEOREM ReadersAlone == OneAtATime /\ Spec => []OneReader
<1>1. ReadersInv => OneReader
  <2>1. \A r \in Receivers : pc[r] = "r_recv" => Holds(r)
    BY ThreadKinds DEF Holds, HoldsAt, ConnectLabels
  <2> QED
    BY <2>1 DEF ReadersInv, OneReader
<1> QED
  BY <1>1, ReadersInvariance, PTL

-----------------------------------------------------------------------------
(***************************************************************************)
(* The contract of an application that connects again from its own         *)
(* on_disconnected, as docs/source/api.rst shows, when it is the server or *)
(* the network that ends the connections.  The thread with the right knows *)
(* where the connection is: the last one made, told of by nobody; and once *)
(* it dials the next one, the last is down.  All the other threads have    *)
(* nothing more to do with it.                                             *)
(***************************************************************************)
Chained == Reuse = "callback" /\ Quiet

\* the steps of a receiver that has a connection, that has lost it, and that tells of it
Looping == {"r_outer", "r_inner", "r_recv", "r_frame", "r_connected"}
Closing == {"r_lost", "cl_close", "cl_null"}
Ending  == {"r_exit", "r_notify?", "nd_flag", "nd_connected", "nd_listeners"}

\* what the thread with the right knows of the connection, ...
MakingOK(t) ==
  /\ ~connected
  /\ pc[t] # "start" => running
  /\ \/ socket = None /\ conns = spawned /\ pc[t] # "spawn"
     \/ socket = conns /\ conns = spawned + 1 /\ pc[t] \in {"verify", "spawn"}
RunningOK(t) ==
  /\ pc[t] \in Looping \cup Closing \cup Ending
  /\ t = spawned /\ conns = spawned /\ told[t] = 0
  /\ pc[t] \in Looping => running /\ socket = t /\ (sessions[t] > 0 => connected)
  /\ pc[t] \in {"r_recv", "r_frame", "r_connected"} => reading[t] = t
  /\ pc[t] \in {"cl_close", "cl_null"} => ret[t] = "r_exit"
  /\ pc[t] \in Ending => socket = None
  /\ pc[t] = "nd_listeners" => ~connected
KnowsOK(t) == IF pc[t] \in Making THEN MakingOK(t) ELSE RunningOK(t)
HolderKnows == \A t \in Users \cup Receivers : Holds(t) => KnowsOK(t)
\* ... and that nobody has heard of the connections to come
Unheard ==
  /\ \A s \in Sockets : s > spawned => sessions[s] = 0 /\ told[s] = 0
  /\ conns >= spawned
  /\ starts = 0 => socket = None /\ conns = spawned /\ ~connected
ChainInv == HolderKnows /\ Unheard

World == <<running, socket, connected, conns, spawned, sessions, told>>

-----------------------------------------------------------------------------
(* The moves of a thread *)

\* Only the thread with the right changes anything of the connection.
LEMMA ChainMoves ==
  ASSUME IInv, ReadersInv, HolderKnows, Unheard', NEW t \in Threads, NEW l, NEW n,
         pc' = [pc EXCEPT ![t] = l], ret' = [ret EXCEPT ![t] = n],
         Holds(t) \/ UNCHANGED World, t = Heartbeat => UNCHANGED World,
         \A x \in Receivers : x # t => reading'[x] = reading[x],
         HoldsAt(t, l, n) /\ t # Heartbeat => KnowsOK(t)'
  PROVE  ChainInv'
<1> SUFFICES ASSUME NEW x \in Users \cup Receivers, Holds(x)' PROVE KnowsOK(x)'
  BY DEF ChainInv, HolderKnows
<1>1. pc'[t] = l /\ ret'[t] = n
  BY DEF IInv, ControlOK, ReturnsOK
<1>2. CASE x = t
  BY <1>1, <1>2, ThreadKinds DEF Holds
<1>3. CASE x # t
  <2>1. pc'[x] = pc[x] /\ ret'[x] = ret[x]
    BY <1>3 DEF IInv, ControlOK, ReturnsOK
  <2>2. Holds(x) /\ KnowsOK(x)
    BY <2>1 DEF Holds, HolderKnows
  <2>3. UNCHANGED World
    BY <1>3, <2>2, ThreadKinds DEF ReadersInv, Threads
  <2>4. CASE pc[x] \in Making
    BY <2>1, <2>2, <2>3, <2>4 DEF World, KnowsOK, MakingOK
  <2>5. CASE pc[x] \notin Making
    <3>1. x \in Receivers
      BY <2>2, <2>5 DEF Holds, HoldsAt
    <3>2. reading'[x] = reading[x]
      BY <1>3, <3>1
    <3> QED
      BY <2>1, <2>2, <2>3, <2>5, <3>2 DEF World, KnowsOK, RunningOK
  <2> QED
    BY <2>4, <2>5
<1> QED
  BY <1>2, <1>3

\* A step that leaves the connection alone.
LEMMA ChainGoes ==
  ASSUME IInv, ReadersInv, ChainInv, UNCHANGED <<World, starts>>, NEW t \in Threads, NEW l,
         Goto(t, l), \A x \in Receivers : x # t => reading'[x] = reading[x],
         HoldsAt(t, l, ret[t]) /\ t # Heartbeat => KnowsOK(t)'
  PROVE  ChainInv'
<1>1. PICK n : n = ret[t]
  OBVIOUS
<1>2. pc' = [pc EXCEPT ![t] = l] /\ ret' = [ret EXCEPT ![t] = n]
  BY <1>1 DEF Goto, IInv, ControlOK, ReturnsOK
<1>3. Unheard'
  BY DEF ChainInv, Unheard, World
<1>4. HoldsAt(t, l, n) /\ t # Heartbeat => KnowsOK(t)'
  BY <1>1
<1> QED
  BY <1>2, <1>3, <1>4, ChainMoves DEF ChainInv

\* A step that changes nothing of it, and no thread.
LEMMA ChainStays ==
  ASSUME ChainInv, UNCHANGED <<World, starts, pc, ret, reading>>
  PROVE  ChainInv'
<1>1. Unheard'
  BY DEF ChainInv, Unheard, World
<1>2. HolderKnows'
  <2> SUFFICES ASSUME NEW x \in Users \cup Receivers, Holds(x)' PROVE KnowsOK(x)'
    BY DEF HolderKnows
  <2>1. Holds(x) /\ KnowsOK(x)
    BY DEF Holds, ChainInv, HolderKnows
  <2> QED
    BY <2>1 DEF KnowsOK, MakingOK, RunningOK, World
<1> QED
  BY <1>1, <1>2 DEF ChainInv

\* An exception that leaves the connection alone.
LEMMA ChainRaises ==
  ASSUME IInv, ReadersInv, ChainInv, UNCHANGED World, starts' = starts, NEW t \in Threads,
         Raise(t),
         t \in Receivers => Holds(t) /\ (ret[t] = "r_wake" \/ pc[t] \notin Making)
  PROVE  ChainInv'
<1>1. PICK l : l = CASE t \in Users -> "idle"
                     [] t = Heartbeat -> "hb_dead"
                     [] OTHER -> IF ret[t] = "r_wake" THEN "r_done" ELSE "cl_close"
  OBVIOUS
<1>2. pc' = [pc EXCEPT ![t] = l] /\ ret' = [ret EXCEPT ![t] = "r_exit"] /\ reading' = reading
  BY <1>1 DEF Raise
<1>3. \/ t \in Users /\ l = "idle"
      \/ t = Heartbeat /\ l = "hb_dead"
      \/ t \in Receivers /\ l = "r_done"
      \/ t \in Receivers /\ ret[t] # "r_wake" /\ l = "cl_close"
  BY <1>1, ThreadKinds DEF Threads
<1>4. Unheard'
  BY DEF ChainInv, Unheard, World
<1>5. ASSUME HoldsAt(t, l, "r_exit"), t # Heartbeat PROVE KnowsOK(t)'
  <2>1. t \in Receivers /\ ret[t] # "r_wake" /\ l = "cl_close"
    BY <1>3, <1>5, ThreadKinds DEF HoldsAt, Making
  <2>2. RunningOK(t)
    BY <2>1 DEF ChainInv, HolderKnows, KnowsOK
  <2>3. pc'[t] = "cl_close" /\ ret'[t] = "r_exit"
    BY <1>2, <2>1 DEF IInv, ControlOK, ReturnsOK
  <2> QED
    BY <2>2, <2>3 DEF KnowsOK, RunningOK, World, Making, Looping, Closing, Ending
<1> QED
  BY <1>2, <1>4, <1>5, ChainMoves DEF ChainInv

-----------------------------------------------------------------------------
(* The steps *)

\* connect() makes the connection it starts a receiver for.
LEMMA ConnectingChains ==
  ASSUME Chained, IInv, ReadersInv, ReadersInv', ChainInv, NEW t \in Threads, Connecting(t)
  PROVE  ChainInv'
<1> USE ThreadKinds DEF At
<1>1. pc[t] \in ConnectLabels
  BY DEF Connecting, Start, Attempt, Dial, Verify, Spawn, SendConnect, WaitForConnection,
         WakeFromConnectWait, WaitTest, ConnectLabels
<1>2. Placed(t, pc[t], ret[t])
  BY DEF ReadersInv
<1>3. t \in Users \/ (t \in Receivers /\ ret[t] = "r_wake")
  BY <1>1, <1>2 DEF Placed
<1>4. t # Heartbeat
  BY <1>3
<1>5. conns \in Nat /\ spawned \in Nat
  BY BoundsAssumption DEF IInv, DataTypeOK
<1>6. pc[t] \in Making => Holds(t) /\ MakingOK(t) /\ starts # 0
  <2>1. pc[t] \in Making => Holds(t)
    BY <1>3 DEF Holds, HoldsAt, Making, ConnectLabels
  <2> QED
    BY <1>3, <2>1 DEF ReadersInv, ChainInv, HolderKnows, KnowsOK
<1>7. starts' = starts
  BY DEF Connecting, Start, Attempt, Dial, Verify, Spawn, SendConnect, Send, WaitForConnection,
         WakeFromConnectWait, WaitTest, history
<1>8. ASSUME NEW l \in Making, pc[t] \in Making, Goto(t, l), Unheard', reading' = reading,
             connected' = connected, spawned' = spawned, running',
             \/ socket' = None /\ conns' = spawned /\ l # "spawn"
             \/ socket' = conns' /\ conns' = spawned + 1 /\ l \in {"verify", "spawn"}
      PROVE  ChainInv'
  <2>1. PICK n : n = ret[t]
    OBVIOUS
  <2>2. pc' = [pc EXCEPT ![t] = l] /\ ret' = [ret EXCEPT ![t] = n] /\ pc'[t] = l
    BY <1>8, <2>1 DEF Goto, IInv, ControlOK, ReturnsOK
  <2>3. KnowsOK(t)'
    BY <1>6, <1>8, <2>2 DEF KnowsOK, MakingOK
  <2> QED
    BY <1>4, <1>6, <1>8, <2>2, <2>3, ChainMoves DEF ChainInv
<1>9. ASSUME UNCHANGED World, Raise(t) PROVE ChainInv'
  <2>1. CASE pc[t] \in Making \/ t \in Users
    BY <1>3, <1>6, <1>7, <1>9, <2>1, ChainRaises
  <2>2. CASE t \in Receivers
    <3>1. /\ pc' = [pc EXCEPT ![t] = "r_done"] /\ ret' = [ret EXCEPT ![t] = "r_exit"]
          /\ reading' = reading
      BY <1>3, <1>4, <1>9, <2>2 DEF Raise
    <3>2. Unheard'
      BY <1>7, <1>9 DEF ChainInv, Unheard, World
    <3>3. ~HoldsAt(t, "r_done", "r_exit")
      BY <2>2 DEF HoldsAt
    <3> QED
      BY <1>9, <3>1, <3>2, <3>3, ChainMoves DEF ChainInv
  <2> QED
    BY <1>3, <2>1, <2>2
<1>10. CASE Start(t)
  <2>1. UNCHANGED <<connected, socket, conns, spawned, sessions, told, reading, starts>>
    BY <1>10 DEF Start, sockets, history, chunk
  <2>2. Unheard'
    BY <2>1 DEF ChainInv, Unheard
  <2>3. running' /\ Goto(t, "attempt") /\ pc[t] = "start"
    BY <1>10 DEF Start
  <2>4. "attempt" \in Making /\ pc[t] \in Making
    BY <2>3 DEF Making
  <2>5. socket = None /\ conns = spawned
    BY <1>6, <2>3, <2>4 DEF MakingOK
  <2> QED
    BY <1>8, <2>1, <2>2, <2>3, <2>4, <2>5
<1>11. CASE Attempt(t)
  <2>1. UNCHANGED <<running, connected, socket, conns, spawned, sessions, told, reading, starts>>
    BY <1>11 DEF Attempt, sockets, history, chunk
  <2>2. Unheard'
    BY <2>1 DEF ChainInv, Unheard
  <2>3. pc[t] = "attempt" /\ (Goto(t, "dial") \/ Goto(t, "verify"))
    BY <1>11 DEF Attempt
  <2>4. pc[t] \in Making /\ "dial" \in Making /\ "verify" \in Making
    BY <2>3 DEF Making
  <2>5. socket = None /\ conns = spawned /\ running
    BY <1>6, <2>3, <2>4 DEF MakingOK
  <2> QED
    BY <1>8, <2>1, <2>2, <2>3, <2>4, <2>5
<1>12. CASE Dial(t)
  <2>1. UNCHANGED <<running, connected, spawned, sessions, told, reading, starts>>
    BY <1>12 DEF Dial, flags, history, chunk
  <2>2. Goto(t, "verify") /\ pc[t] = "dial"
    BY <1>12 DEF Dial
  <2>3. pc[t] \in Making /\ "verify" \in Making
    BY <2>2 DEF Making
  <2>4. socket = None /\ conns = spawned /\ running /\ starts # 0
    BY <1>6, <2>2, <2>3 DEF MakingOK
  <2>5. \/ conns' = spawned + 1 /\ socket' = spawned + 1
        \/ conns' = spawned /\ socket' = None
    BY <1>12, <2>4 DEF Dial
  <2>6. Unheard'
    BY <1>5, <2>1, <2>4, <2>5 DEF ChainInv, Unheard
  <2> QED
    BY <1>8, <2>1, <2>2, <2>3, <2>4, <2>5, <2>6
<1>13. CASE Verify(t)
  <2>1. UNCHANGED <<running, connected, socket, conns, spawned, sessions, told, starts>>
    BY <1>13 DEF Verify, flags, sockets, history
  <2>2. Unheard'
    BY <2>1 DEF ChainInv, Unheard
  <2>3. pc[t] = "verify" /\ pc[t] \in Making /\ "spawn" \in Making
    BY <1>13 DEF Verify, Making
  <2>4. CASE socket # None /\ Goto(t, "spawn") /\ UNCHANGED chunk
    BY <1>6, <1>8, <2>1, <2>2, <2>3, <2>4 DEF MakingOK, chunk
  <2>5. CASE Raise(t)
    BY <1>9, <2>1, <2>5 DEF World
  <2> QED
    BY <1>13, <2>4, <2>5 DEF Verify
<1>14. CASE Spawn(t)
  <2>1. PICK r : r = spawned + 1
    OBVIOUS
  <2>2. r \in Receivers /\ r \in Sockets
    BY <1>14, <2>1, NextNumber DEF Spawn, IInv, DataTypeOK, Receivers, Sockets
  <2>3. /\ pc' = [pc EXCEPT ![t] = "send_connect", ![r] = "r_outer"]
        /\ ret' = ret /\ pc[t] = "spawn" /\ pc \in [Threads -> Labels] /\ spawned' = r
        /\ UNCHANGED <<running, connected, socket, conns, sessions, told, starts>>
    BY <1>14, <2>1 DEF Spawn, IInv, ControlOK, flags, sockets, history
  <2>4. running /\ ~connected /\ socket = r /\ conns = r /\ sessions[r] = 0 /\ told[r] = 0
    <3>1. MakingOK(t)
      BY <1>6, <2>3 DEF Making
    <3>2. r > spawned
      BY <1>5, <2>1
    <3> QED
      BY <2>1, <2>2, <2>3, <3>1, <3>2 DEF MakingOK, ChainInv, Unheard
  <2>5. pc'[r] = "r_outer"
    BY <2>2, <2>3
  <2>6. Holds(r)'
    BY <2>2, <2>5 DEF Holds, HoldsAt, ConnectLabels
  <2>7. RunningOK(r)'
    BY <2>3, <2>4, <2>5 DEF RunningOK, Looping, Closing, Ending
  <2>8. HolderKnows'
    <3>1. \A x \in Users \cup Receivers : Holds(x)' => x = r
      BY <2>2, <2>6 DEF ReadersInv
    <3>2. KnowsOK(r)'
      BY <2>5, <2>7 DEF KnowsOK, Making
    <3> QED
      BY <3>1, <3>2 DEF HolderKnows
  <2>9. Unheard'
    <3>1. starts' # 0
      BY <1>6, <2>3 DEF Making
    <3>2. \A s \in Sockets : s > spawned' => s > spawned
      BY <1>5, <2>1, <2>3 DEF Sockets
    <3>3. conns' >= spawned'
      BY <1>5, <2>1, <2>3, <2>4
    <3> QED
      BY <2>3, <3>1, <3>2, <3>3 DEF ChainInv, Unheard
  <2> QED
    BY <2>8, <2>9 DEF ChainInv
<1>15. ASSUME UNCHANGED World, Goto(t, ret[t]), reading' = reading, pc[t] = "send_connect",
              t \in Users
       PROVE  ChainInv'
  <2>1. PICK n : n = ret[t]
    OBVIOUS
  <2>2. ~HoldsAt(t, n, n)
    BY <1>15, <2>1
    DEF HoldsAt, Making, IInv, ControlOK, ReturnsOK, ReturnLabels, ReceiverReturns
  <2> QED
    BY <1>7, <1>15, <2>1, <2>2, ChainGoes
<1>16. ASSUME UNCHANGED World, reading' = reading, NEW l \in {"wait", "waiting", "wait_test"},
              Goto(t, l)
       PROVE  ChainInv'
  <2>1. ~HoldsAt(t, l, ret[t])
    BY <1>3 DEF HoldsAt, Making, ConnectLabels
  <2> QED
    BY <1>7, <1>16, <2>1, ChainGoes
<1>17. CASE SendConnect(t)
  <2>1. UNCHANGED World
    BY <1>17 DEF SendConnect, Send, World, flags, sockets, history
  <2>2. CASE Raise(t)
    BY <1>9, <2>1, <2>2
  <2>3. CASE t \in Users /\ Goto(t, ret[t]) /\ UNCHANGED chunk
    BY <1>15, <1>17, <2>1, <2>3 DEF SendConnect, chunk
  <2>4. CASE Goto(t, "wait") /\ UNCHANGED chunk
    BY <1>16, <2>1, <2>4 DEF chunk
  <2> QED
    BY <1>17, <2>2, <2>3, <2>4 DEF SendConnect, Send
<1>18. CASE WaitForConnection(t) \/ WakeFromConnectWait(t)
  <2>1. UNCHANGED World /\ reading' = reading
    BY <1>18
    DEF WaitForConnection, WakeFromConnectWait, World, flags, sockets, history, chunk
  <2> QED
    BY <1>16, <1>18, <2>1 DEF WaitForConnection, WakeFromConnectWait
<1>19. CASE WaitTest(t)
  <2>1. UNCHANGED World
    BY <1>19 DEF WaitTest, World, flags, sockets, history
  <2>2. CASE Goto(t, AfterConnect(t)) /\ UNCHANGED chunk
    <3>1. PICK l : l = AfterConnect(t)
      OBVIOUS
    <3>2. ~HoldsAt(t, l, ret[t])
      BY <1>3, <3>1 DEF AfterConnect, HoldsAt, Making
    <3> QED
      BY <1>7, <2>1, <2>2, <3>1, <3>2, ChainGoes DEF chunk
  <2> QED
    BY <1>9, <1>19, <2>1, <2>2 DEF WaitTest
<1> QED
  BY <1>10, <1>11, <1>12, <1>13, <1>14, <1>17, <1>18, <1>19 DEF Connecting

\* A receiver runs until it has lost its connection, and then has no socket.
LEMMA ReceivingChains ==
  ASSUME Chained, IInv, ReadersInv, ChainInv, NEW t \in Receivers, Receiving(t)
  PROVE  ChainInv'
<1> USE ThreadKinds DEF At
<1>1. t \in Threads /\ t # Heartbeat /\ t \notin Users /\ t \in Sockets /\ t # None
  BY DEF Receivers, Sockets
<1>2. Placed(t, pc[t], ret[t])
  BY <1>1 DEF ReadersInv
<1>3. starts' = starts
  BY DEF Receiving, ROuter, RInner, RRecv, RNoMoreFrames, RConnected, ROnConnected, RError,
         RReceipt, RAck, RMatch, RClear, RLost, CleanupClose, CleanupNull, RExit,
         RCompletedRaises, RCheckNotified, RWake, RReset, history
<1>4. pc[t] \in Looping \cup Closing \cup {"r_exit", "r_notify?"} => Holds(t) /\ RunningOK(t)
  <2>1. pc[t] \in Looping \cup Closing \cup {"r_exit", "r_notify?"} => Holds(t)
    BY <1>1 DEF Holds, HoldsAt, Looping, Closing, ConnectLabels
  <2>2. pc[t] \in Looping \cup Closing \cup {"r_exit", "r_notify?"} => pc[t] \notin Making
    BY DEF Looping, Closing, Making
  <2> QED
    BY <2>1, <2>2 DEF ChainInv, HolderKnows, KnowsOK
\* it goes on and leaves the connection alone
<1>5. ASSUME UNCHANGED World, NEW l \in Looping \cup Closing \cup {"r_exit", "r_notify?"},
             Goto(t, l), reading' = reading,
             pc[t] \in Looping \cup Closing \cup {"r_exit", "r_notify?"},
             l \in Looping => pc[t] \in Looping,
             l \in {"r_recv", "r_frame", "r_connected"} =>
               pc[t] \in {"r_recv", "r_frame", "r_connected"},
             l \in {"cl_close", "cl_null"} => pc[t] \in {"cl_close", "cl_null"},
             l \in Ending => pc[t] \in Ending
      PROVE  ChainInv'
  <2>1. pc'[t] = l /\ ret'[t] = ret[t]
    BY <1>1, <1>5 DEF Goto, IInv, ControlOK, ReturnsOK
  <2>2. l \notin Making /\ l # "nd_listeners"
    BY <1>5 DEF Making, Looping, Closing
  <2>3. l \in Looping \cup Closing \cup Ending
    BY DEF Ending
  <2>4. KnowsOK(t)'
    BY <1>4, <1>5, <2>1, <2>2, <2>3 DEF World, KnowsOK, RunningOK
  <2> QED
    BY <1>1, <1>3, <1>5, <2>4, ChainGoes
\* it does so and gives the right up
<1>6. ASSUME UNCHANGED World, NEW l \in {"r_wake", "r_reset", "r_done", "r_dead"}, Goto(t, l),
             reading' = reading
      PROVE  ChainInv'
  <2>1. ~HoldsAt(t, l, ret[t])
    BY <1>1 DEF HoldsAt
  <2> QED
    BY <1>1, <1>3, <1>6, <2>1, ChainGoes
<1>7. CASE ROuter(t)
  <2>1. UNCHANGED World /\ reading' = reading /\ pc[t] = "r_outer"
    BY <1>7 DEF ROuter, World, flags, sockets, history, chunk
  <2>2. running
    BY <1>4, <2>1 DEF RunningOK, Looping
  <2> QED
    BY <1>5, <1>7, <2>1, <2>2 DEF ROuter, Looping, Closing, Ending
<1>8. CASE RInner(t)
  <2>1. UNCHANGED World /\ pc[t] = "r_inner"
    BY <1>8 DEF RInner, World, flags, sockets, history
  <2>2. RunningOK(t) /\ Holds(t)
    BY <1>4, <2>1 DEF Looping
  <2>3. running /\ socket = t
    BY <2>1, <2>2 DEF RunningOK, Looping
  <2>4. CASE reading' = [reading EXCEPT ![t] = socket] /\ Goto(t, "r_recv")
    <3>1. pc'[t] = "r_recv" /\ reading'[t] = t
      BY <1>1, <2>3, <2>4 DEF Goto, IInv, ControlOK, ReturnsOK
    <3>2. KnowsOK(t)'
      BY <2>1, <2>2, <3>1
      DEF World, KnowsOK, RunningOK, Making, Looping, Closing, Ending
    <3>3. \A x \in Receivers : x # t => reading'[x] = reading[x]
      BY <2>4 DEF IInv, ControlOK
    <3> QED
      BY <1>1, <1>3, <2>1, <2>4, <3>2, <3>3, ChainGoes
  <2>5. CASE Goto(t, "r_lost") /\ reading' = reading
    BY <1>5, <2>1, <2>5 DEF Looping, Closing, Ending
  <2> QED
    BY <1>8, <2>3, <2>4, <2>5 DEF RInner
<1>9. CASE RRecv(t)
  <2>1. UNCHANGED World /\ reading' = reading /\ pc[t] = "r_recv"
    BY <1>9 DEF RRecv, World, flags, sockets, history
  <2> QED
    BY <1>5, <1>9, <2>1 DEF RRecv, Looping, Closing, Ending
<1>10. CASE RNoMoreFrames(t)
  <2>1. UNCHANGED World /\ reading' = reading /\ pc[t] = "r_frame"
    BY <1>10 DEF RNoMoreFrames, World, flags, sockets, history, chunk
  <2> QED
    BY <1>5, <1>10, <2>1 DEF RNoMoreFrames, Looping, Closing, Ending
<1>11. CASE RConnected(t)
  <2>1. /\ UNCHANGED <<running, socket, conns, spawned, told, reading>> /\ pc[t] = "r_frame"
        /\ connected' /\ sessions' = [sessions EXCEPT ![reading[t]] = sessions[reading[t]] + 1]
        /\ Goto(t, "r_connected")
    BY <1>11 DEF RConnected, SetConnected, sockets, history
  <2>2. RunningOK(t) /\ Holds(t)
    BY <1>4, <2>1 DEF Looping
  <2>3. running /\ socket = t /\ t = spawned /\ reading[t] = t
    BY <2>1, <2>2 DEF RunningOK, Looping
  <2>4. Unheard'
    <3>1. \A s \in Sockets : s > spawned => s # t
      BY <2>3 DEF Sockets
    <3>2. \A s \in Sockets : s > spawned => sessions'[s] = sessions[s]
      BY <2>1, <2>3, <3>1 DEF IInv, DataTypeOK
    <3>3. starts # 0
      BY <1>1, <2>2 DEF ReadersInv
    <3> QED
      BY <1>3, <2>1, <3>2, <3>3 DEF ChainInv, Unheard
  <2>5. PICK n : n = ret[t]
    OBVIOUS
  <2>6. /\ pc' = [pc EXCEPT ![t] = "r_connected"] /\ ret' = [ret EXCEPT ![t] = n]
        /\ pc'[t] = "r_connected"
    BY <1>1, <2>1, <2>5 DEF Goto, IInv, ControlOK, ReturnsOK
  <2>7. KnowsOK(t)'
    BY <2>1, <2>2, <2>3, <2>6 DEF KnowsOK, RunningOK, Making, Looping, Closing, Ending
  <2> QED
    BY <1>1, <2>1, <2>2, <2>4, <2>6, <2>7, ChainMoves DEF ChainInv
<1>12. CASE ROnConnected(t)
  <2>1. UNCHANGED World /\ reading' = reading /\ pc[t] = "r_connected"
    BY <1>12 DEF ROnConnected, Raise, World, flags, sockets, history, chunk
  <2>2. CASE Goto(t, "r_frame")
    BY <1>5, <2>1, <2>2 DEF Looping, Closing, Ending
  <2>3. CASE Raise(t)
    <3>1. Holds(t) /\ pc[t] \notin Making
      BY <1>4, <2>1 DEF Looping, Making
    <3> QED
      BY <1>1, <1>3, <2>1, <2>3, <3>1, ChainRaises
  <2> QED
    BY <1>12, <2>2, <2>3 DEF ROnConnected
<1>13. CASE RError(t)
  <2>1. UNCHANGED <<World, pc, ret, reading>>
    BY <1>13 DEF RError, World, sockets, history
  <2> QED
    BY <1>3, <2>1, ChainStays
<1>14. CASE RReceipt(t)
  <2>1. UNCHANGED <<World, pc, ret, reading>>
    BY <1>14
    DEF RReceipt, Chained, ReadersInv, World, flags, sockets, history
  <2> QED
    BY <1>3, <2>1, ChainStays
<1>15. CASE RAck(t) \/ RMatch(t) \/ RClear(t)
  BY <1>2, <1>15 DEF Chained, Placed, RAck, RMatch, RClear
<1>16. CASE RLost(t)
  <2>1. /\ UNCHANGED <<socket, connected, conns, spawned, sessions, told, reading>>
        /\ pc' = [pc EXCEPT ![t] = "cl_close"] /\ ret' = [ret EXCEPT ![t] = "r_exit"]
        /\ pc[t] = "r_lost"
    BY <1>16 DEF RLost, Call, sockets, history, chunk
  <2>2. RunningOK(t) /\ Holds(t)
    BY <1>4, <2>1 DEF Closing
  <2>3. pc'[t] = "cl_close" /\ ret'[t] = "r_exit"
    BY <1>1, <2>1 DEF IInv, ControlOK, ReturnsOK
  <2>4. KnowsOK(t)'
    BY <2>1, <2>2, <2>3 DEF KnowsOK, RunningOK, Making, Looping, Closing, Ending
  <2>5. Unheard'
    BY <1>3, <2>1 DEF ChainInv, Unheard
  <2> QED
    BY <1>1, <2>1, <2>2, <2>4, <2>5, ChainMoves DEF ChainInv
<1>17. CASE CleanupClose(t)
  <2>1. UNCHANGED World /\ reading' = reading /\ pc[t] = "cl_close"
    BY <1>17 DEF CleanupClose, World, flags, history, chunk
  <2> QED
    BY <1>5, <1>17, <2>1 DEF CleanupClose, Looping, Closing, Ending
<1>18. CASE CleanupNull(t)
  <2>1. /\ UNCHANGED <<running, connected, conns, spawned, sessions, told, reading>>
        /\ socket' = None /\ pc[t] = "cl_null" /\ Goto(t, ret[t])
    BY <1>18 DEF CleanupNull, Return, flags, history, chunk
  <2>2. RunningOK(t) /\ Holds(t)
    BY <1>4, <2>1 DEF Closing
  <2>3. ret[t] = "r_exit"
    BY <2>1, <2>2 DEF RunningOK
  <2>4. pc' = [pc EXCEPT ![t] = "r_exit"] /\ ret' = [ret EXCEPT ![t] = "r_exit"]
    BY <1>1, <2>1, <2>3 DEF Goto, IInv, ControlOK, ReturnsOK
  <2>5. pc'[t] = "r_exit"
    BY <1>1, <2>4 DEF IInv, ControlOK
  <2>6. KnowsOK(t)'
    BY <2>1, <2>2, <2>5 DEF KnowsOK, RunningOK, Making, Looping, Closing, Ending
  <2>7. Unheard'
    BY <1>3, <2>1 DEF ChainInv, Unheard
  <2> QED
    BY <1>1, <2>1, <2>2, <2>4, <2>6, <2>7, ChainMoves DEF ChainInv
<1>19. CASE RExit(t)
  <2>1. UNCHANGED World /\ reading' = reading /\ pc[t] = "r_exit"
    BY <1>19 DEF RExit, World, sockets, history, chunk
  <2> QED
    BY <1>5, <1>19, <2>1 DEF RExit, Looping, Closing, Ending
<1>20. CASE RCheckNotified(t)
  <2>1. UNCHANGED World /\ reading' = reading /\ pc[t] = "r_notify?"
    BY <1>20 DEF RCheckNotified, World, flags, sockets, history, chunk
  <2>2. CASE Goto(t, "r_wake")
    BY <1>6, <2>1, <2>2
  <2>3. CASE Call(t, "nd_flag", "r_wake")
    <3>1. /\ pc' = [pc EXCEPT ![t] = "nd_flag"] /\ ret' = [ret EXCEPT ![t] = "r_wake"]
          /\ pc'[t] = "nd_flag"
      BY <1>1, <2>3 DEF Call, IInv, ControlOK, ReturnsOK
    <3>2. RunningOK(t) /\ Holds(t)
      BY <1>4, <2>1
    <3>3. KnowsOK(t)'
      BY <2>1, <3>1, <3>2 DEF World, KnowsOK, RunningOK, Making, Looping, Closing, Ending
    <3>4. Unheard'
      BY <1>3, <2>1 DEF ChainInv, Unheard, World
    <3> QED
      BY <1>1, <2>1, <3>1, <3>2, <3>3, <3>4, ChainMoves DEF ChainInv
  <2> QED
    BY <1>20, <2>2, <2>3 DEF RCheckNotified
<1>21. CASE RWake(t) \/ RReset(t) \/ RCompletedRaises(t)
  <2>1. UNCHANGED World /\ reading' = reading
    BY <1>21 DEF RWake, RReset, RCompletedRaises, World, flags, sockets, history, chunk
  <2> QED
    BY <1>6, <1>21, <2>1 DEF RWake, RReset, RCompletedRaises
<1> QED
  BY <1>7, <1>8, <1>9, <1>10, <1>11, <1>12, <1>13, <1>14, <1>15, <1>16, <1>17, <1>18, <1>19,
     <1>20, <1>21 DEF Receiving

\* Its listeners hear of it once, and may make the next connection.
LEMMA NotifyingChains ==
  ASSUME Chained, IInv, ReadersInv, ChainInv, NEW t \in Receivers \cup {Heartbeat}, Notifying(t)
  PROVE  ChainInv'
<1> USE ThreadKinds DEF At
<1>1. /\ pc[t] \in {"nd_flag", "nd_connected", "nd_listeners", "nd_heartbeat"}
      /\ t \in Threads
  BY DEF Notifying, NdFlag, NdConnected, NdListeners, NdHeartbeat
<1>2. Placed(t, pc[t], ret[t])
  BY <1>1 DEF ReadersInv
<1>3. t \in Receivers /\ ret[t] = "r_wake" /\ t \in Sockets /\ t # None
  BY <1>1, <1>2 DEF Placed, Chained, CallLabels, Receivers, Sockets
<1>4. pc[t] # "nd_heartbeat" => Holds(t) /\ RunningOK(t) /\ starts # 0
  <2>1. pc[t] # "nd_heartbeat" => Holds(t)
    BY <1>1, <1>3 DEF Holds, HoldsAt, ConnectLabels
  <2> QED
    BY <1>1, <1>3, <2>1 DEF ReadersInv, ChainInv, HolderKnows, KnowsOK, Making
<1>5. \A l : Goto(t, l) => pc'[t] = l /\ ret'[t] = ret[t]
  BY <1>1 DEF Goto, IInv, ControlOK, ReturnsOK
<1>6. CASE NdFlag(t)
  <2>1. UNCHANGED <<World, starts>> /\ reading' = reading /\ pc[t] = "nd_flag"
        /\ Goto(t, "nd_connected")
    BY <1>6 DEF NdFlag, World, sockets, history, chunk
  <2>2. KnowsOK(t)'
    BY <1>4, <1>5, <2>1 DEF World, KnowsOK, RunningOK, Making, Looping, Closing, Ending
  <2> QED
    BY <1>1, <2>1, <2>2, ChainGoes
<1>7. CASE NdConnected(t)
  <2>1. /\ UNCHANGED <<running, socket, conns, spawned, sessions, told, reading, starts>>
        /\ ~connected' /\ pc[t] = "nd_connected" /\ Goto(t, "nd_listeners")
    BY <1>7 DEF NdConnected, SetConnected, sockets, history, chunk
  <2>2. KnowsOK(t)'
    BY <1>4, <1>5, <2>1 DEF KnowsOK, RunningOK, Making, Looping, Closing, Ending
  <2>3. Unheard'
    BY <1>4, <2>1 DEF ChainInv, Unheard
  <2>4. PICK n : n = ret[t]
    OBVIOUS
  <2>5. pc' = [pc EXCEPT ![t] = "nd_listeners"] /\ ret' = [ret EXCEPT ![t] = n]
    BY <2>1, <2>4 DEF Goto, IInv, ControlOK, ReturnsOK
  <2> QED
    BY <1>1, <1>3, <1>4, <2>1, <2>2, <2>3, <2>5, ChainMoves DEF ChainInv
<1>8. CASE NdListeners(t)
  <2>1. /\ UNCHANGED <<running, socket, connected, conns, spawned, sessions>>
        /\ pc[t] = "nd_listeners" /\ told' = [told EXCEPT ![conns] = told[conns] + 1]
        /\ reading' = reading
    BY <1>8 DEF NdListeners, Raise, flags, sockets, chunk
  <2>2. RunningOK(t) /\ Holds(t) /\ t = conns /\ t = spawned /\ starts # 0
    BY <1>4, <2>1 DEF RunningOK
  <2>3. socket = None /\ ~connected
    BY <2>1, <2>2 DEF RunningOK, Ending
  <2>4. starts' = starts \/ starts' = starts + 1
    BY <1>8 DEF NdListeners
  <2>5. Unheard'
    <3>1. \A s \in Sockets : s > spawned => s # t
      BY <2>2 DEF Sockets
    <3>2. \A s \in Sockets : s > spawned => told'[s] = told[s]
      BY <2>1, <2>2, <3>1 DEF IInv, DataTypeOK
    <3>3. ~connected' /\ socket' = None /\ conns' = spawned'
      BY <2>1, <2>2, <2>3
    <3> QED
      BY <2>1, <3>2, <3>3 DEF ChainInv, Unheard
  <2>6. PICK n : n = ret[t]
    OBVIOUS
  <2>7. CASE Goto(t, "start")
    <3>1. pc' = [pc EXCEPT ![t] = "start"] /\ ret' = [ret EXCEPT ![t] = n]
      BY <2>6, <2>7 DEF Goto, IInv, ControlOK, ReturnsOK
    <3>2. KnowsOK(t)'
      <4>1. pc'[t] = "start" /\ ~connected' /\ socket' = None /\ conns' = spawned'
        BY <1>5, <2>1, <2>2, <2>3, <2>7
      <4> QED
        BY <4>1 DEF KnowsOK, MakingOK, Making
    <3> QED
      BY <1>1, <1>3, <2>1, <2>2, <2>5, <3>1, <3>2, ChainMoves DEF ChainInv
  <2>8. CASE Goto(t, "nd_heartbeat")
    <3>1. pc' = [pc EXCEPT ![t] = "nd_heartbeat"] /\ ret' = [ret EXCEPT ![t] = n]
      BY <2>6, <2>8 DEF Goto, IInv, ControlOK, ReturnsOK
    <3>2. ~HoldsAt(t, "nd_heartbeat", n)
      BY <1>3, <2>6 DEF HoldsAt
    <3> QED
      BY <1>1, <1>3, <2>1, <2>2, <2>5, <3>1, <3>2, ChainMoves DEF ChainInv
  <2>9. CASE Raise(t)
    <3>1. pc' = [pc EXCEPT ![t] = "r_done"] /\ ret' = [ret EXCEPT ![t] = "r_exit"]
      BY <1>3, <2>9 DEF Raise
    <3>2. ~HoldsAt(t, "r_done", "r_exit")
      BY <1>3 DEF HoldsAt
    <3> QED
      BY <1>1, <1>3, <2>1, <2>2, <2>5, <3>1, <3>2, ChainMoves DEF ChainInv
  <2> QED
    BY <1>8, <2>7, <2>8, <2>9 DEF NdListeners
<1>9. CASE NdHeartbeat(t)
  <2>1. UNCHANGED <<World, starts>> /\ reading' = reading /\ Goto(t, "r_wake")
    BY <1>3, <1>9 DEF NdHeartbeat, Return, World, sockets, history, chunk
  <2>2. ~HoldsAt(t, "r_wake", ret[t])
    BY <1>3 DEF HoldsAt
  <2> QED
    BY <1>1, <2>1, <2>2, ChainGoes
<1> QED
  BY <1>6, <1>7, <1>8, <1>9 DEF Notifying

\* Nobody else calls disconnect(), stop() or disconnect_socket() here, ...
LEMMA NoneDisconnects ==
  ASSUME Chained, IInv, ReadersInv, ChainInv
  PROVE  /\ \A u \in Users : ~Disconnect(u) /\ ~Disconnecting(u)
         /\ \A t \in Users \cup {Heartbeat} : ~Stopping(t)
         /\ \A t \in Receivers \cup {Heartbeat} : ~DisconnectingSocket(t)
         /\ ~HbTimeout(Heartbeat) /\ ~HbSetConnected(Heartbeat)
         /\ \A r \in Receivers : ~RAck(r)
<1> USE ThreadKinds DEF At, Chained
<1>1. \A u \in Users : pc[u] \in ConnectLabels \cup {"idle"}
  BY DEF ReadersInv, Placed
<1>2. pc[Heartbeat] = "hb_loop"
  BY DEF ReadersInv, Placed
<1>3. \A u \in Users : ~Disconnect(u) /\ ~Disconnecting(u)
  BY <1>1
  DEF Quiet, Disconnect, Disconnecting, DiscCheck, DiscReceipt, DiscTransmit, DiscSend,
      ConnectLabels
<1>4. \A t \in Users \cup {Heartbeat} : ~Stopping(t)
  BY <1>1, <1>2 DEF Stopping, Stop, WakeFromStopWait, ConnectLabels
<1>5. ASSUME NEW t \in Receivers \cup {Heartbeat}, DisconnectingSocket(t) PROVE FALSE
  <2>1. pc[t] \in {"ds_running", "ds_shutdown?", "ds_shutdown", "ds_close?", "ds_close",
                   "ds_null", "ds_notify?"}
    BY <1>5 DEF DisconnectingSocket, DsRunning, DsCheckShutdown, DsShutdown, DsCheckClose,
                DsClose, DsNull, DsCheckNotified, DsHasSocket
  <2>2. t \in Receivers
    BY <1>2, <2>1
  <2>3. Holds(t)
    BY <2>1, <2>2 DEF Holds, HoldsAt, ConnectLabels
  <2>4. RunningOK(t)
    BY <2>1, <2>2, <2>3 DEF ChainInv, HolderKnows, KnowsOK, Making
  <2> QED
    BY <2>1, <2>4 DEF RunningOK, Looping, Closing, Ending
<1>6. ~HbTimeout(Heartbeat)
  <2>1. timeouts \in Nat
    BY BoundsAssumption DEF IInv, DataTypeOK
  <2>2. ~(timeouts < MaxTimeouts)
    BY <2>1 DEF Quiet
  <2> QED
    BY <2>2 DEF HbTimeout
<1>7. ~HbSetConnected(Heartbeat)
  BY <1>2 DEF HbSetConnected
<1>8. ASSUME NEW r \in Receivers, RAck(r) PROVE FALSE
  <2>1. Placed(r, pc[r], ret[r])
    BY DEF ReadersInv
  <2> QED
    BY <1>8, <2>1 DEF Placed, RAck
<1> QED
  BY <1>3, <1>4, <1>5, <1>6, <1>7, <1>8

\* ... so every step keeps what is known of the connection.
LEMMA ChainStep ==
  ASSUME Chained, IInv, ReadersInv, ReadersInv', ChainInv, [Next]_vars
  PROVE  ChainInv'
<1> USE ThreadKinds
<1>1. ASSUME NEW u \in Users, Connect(u) PROVE ChainInv'
  <2>1. starts = 0 /\ pc[u] = "idle"
    BY <1>1 DEF Connect, Chained, At
  <2>2. PICK n \in {"wait", "idle"} : Call(u, "start", n)
    BY <1>1 DEF Connect
  <2>3. UNCHANGED World /\ reading' = reading
    BY <1>1 DEF Connect, World, flags, sockets, chunk
  <2>4. socket = None /\ conns = spawned /\ ~connected
    BY <2>1 DEF ChainInv, Unheard
  <2>5. Unheard'
    BY <2>3, <2>4 DEF ChainInv, Unheard, World
  <2>6. pc'[u] = "start"
    BY <2>2 DEF Call, IInv, ControlOK
  <2>7. KnowsOK(u)'
    BY <2>3, <2>4, <2>6 DEF World, KnowsOK, MakingOK, Making
  <2> QED
    BY <2>2, <2>3, <2>5, <2>7, ChainMoves DEF ChainInv, Call
<1>2. ASSUME NEW s \in Sockets, Answer(s) \/ Lose(s) PROVE ChainInv'
  BY <1>2, ChainStays DEF Answer, Lose, World, flags, sockets, history, chunk
<1>3. CASE UNCHANGED vars
  BY <1>3, ChainStays DEF vars, World, flags, sockets, history, chunk
<1> QED
  BY <1>1, <1>2, <1>3, ConnectingChains, NotifyingChains, ReceivingChains, NoneDisconnects
  DEF Next, Rest

-----------------------------------------------------------------------------
(* Refinement *)

\* The application sees a stage for each connection ...
Seen == [s \in Sockets |-> Stage(s)]
\* ... and most steps not at all.
Unseen == UNCHANGED <<conns, connected, sessions, told>>

\* The steps that it may see are few.
LEMMA UnseenSteps ==
  ASSUME [Next]_vars
  PROVE  \/ Unseen
         \/ \E t \in Threads : Dial(t)
         \/ HbSetConnected(Heartbeat)
         \/ \E t \in Receivers \cup {Heartbeat} : NdConnected(t) \/ NdListeners(t)
         \/ \E r \in Receivers : RConnected(r) \/ RAck(r)
<1>1. ASSUME NEW t \in Threads, Connecting(t) PROVE Unseen \/ Dial(t)
  BY <1>1
  DEF Connecting, Start, Attempt, Verify, Spawn, SendConnect, Send, WaitForConnection,
      WakeFromConnectWait, WaitTest, Unseen, flags, sockets, history
<1>2. ASSUME NEW u \in Users, Disconnecting(u) PROVE Unseen
  BY <1>2
  DEF Disconnecting, DiscCheck, DiscReceipt, DiscTransmit, DiscSend, Send, Unseen, flags, sockets,
      history
<1>3. ASSUME NEW t, Stopping(t) PROVE Unseen
  BY <1>3 DEF Stopping, Stop, WakeFromStopWait, Unseen, flags, sockets, history
<1>4. ASSUME NEW t, DisconnectingSocket(t) PROVE Unseen
  BY <1>4
  DEF DisconnectingSocket, DsRunning, DsCheckShutdown, DsShutdown, DsCheckClose, DsClose, DsNull,
      DsCheckNotified, DsHasSocket, Unseen, flags, sockets, history
<1>5. ASSUME NEW t, Notifying(t) PROVE Unseen \/ NdConnected(t) \/ NdListeners(t)
  BY <1>5 DEF Notifying, NdFlag, NdHeartbeat, Unseen, sockets, history
<1>6. ASSUME NEW r, Receiving(r) PROVE Unseen \/ RConnected(r) \/ RAck(r)
  BY <1>6
  DEF Receiving, ROuter, RInner, RRecv, RNoMoreFrames, ROnConnected, RError, RReceipt, RMatch,
      RClear, RLost, CleanupClose, CleanupNull, RExit, RCompletedRaises, RCheckNotified, RWake, RReset,
      Unseen, flags, sockets, history
<1>7. ASSUME NEW s, Answer(s) \/ Lose(s) PROVE Unseen
  BY <1>7 DEF Answer, Lose, Unseen, flags, sockets, history
<1>8. ASSUME NEW u, Connect(u) \/ Disconnect(u) PROVE Unseen
  BY <1>8 DEF Connect, Disconnect, Unseen, flags, sockets
<1>9. HbTimeout(Heartbeat) => Unseen
  BY DEF HbTimeout, Unseen, flags, sockets
<1>10. UNCHANGED vars => Unseen
  BY DEF vars, Unseen, flags, sockets, history
<1> QED
  BY <1>1, <1>2, <1>3, <1>4, <1>5, <1>6, <1>7, <1>8, <1>9, <1>10 DEF Next, Rest

\* Before the first connection there is nothing to see.
LEMMA SeenFirst == Init => Promised!ContractInit
<1> SUFFICES ASSUME Init PROVE Promised!ContractInit
  OBVIOUS
<1>1. \A s \in Sockets : Stage(s) = "none"
  BY DEF Init, Stage, Sockets
<1> QED
  BY <1>1 DEF Init, Promised!ContractInit

\* A step that is seen of one connection only.
LEMMA SeenOfOne ==
  ASSUME NEW c \in Sockets, \A s \in Sockets : s # c => Stage(s)' = Stage(s)
  PROVE  \A x, y : Stage(c) = x /\ Stage(c)' = y => Seen[c] = x /\ Seen' = [Seen EXCEPT ![c] = y]
BY DEF Seen

\* A step that is seen of none.
LEMMA SeenOfNone ==
  ASSUME \A s \in Sockets : Stage(s)' = Stage(s)
  PROVE  Seen' = Seen
BY DEF Seen

\* Every step of the threads is one the contract allows, or not seen.
LEMMA ChainSeen ==
  ASSUME Chained, IInv, ReadersInv, ChainInv, [Next]_vars
  PROVE  UNCHANGED <<Seen, told>> \/ Promised!ContractNext
<1> USE ThreadKinds DEF At
<1>1. /\ conns \in 0..MaxStarts /\ spawned \in Nat /\ MaxStarts \in Nat
      /\ told \in [Sockets -> Nat] /\ sessions \in [Sockets -> Nat] /\ connected \in BOOLEAN
  BY BoundsAssumption DEF IInv, DataTypeOK
<1>2. ASSUME Unseen PROVE UNCHANGED <<Seen, told>>
  <2>1. \A s \in Sockets : Stage(s)' = Stage(s)
    BY <1>2 DEF Unseen, Stage
  <2> QED
    BY <1>2, <2>1, SeenOfNone DEF Unseen
<1>3. ASSUME NEW t \in Threads, Dial(t) PROVE Unseen \/ Promised!ContractNext
  <2>1. UNCHANGED <<connected, sessions, told>> /\ pc[t] = "dial"
    BY <1>3 DEF Dial, flags, history
  <2>2. Holds(t) /\ t \in Users \cup Receivers
    <3>1. Placed(t, pc[t], ret[t])
      BY DEF ReadersInv
    <3> QED
      BY <2>1, <3>1 DEF Placed, Holds, HoldsAt, Making, ConnectLabels
  <2>3. ~connected /\ conns = spawned
    BY <2>1, <2>2 DEF ChainInv, HolderKnows, KnowsOK, MakingOK, Making
  <2>4. CASE conns' = conns
    BY <2>1, <2>4 DEF Unseen
  <2>5. CASE conns < MaxStarts /\ conns' = conns + 1
    <3>1. PICK c : c = conns + 1
      OBVIOUS
    <3>2. c \in Sockets /\ c > spawned /\ c > conns
      BY <1>1, <2>3, <2>5, <3>1 DEF Sockets
    <3>3. sessions[c] = 0 /\ told[c] = 0
      BY <3>2 DEF ChainInv, Unheard
    <3>4. Stage(c) = "none" /\ Stage(c)' = "open"
      BY <1>1, <2>1, <2>3, <2>5, <3>1, <3>2, <3>3 DEF Stage
    <3>5. \A s \in Sockets : s # c => (s > conns' <=> s > conns) /\ s # conns'
      BY <1>1, <2>5, <3>1 DEF Sockets
    <3>6. \A s \in Sockets : s # c => Stage(s)' = Stage(s)
      BY <2>1, <2>3, <3>5 DEF Stage
    <3>7. Promised!Open(c)
      BY <2>1, <3>2, <3>4, <3>6, SeenOfOne DEF Promised!Open, Promised!Move, Seen
    <3> QED
      BY <3>2, <3>7 DEF Promised!ContractNext
  <2> QED
    BY <1>3, <2>4, <2>5 DEF Dial
<1>4. ASSUME NEW t \in Receivers \cup {Heartbeat}, NdConnected(t) \/ NdListeners(t)
      PROVE  /\ t \in Receivers /\ t \in Sockets /\ t = conns /\ told[t] = 0
             /\ pc[t] = "nd_listeners" => ~connected
             /\ \A s \in Sockets : s # t => s # conns
  <2>1. pc[t] \in {"nd_connected", "nd_listeners"} /\ t \in Threads
    BY <1>4 DEF NdConnected, NdListeners
  <2>2. Placed(t, pc[t], ret[t])
    BY <2>1 DEF ReadersInv
  <2>3. t \in Receivers
    BY <2>1, <2>2 DEF Placed, Chained
  <2>4. Holds(t)
    BY <2>1, <2>3 DEF Holds, HoldsAt, ConnectLabels
  <2>5. RunningOK(t)
    BY <2>1, <2>3, <2>4 DEF ChainInv, HolderKnows, KnowsOK, Making
  <2> QED
    BY <2>3, <2>5 DEF RunningOK, Receivers, Sockets
<1>5. ASSUME NEW t \in Receivers \cup {Heartbeat}, NdConnected(t)
      PROVE  UNCHANGED <<Seen, told>> \/ Promised!ContractNext
  <2>1. UNCHANGED <<conns, sessions, told>> /\ connected' = FALSE
    BY <1>5 DEF NdConnected, SetConnected, sockets, history
  <2>2. \A s \in Sockets : s # t => Stage(s)' = Stage(s)
    BY <1>4, <1>5, <2>1 DEF Stage
  <2>3. CASE connected /\ sessions[t] > 0
    <3>1. t \in Sockets /\ t = conns /\ sessions[t] # 0 /\ ~(t > conns)
      BY <1>1, <1>4, <1>5, <2>3
    <3>2. Stage(t) = "up" /\ Stage(t)' = "down"
      BY <2>1, <2>3, <3>1 DEF Stage
    <3>3. Promised!Drop(t)
      BY <2>1, <2>2, <3>1, <3>2, SeenOfOne DEF Promised!Drop, Promised!Move, Seen
    <3> QED
      BY <3>1, <3>3 DEF Promised!ContractNext
  <2>4. CASE ~(connected /\ sessions[t] > 0)
    <3>1. Stage(t)' = Stage(t)
      BY <2>1, <2>4 DEF Stage
    <3> QED
      BY <2>1, <2>2, <3>1, SeenOfNone
  <2> QED
    BY <2>3, <2>4
<1>6. ASSUME NEW t \in Receivers \cup {Heartbeat}, NdListeners(t) PROVE Promised!ContractNext
  <2>1. UNCHANGED <<conns, connected, sessions>> /\ pc[t] = "nd_listeners"
    BY <1>6 DEF NdListeners, flags, sockets
  <2>2. t \in Sockets /\ t = conns /\ told[t] = 0 /\ ~connected
    BY <1>4, <1>6, <2>1
  <2>3. told' = [told EXCEPT ![t] = told[t] + 1]
    BY <1>6, <2>2 DEF NdListeners
  <2>4. told'[t] = 1
    BY <1>1, <2>2, <2>3
  <2>5. Stage(t) \in {"open", "down"} /\ Stage(t)' = "down"
    <3>1. ~(t > conns)
      BY <1>1, <2>2
    <3> QED
      BY <2>1, <2>2, <2>4, <3>1 DEF Stage
  <2>6. \A s \in Sockets : s # t => Stage(s)' = Stage(s)
    BY <1>1, <2>1, <2>2, <2>3 DEF Stage
  <2>7. told[t] < 1 + MaxTimeouts
    BY <2>2, BoundsAssumption
  <2>8. Promised!Tell(t)
    BY <2>2, <2>3, <2>5, <2>6, <2>7, SeenOfOne DEF Promised!Tell, Seen
  <2> QED
    BY <2>2, <2>8 DEF Promised!ContractNext
<1>7. ASSUME NEW t \in Receivers, RConnected(t)
      PROVE  UNCHANGED <<Seen, told>> \/ Promised!ContractNext
  <2>1. /\ UNCHANGED <<conns, told>> /\ connected' = TRUE /\ pc[t] = "r_frame"
        /\ sessions' = [sessions EXCEPT ![reading[t]] = sessions[reading[t]] + 1]
    BY <1>7 DEF RConnected, SetConnected, sockets, history
  <2>2. RunningOK(t)
    <3>1. Holds(t)
      BY <2>1 DEF Holds, HoldsAt, ConnectLabels
    <3> QED
      BY <2>1, <3>1 DEF ChainInv, HolderKnows, KnowsOK, Making
  <2>3. /\ t \in Sockets /\ t = conns /\ told[t] = 0 /\ reading[t] = t /\ ~(t > conns)
        /\ sessions[t] > 0 => connected
    BY <1>1, <2>1, <2>2 DEF RunningOK, Receivers, Sockets, Looping
  <2>4. sessions'[t] > 0 /\ \A s \in Sockets : s # t => sessions'[s] = sessions[s] /\ s # conns
    BY <1>1, <2>1, <2>3
  <2>5. \A s \in Sockets : s # t => Stage(s)' = Stage(s)
    BY <2>1, <2>4 DEF Stage
  <2>6. Stage(t)' = "up"
    BY <2>1, <2>3, <2>4 DEF Stage
  <2>7. CASE sessions[t] > 0
    <3>1. Stage(t) = "up"
      BY <2>3, <2>7 DEF Stage
    <3> QED
      BY <2>1, <2>5, <2>6, <3>1, SeenOfNone
  <2>8. CASE ~(sessions[t] > 0)
    <3>1. sessions[t] = 0
      BY <1>1, <2>3, <2>8
    <3>2. Stage(t) = "open"
      BY <2>3, <3>1 DEF Stage
    <3>3. Promised!Establish(t)
      BY <2>1, <2>3, <2>5, <2>6, <3>2, SeenOfOne DEF Promised!Establish, Promised!Move, Seen
    <3> QED
      BY <2>3, <3>3 DEF Promised!ContractNext
  <2> QED
    BY <2>7, <2>8
<1> QED
  BY UnseenSteps, NoneDisconnects, <1>2, <1>3, <1>5, <1>6, <1>7

\* What an application that connects again from its on_disconnected sees of each
\* of its connections is what ConnectionContract allows, if the server or the
\* network ends them: one session at most, one call of on_disconnected at most and
\* only of a session that is not up, and no session after it.
THEOREM ContractKeptAgain == Reuse = "callback" /\ Quiet /\ Spec => ImplementsSafety
<1> SUFFICES ASSUME Chained PROVE Spec => ImplementsSafety
  BY DEF Chained
<1>1. OneAtATime
  BY DEF Chained, OneAtATime
<1>2. Init => ChainInv
  BY ThreadKinds
  DEF Init, ChainInv, HolderKnows, Unheard, Holds, HoldsAt, Making
<1>3. IInv /\ ReadersInv /\ ReadersInv' /\ ChainInv /\ [Next]_vars => ChainInv'
  BY ChainStep
<1>4. IInv /\ ReadersInv /\ ChainInv /\ [Next]_vars
        => [Promised!ContractNext]_(Promised!contractVars)
  BY ChainSeen DEF Promised!contractVars, Seen
<1> QED
  BY <1>1, <1>2, <1>3, <1>4, SeenFirst, ReadersInvariance, Invariance, PTL
  DEF Spec, ImplementsSafety, Promised!ContractSafety

-----------------------------------------------------------------------------
(***************************************************************************)
(* The application that connects once (Reuse = "no"): the life and the end *)
(* of its connection, for any number of application threads that           *)
(* disconnect, of heartbeat timeouts and of raising callbacks.             *)
(*                                                                         *)
(* One connection means one socket and one receiver, and both have the     *)
(* number 1; starts counts to 1.  What ends the connection is the receiver *)
(* and the heartbeat thread, which may be anywhere in disconnect_socket()  *)
(* and notify() at the same time.                                          *)
(***************************************************************************)
DiscLabels == {"disc_check", "disc_receipt", "disc_transmit", "disc_send"}
StopLabels == {"stop", "stop_waiting"}
DsLabels ==
  {"ds_running", "ds_shutdown?", "ds_shutdown", "ds_close?", "ds_close", "ds_null", "ds_notify?"}
NdLabels == {"nd_flag", "nd_connected", "nd_listeners", "nd_heartbeat"}
TellingLabels == {"nd_flag", "nd_connected", "nd_listeners"}
\* connect(), until the CONNECT frame is sent
Unsent == {"start", "attempt", "dial", "verify", "spawn", "send_connect"}
\* the receiver before it has processed CONNECTED, and after its loop
Early == {"unborn", "r_outer", "r_inner", "r_recv", "r_frame"}
Finally == {"r_exit", "r_notify?", "r_wake", "r_reset", "r_done", "r_dead"}

\* the heartbeat thread, and the receiver
Hb == pc[Heartbeat]
Rcv == pc[1]
Back == ret[1]

\* which thread runs which method, and where it returns to
UserRoles ==
  \A u \in Users :
    /\ pc[u] \in UserLabels \cup ConnectLabels \cup DiscLabels \cup StopLabels
    /\ pc[u] \in ConnectLabels => ret[u] \in {"wait", "idle"}
    /\ pc[u] \in DiscLabels => ret[u] \in {"stop", "idle"}
ThreadRoles ==
  /\ Hb \in HeartbeatLabels \cup DsLabels \cup NdLabels \cup StopLabels
  /\ Hb \in {"hb_timeout"} \cup DsLabels \cup NdLabels => ret[Heartbeat] = "stop"
  /\ Rcv \in ReceiverLabels \cup DsLabels \cup NdLabels
  /\ Rcv \in DsLabels => Back = "r_clear"
  /\ Rcv \in NdLabels => Back \in {"r_clear", "r_wake"}
  /\ Rcv \in {"cl_close", "cl_null"} => Back \in {"r_outer", "r_exit"}
  /\ Back = "r_wake" => Rcv \in NdLabels \cup {"r_wake", "r_reset", "r_done"}

\* one call of connect(), one socket and one receiver
OneConnection ==
  /\ starts <= 1 /\ conns <= starts /\ spawned <= conns
  /\ \A r \in Receivers : pc[r] = "unborn" <=> r > spawned
  /\ socket \in {None, 1} /\ (conns = 0 => socket = None) /\ (spawned < conns => socket = 1)
  /\ sessions[1] # 0 => spawned = 1
  /\ reading[1] \in {None, 1} /\ (frames[1] # <<>> => reading[1] = 1)
  /\ \A s \in Sockets : s # 1 => sessions[s] = 0 /\ told[s] = 0

\* one thread calls connect(), and before it is connected nobody sends DISCONNECT
OneCaller ==
  /\ starts = 0 => \A u \in Users : pc[u] \notin ConnectLabels
  /\ \A u, v \in Users : pc[u] \in ConnectLabels /\ pc[v] \in ConnectLabels => u = v
  /\ \A u \in Users :
       /\ pc[u] \in {"start", "attempt", "dial"} => conns = 0
       /\ pc[u] \in {"verify", "spawn"} => spawned = 0
       /\ pc[u] = "spawn" => conns = 1
       /\ pc[u] = "send_connect" => spawned = 1
       /\ pc[u] \in {"attempt", "dial", "verify", "spawn"} => running
       /\ pc[u] \in {"disc_receipt", "disc_transmit", "disc_send"} => sessions[1] # 0
       /\ pc[u] \in Unsent => sessions[1] = 0

\* until CONNECTED is processed one frame at most is under way; afterwards
\* there is no second CONNECTED
Lacks(q, cmd) == \A i \in 1..Len(q) : q[i].cmd # cmd
Sending == spawned = 0 \/ \E u \in Users : pc[u] \in Unsent
OneHandshake ==
  /\ sessions[1] = 0 =>
       /\ Len(toServer[1]) <= 1 /\ Len(toClient[1]) <= 1 /\ Len(frames[1]) <= 1
       /\ toServer[1] # <<>> => toClient[1] = <<>> /\ frames[1] = <<>> /\ ~Sending
       /\ toClient[1] # <<>> => frames[1] = <<>> /\ ~Sending
       /\ frames[1] # <<>> => ~Sending
  /\ sessions[1] # 0 =>
       /\ Lacks(toServer[1], "CONNECT") /\ Lacks(toClient[1], "CONNECTED")
       /\ Lacks(frames[1], "CONNECTED")

\* until then nothing but the receiver can end the connection
BeforeSession ==
  sessions[1] = 0 =>
    /\ ~connected /\ ~hbRunning /\ Hb = "hb_loop" /\ receipts = {}
    /\ Rcv \in Early \cup {"r_lost", "cl_close", "cl_null"} \cup Finally \cup NdLabels
    /\ Rcv \in Early => told[1] = 0
    /\ Rcv \in Early \ {"unborn"} => running
    /\ Rcv \in {"cl_close", "cl_null"} => Back = "r_exit"
    /\ Rcv \in NdLabels => Back = "r_wake"

\* whoever forgets the socket has closed it, and the receiver does at the latest
Released ==
  /\ conns = 1 /\ socket = None => 1 \in closed
  /\ Hb = "ds_null" \/ Rcv \in {"ds_null", "cl_null"} => socket = None \/ socket \in closed
  /\ Rcv \in Finally \/ (Rcv \in NdLabels /\ Back = "r_wake") => socket = None
  /\ Rcv = "r_outer" => (running /\ sessions[1] = 0) \/ socket = None

\* who has told the listeners, and who is going to
HeartbeatOwes ==
  IF Hb \in {"hb_timeout"} \cup DsLabels \cup TellingLabels THEN 1 ELSE 0
ReceiverOwes ==
  IF Rcv \in TellingLabels \/ (~notified /\ Rcv \notin {"r_wake", "r_reset", "r_done", "r_dead"})
  THEN 1 ELSE 0
Told ==
  /\ Hb = "nd_listeners" \/ Rcv = "nd_listeners" \/ told[1] > 0 => ~connected
  /\ notified \/ Rcv \in {"r_wake", "r_reset", "r_done"} =>
       told[1] > 0 \/ Hb \in TellingLabels \/ Rcv \in TellingLabels
  /\ Rcv = "nd_heartbeat" => told[1] > 0
  /\ Rcv \in {"nd_connected", "nd_listeners", "nd_heartbeat"} => notified
  /\ told[1] + HeartbeatOwes + ReceiverOwes <= 1 + timeouts

AppInv == UserRoles /\ OneCaller
EndInv == ThreadRoles /\ BeforeSession /\ Released /\ Told
SInv == OneConnection /\ AppInv /\ OneHandshake /\ EndInv

-----------------------------------------------------------------------------
(* Facts about the state *)

\* The first receiver is a thread and the first socket a socket.
LEMMA First ==
  /\ 1 \in Receivers /\ 1 \in Sockets /\ 1 \in Threads /\ 1 \notin Users /\ 1 # Heartbeat
  /\ None # 1 /\ \A r \in Receivers : r \in Nat /\ (r > 1 <=> r # 1)
BY ThreadsAssumption, BoundsAssumption DEF Threads, Receivers, Sockets

\* What the types say of the control state and the counters.
LEMMA Typed ==
  ASSUME IInv
  PROVE  /\ pc \in [Threads -> Labels] /\ ret \in [Threads -> ReturnLabels]
         /\ frames \in [Receivers -> Seq(ServerFrames)]
         /\ toServer \in [Sockets -> Seq(ClientFrames)]
         /\ toClient \in [Sockets -> Seq(ServerFrames)]
         /\ told \in [Sockets -> Nat] /\ sessions \in [Sockets -> Nat]
         /\ conns \in Nat /\ spawned \in Nat /\ starts \in Nat /\ timeouts \in Nat
BY BoundsAssumption DEF IInv, ControlOK, ReturnsOK, DataTypeOK

\* There is nothing to count but to one.
LEMMA Numbers ==
  ASSUME IInv, OneConnection
  PROVE  /\ starts \in {0, 1} /\ conns \in {0, 1} /\ spawned \in {0, 1}
         /\ (starts = 0 => conns = 0) /\ (conns = 0 => spawned = 0)
         /\ (spawned = 0 <=> Rcv = "unborn")
         /\ \A r \in Receivers : r # 1 => pc[r] = "unborn"
<1>1. starts \in Nat /\ conns \in Nat /\ spawned \in Nat
  BY Typed
<1>2. starts \in {0, 1} /\ conns \in {0, 1} /\ spawned \in {0, 1}
  BY <1>1 DEF OneConnection
<1> QED
  BY <1>2, First DEF OneConnection, Rcv

\* The length and the elements of what is left of a sequence, ...
LEMMA ShorterSeq ==
  ASSUME NEW S, NEW q \in Seq(S), q # <<>>
  PROVE  /\ Tail(q) \in Seq(S) /\ Len(q) \in Nat \ {0} /\ Len(Tail(q)) = Len(q) - 1
         /\ Head(q) = q[1] /\ Head(q) \in S
         /\ \A cmd : Lacks(q, cmd) => Lacks(Tail(q), cmd) /\ Head(q).cmd # cmd
<1>1. /\ Tail(q) \in Seq(S) /\ Len(q) \in Nat \ {0} /\ Len(Tail(q)) = Len(q) - 1
      /\ Head(q) = q[1] /\ Head(q) \in S /\ \A i \in 1..Len(Tail(q)) : Tail(q)[i] = q[i + 1]
  BY HeadTailProperties, EmptySeq
<1> QED
  BY <1>1 DEF Lacks
\* ... of a part of it, ...
LEMMA PartSeq ==
  ASSUME NEW S, NEW q \in Seq(S), NEW m \in Nat \ {0}, NEW n \in 0..Len(q), m <= n + 1
  PROVE  /\ SubSeq(q, m, n) \in Seq(S) /\ Len(SubSeq(q, m, n)) = n - m + 1
         /\ \A cmd : Lacks(q, cmd) => Lacks(SubSeq(q, m, n), cmd)
<1>1. Len(q) \in Nat
  BY LenProperties
<1>2. /\ SubSeq(q, m, n) \in Seq(S) /\ Len(SubSeq(q, m, n)) = n - m + 1
      /\ \A i \in 1..(n - m + 1) : SubSeq(q, m, n)[i] = q[m + i - 1]
  BY <1>1, SubSeqProperties
<1>3. ASSUME NEW cmd, Lacks(q, cmd) PROVE Lacks(SubSeq(q, m, n), cmd)
  <2>1. ASSUME NEW i \in 1..(n - m + 1) PROVE SubSeq(q, m, n)[i].cmd # cmd
    <3>1. m + i - 1 \in 1..Len(q)
      BY <1>1
    <3> QED
      BY <1>2, <1>3, <3>1 DEF Lacks
  <2> QED
    BY <1>2, <2>1 DEF Lacks
<1> QED
  BY <1>2, <1>3
\* ... and of a sequence that grows.
LEMMA LongerSeq ==
  ASSUME NEW S, NEW q \in Seq(S), NEW e \in S
  PROVE  /\ Append(q, e) \in Seq(S) /\ Len(q) \in Nat /\ Len(Append(q, e)) = Len(q) + 1
         /\ \A cmd : Lacks(q, cmd) /\ e.cmd # cmd => Lacks(Append(q, e), cmd)
<1>1. /\ Append(q, e) \in Seq(S) /\ Len(q) \in Nat /\ Len(Append(q, e)) = Len(q) + 1
      /\ \A i \in 1..Len(q) : Append(q, e)[i] = q[i]
      /\ Append(q, e)[Len(q) + 1] = e
  BY AppendProperties, LenProperties
<1> QED
  BY <1>1 DEF Lacks

\* A sequence of one element at most.
LEMMA SingleSeq ==
  ASSUME NEW S, NEW q \in Seq(S), Len(q) <= 1
  PROVE  /\ q # <<>> => Len(q) = 1 /\ Len(Tail(q)) = 0
         /\ \A n \in 1..Len(q) : q # <<>> /\ n = 1 /\ Len(q) - n = 0
<1>1. Len(q) \in Nat
  BY LenProperties
<1>2. ASSUME q # <<>> PROVE Len(q) = 1 /\ Len(Tail(q)) = 0
  <2>1. Len(q) \in Nat \ {0} /\ Len(Tail(q)) = Len(q) - 1
    BY <1>2, ShorterSeq
  <2> QED
    BY <2>1
<1>3. ASSUME NEW n \in 1..Len(q) PROVE q # <<>> /\ n = 1 /\ Len(q) - n = 0
  BY <1>1, EmptySeq
<1> QED
  BY <1>2, <1>3

-----------------------------------------------------------------------------
(* What one thread moves, and what it leaves alone *)

Moves(t, l, n) == pc' = [pc EXCEPT ![t] = l] /\ ret' = [ret EXCEPT ![t] = n]
\* A step that moves t moves nobody else.
LEMMA OneMoves ==
  ASSUME IInv, NEW t \in Threads, NEW l, NEW n, Moves(t, l, n)
  PROVE  /\ pc'[t] = l /\ ret'[t] = n
         /\ \A x \in Threads : x # t => pc'[x] = pc[x] /\ ret'[x] = ret[x]
BY Typed DEF Moves

UsersStay == \A u \in Users : pc'[u] = pc[u] /\ ret'[u] = ret[u]
OthersStay == UNCHANGED <<Hb, Rcv, Back>> /\ ret'[Heartbeat] = ret[Heartbeat]

\* user u has gone to l, to return to n, and nobody else has moved
UserAt(u, l, n) ==
  /\ OthersStay /\ \A r \in Receivers : pc'[r] = pc[r]
  /\ pc'[u] = l /\ ret'[u] = n
  /\ \A v \in Users : v # u => pc'[v] = pc[v] /\ ret'[v] = ret[v]
\* A step that moves a user, ...
LEMMA UserMoves ==
  ASSUME IInv, NEW u \in Users, NEW l, NEW n, Moves(u, l, n)
  PROVE  UserAt(u, l, n)
BY OneMoves, ThreadKinds, First DEF UserAt, OthersStay, Hb, Rcv, Back
\* ... within the method it is in, ...
LEMMA UserGoes ==
  ASSUME IInv, NEW u \in Users, NEW l, Goto(u, l)
  PROVE  UserAt(u, l, ret[u])
<1>1. Moves(u, l, ret[u])
  BY Typed, ThreadKinds DEF Goto, Moves
<1> QED
  BY <1>1, UserMoves
\* ... or out of all of them.
LEMMA UserRaises ==
  ASSUME IInv, NEW u \in Users, Raise(u)
  PROVE  UserAt(u, "idle", "r_exit") /\ UNCHANGED chunk
<1>1. Moves(u, "idle", "r_exit") /\ UNCHANGED chunk
  BY Typed, ThreadKinds DEF Raise, Moves, chunk
<1> QED
  BY <1>1, UserMoves

\* the heartbeat thread has gone to l, to return to n, and nobody else has moved
HbAt(l, n) ==
  /\ Hb' = l /\ ret'[Heartbeat] = n
  /\ UNCHANGED <<Rcv, Back>> /\ UsersStay /\ \A r \in Receivers : pc'[r] = pc[r]
\* A step that moves the heartbeat thread, ...
LEMMA HbMoves ==
  ASSUME IInv, NEW l, NEW n, Moves(Heartbeat, l, n)
  PROVE  HbAt(l, n)
BY OneMoves, ThreadKinds, First DEF HbAt, UsersStay, Hb, Rcv, Back
\* ... within the method it is in, ...
LEMMA HbGoes ==
  ASSUME IInv, NEW l, Goto(Heartbeat, l)
  PROVE  HbAt(l, ret[Heartbeat])
<1>1. Moves(Heartbeat, l, ret[Heartbeat])
  BY Typed, ThreadKinds DEF Goto, Moves
<1> QED
  BY <1>1, HbMoves
\* ... or to its end.
LEMMA HbRaises ==
  ASSUME IInv, Raise(Heartbeat)
  PROVE  HbAt("hb_dead", "r_exit") /\ UNCHANGED chunk
<1>1. Moves(Heartbeat, "hb_dead", "r_exit") /\ UNCHANGED chunk
  BY Typed, ThreadKinds DEF Raise, Moves, chunk
<1> QED
  BY <1>1, HbMoves

\* the receiver has gone to l, to return to n, and nobody else has moved
RcvAt(l, n) ==
  /\ Rcv' = l /\ Back' = n
  /\ UNCHANGED Hb /\ ret'[Heartbeat] = ret[Heartbeat]
  /\ UsersStay /\ \A r \in Receivers : r # 1 => pc'[r] = pc[r]
\* A step that moves the receiver, ...
LEMMA RcvMoves ==
  ASSUME IInv, NEW l, NEW n, Moves(1, l, n)
  PROVE  RcvAt(l, n)
BY OneMoves, ThreadKinds, First DEF RcvAt, UsersStay, Hb, Rcv, Back
\* ... within the method it is in, ...
LEMMA RcvGoes ==
  ASSUME IInv, NEW l, Goto(1, l)
  PROVE  RcvAt(l, Back)
<1>1. Moves(1, l, Back)
  BY Typed, First DEF Goto, Moves, Back
<1> QED
  BY <1>1, RcvMoves
\* ... or out of it, without the frames it held.
LEMMA RcvRaises ==
  ASSUME IInv, Raise(1)
  PROVE  /\ RcvAt(IF Back = "r_wake" THEN "r_done" ELSE "cl_close", "r_exit")
         /\ frames'[1] = <<>> /\ UNCHANGED reading
<1>1. /\ Moves(1, IF Back = "r_wake" THEN "r_done" ELSE "cl_close", "r_exit")
      /\ frames'[1] = <<>> /\ UNCHANGED reading
  BY Typed, First, ThreadKinds DEF Raise, Moves, Back
<1> QED
  BY <1>1, RcvMoves

-----------------------------------------------------------------------------
(* Parts of the invariant that a step does not touch *)

CountersStay == UNCHANGED <<starts, conns, spawned, sessions>>

\* The application's part, in a step of another thread.
LEMMA AppStays ==
  ASSUME IInv, OneConnection, AppInv, UsersStay, CountersStay, running' = running \/ spawned = 1
  PROVE  AppInv'
BY Numbers DEF UsersStay, CountersStay, AppInv, UserRoles, OneCaller, ConnectLabels

\* The counters' part, in a step that at most moves the receiver on.
LEMMA CountersKept ==
  ASSUME IInv, OneConnection, CountersStay,
         \A r \in Receivers : pc'[r] = pc[r] \/ (r = 1 /\ pc[r] # "unborn" /\ pc'[r] # "unborn"),
         socket' = socket \/ (socket' = None /\ spawned = conns), 
         reading'[1] \in {None, 1}, frames'[1] # <<>> => reading'[1] = 1,
         \A s \in Sockets : s # 1 => told'[s] = told[s]
  PROVE  OneConnection'
BY Numbers, First DEF CountersStay, OneConnection

\* The frames' part, in a step that at most takes frames away.
FewerFrames(q, p) ==
  (Len(p) <= 1 => Len(q) <= 1) /\ (p = <<>> => q = <<>>) /\ \A cmd : Lacks(p, cmd) => Lacks(q, cmd)
\* Fewer frames do no harm, ...
LEMMA FramesKept ==
  ASSUME OneHandshake, UNCHANGED sessions, Sending' => Sending,
         FewerFrames(toServer'[1], toServer[1]), FewerFrames(toClient'[1], toClient[1]),
         FewerFrames(frames'[1], frames[1])
  PROVE  OneHandshake'
BY DEF OneHandshake, FewerFrames
\* ... and the same frames do none.
LEMMA FramesStay ==
  ASSUME OneHandshake, UNCHANGED <<sessions, toServer, toClient, frames>>,
         Sending' => Sending
  PROVE  OneHandshake'
BY DEF OneHandshake
\* A step of another thread does not make an application thread connect.
LEMMA NobodySends ==
  ASSUME UsersStay, spawned' = spawned
  PROVE  Sending' => Sending
BY DEF UsersStay, Sending

\* The rest, in a step that only moves application threads on.
LEMMA EndStays ==
  ASSUME EndInv, OthersStay,
         UNCHANGED <<connected, notified, hbRunning, conns, socket, closed, told, sessions,
                     timeouts>>,
         running' \/ running' = running, sessions[1] = 0 => UNCHANGED receipts
  PROVE  EndInv'
BY DEF OthersStay, EndInv, ThreadRoles, BeforeSession, Released, Told, HeartbeatOwes, ReceiverOwes

-----------------------------------------------------------------------------
(* The steps of an application thread *)

\* connect()
LEMMA ConnectingKeeps ==
  ASSUME Reuse = "no", IInv, SInv, NEW t \in Users, Connecting(t)
  PROVE  SInv'
<1> USE DEF At, SInv
<1>0. UserRoles /\ OneCaller /\ BeforeSession /\ Released
  BY DEF AppInv, EndInv
<1>1. CASE Start(t)
  <2>1. UserAt(t, "attempt", ret[t])
    BY <1>0, <1>1, UserGoes DEF Start
  <2>2. OneConnection'
    BY <1>0, <1>1, <2>1, CountersKept
    DEF UserAt, Start, CountersStay, OneConnection, history, sockets, chunk
  <2>3. UserRoles'
    BY <1>0, <1>1, <2>1
    DEF UserAt, Start, UserRoles, UserLabels, ConnectLabels, DiscLabels, StopLabels
  <2>4. OneCaller'
    BY <1>0, <1>1, <2>1, Numbers
    DEF UserAt, Start, OneCaller, OneConnection, BeforeSession, ConnectLabels, Unsent, sockets,
        history
  <2>5. OneHandshake'
    BY <1>0, <1>1, <2>1, FramesStay DEF UserAt, Start, Sending, Unsent, network, chunk, history
  <2>6. EndInv'
    BY <1>0, <1>1, <2>1, EndStays DEF UserAt, Start, OneCaller, rcpts, sockets, history
  <2> QED
    BY <2>2, <2>3, <2>4, <2>5, <2>6 DEF AppInv
<1>2. CASE Attempt(t)
  <2>1. (running /\ UserAt(t, "dial", ret[t])) \/ UserAt(t, "verify", ret[t])
    BY <1>0, <1>2, UserGoes DEF Attempt
  <2>2. OneConnection'
    BY <1>0, <1>2, <2>1, CountersKept
    DEF UserAt, Attempt, CountersStay, OneConnection, history, sockets, chunk
  <2>3. UserRoles'
    BY <1>0, <1>2, <2>1
    DEF UserAt, Attempt, UserRoles, UserLabels, ConnectLabels, DiscLabels, StopLabels
  <2>4. OneCaller'
    BY <1>0, <1>2, <2>1, Numbers
    DEF UserAt, Attempt, OneCaller, OneConnection, BeforeSession, ConnectLabels, Unsent, sockets,
        history
  <2>5. OneHandshake'
    BY <1>0, <1>2, <2>1, FramesStay DEF UserAt, Attempt, Sending, Unsent, network, chunk, history
  <2>6. EndInv'
    BY <1>0, <1>2, <2>1, EndStays DEF UserAt, Attempt, OneCaller, rcpts, sockets, history
  <2> QED
    BY <2>2, <2>3, <2>4, <2>5, <2>6 DEF AppInv
<1>3. CASE Dial(t)
  <2>1. UserAt(t, "verify", ret[t])
    BY <1>0, <1>3, UserGoes DEF Dial
  <2>2. OneConnection'
    BY <1>0, <1>3, <2>1, Numbers, First
    DEF UserAt, Dial, OneConnection, OneCaller, ConnectLabels, history, chunk
  <2>3. UserRoles'
    BY <1>0, <1>3, <2>1
    DEF UserAt, Dial, UserRoles, UserLabels, ConnectLabels, DiscLabels, StopLabels
  <2>4. OneCaller'
    BY <1>0, <1>3, <2>1, Numbers
    DEF UserAt, Dial, OneCaller, OneConnection, BeforeSession, ConnectLabels, Unsent, flags, history
  <2>5. OneHandshake'
    BY <1>0, <1>3, <2>1, FramesStay DEF UserAt, Dial, Sending, Unsent, network, chunk, history
  <2>6. EndInv'
    <3>1. sessions[1] = 0 /\ conns = 0 /\ Rcv = "unborn" /\ Hb = "hb_loop"
      <4>1. sessions[1] = 0 /\ conns = 0
        BY <1>0, <1>3 DEF Dial, OneCaller, Unsent
      <4> QED
        BY <1>0, <4>1, Numbers DEF BeforeSession
    <3>2. ThreadRoles' /\ BeforeSession' /\ Told'
      BY <1>0, <1>3, <2>1
      DEF UserAt, OthersStay, Dial, EndInv, ThreadRoles, BeforeSession, Told, HeartbeatOwes,
          ReceiverOwes, flags, rcpts, history
    <3>3. Released'
      BY <1>0, <1>3, <2>1, <3>1, First DEF UserAt, OthersStay, Dial, Released, Finally, NdLabels
    <3> QED
      BY <3>2, <3>3 DEF EndInv
  <2> QED
    BY <2>2, <2>3, <2>4, <2>5, <2>6 DEF AppInv
<1>4. CASE Verify(t)
  <2>1. \/ UserAt(t, "idle", "r_exit") /\ UNCHANGED chunk
        \/ socket # None /\ UserAt(t, "spawn", ret[t]) /\ UNCHANGED chunk
    BY <1>0, <1>4, UserGoes, UserRaises DEF Verify
  <2>2. OneConnection'
    BY <1>0, <1>4, <2>1, CountersKept
    DEF UserAt, Verify, CountersStay, OneConnection, history, sockets, chunk
  <2>3. UserRoles'
    BY <1>0, <1>4, <2>1
    DEF UserAt, Verify, UserRoles, UserLabels, ConnectLabels, DiscLabels, StopLabels
  <2>4. OneCaller'
    BY <1>0, <1>4, <2>1, Numbers
    DEF UserAt, Verify, OneCaller, OneConnection, BeforeSession, ConnectLabels, Unsent, flags,
        sockets, history
  <2>5. OneHandshake'
    BY <1>0, <1>4, <2>1, FramesStay DEF UserAt, Verify, Sending, Unsent, network, chunk, history
  <2>6. EndInv'
    BY <1>0, <1>4, <2>1, EndStays DEF UserAt, Verify, OneCaller, flags, rcpts, sockets, history
  <2> QED
    BY <2>2, <2>3, <2>4, <2>5, <2>6 DEF AppInv
<1>5. CASE SendConnect(t)
  <2>1. /\ UserAt(t, "idle", "r_exit") \/ (ret[t] \in {"wait", "idle"} /\ UserAt(t, ret[t], ret[t]))
        /\ UNCHANGED chunk
    BY <1>0, <1>5, UserGoes, UserRaises DEF SendConnect, Send, UserRoles, ConnectLabels, DiscLabels
  <2>2. OneConnection'
    BY <1>0, <1>5, <2>1, CountersKept
    DEF UserAt, SendConnect, Send, CountersStay, OneConnection, history, sockets, chunk
  <2>3. UserRoles'
    BY <1>0, <1>5, <2>1
    DEF UserAt, SendConnect, Send, UserRoles, UserLabels, ConnectLabels, DiscLabels, StopLabels
  <2>4. OneCaller'
    BY <1>0, <1>5, <2>1, Numbers
    DEF UserAt, SendConnect, Send, OneCaller, OneConnection, BeforeSession, ConnectLabels, Unsent,
        flags, sockets, history
  <2>5. OneHandshake'
    <3>1. /\ sessions[1] = 0 /\ sessions'[1] = 0 /\ toServer[1] = <<>> /\ toClient'[1] = <<>>
          /\ frames'[1] = <<>>
          /\ spawned' = 1
      BY <1>0, <1>5, <2>1
      DEF SendConnect, Send, OneCaller, Unsent, OneHandshake, Sending, history, chunk
    <3>2. ~Sending'
      <4>1. \A v \in Users : v # t => pc[v] \notin ConnectLabels
        BY <1>0, <1>5 DEF SendConnect, OneCaller, ConnectLabels
      <4> QED
        BY <3>1, <4>1, <2>1 DEF UserAt, Sending, Unsent, ConnectLabels
    <3>3. Len(toServer'[1]) <= 1
      <4>1. toServer'[1] \in {toServer[1], Append(toServer[1], Frame("CONNECT", None))}
        BY <1>0, <1>5, Typed, First DEF SendConnect, Send
      <4>2. toServer[1] \in Seq(ClientFrames) /\ Len(toServer[1]) = 0
            /\ Frame("CONNECT", None) \in ClientFrames
        BY <3>1, Typed, First DEF ClientFrames
      <4>3. Len(Append(toServer[1], Frame("CONNECT", None))) = 1
        BY <4>2, LongerSeq
      <4> QED
        BY <4>1, <4>2, <4>3
    <3> QED
      BY <3>1, <3>2, <3>3 DEF OneHandshake
  <2>6. EndInv'
    BY <1>0, <1>5, <2>1, EndStays
    DEF UserAt, SendConnect, Send, OneCaller, flags, rcpts, sockets, history
  <2> QED
    BY <2>2, <2>3, <2>4, <2>5, <2>6 DEF AppInv
<1>6. CASE WaitForConnection(t)
  <2>1. UserAt(t, "waiting", ret[t]) \/ UserAt(t, "wait_test", ret[t])
    BY <1>0, <1>6, UserGoes DEF WaitForConnection
  <2>2. OneConnection'
    BY <1>0, <1>6, <2>1, CountersKept
    DEF UserAt, WaitForConnection, CountersStay, OneConnection, history, sockets, chunk
  <2>3. UserRoles'
    BY <1>0, <1>6, <2>1
    DEF UserAt, WaitForConnection, UserRoles, UserLabels, ConnectLabels, DiscLabels, StopLabels
  <2>4. OneCaller'
    BY <1>0, <1>6, <2>1, Numbers
    DEF UserAt, WaitForConnection, OneCaller, OneConnection, BeforeSession, ConnectLabels, Unsent,
        flags, sockets, history
  <2>5. OneHandshake'
    BY <1>0, <1>6, <2>1, FramesStay
    DEF UserAt, WaitForConnection, Sending, Unsent, network, chunk, history
  <2>6. EndInv'
    BY <1>0, <1>6, <2>1, EndStays
    DEF UserAt, WaitForConnection, OneCaller, flags, rcpts, sockets, history
  <2> QED
    BY <2>2, <2>3, <2>4, <2>5, <2>6 DEF AppInv
<1>7. CASE WakeFromConnectWait(t)
  <2>1. UserAt(t, "wait", ret[t])
    BY <1>0, <1>7, UserGoes DEF WakeFromConnectWait
  <2>2. OneConnection'
    BY <1>0, <1>7, <2>1, CountersKept
    DEF UserAt, WakeFromConnectWait, CountersStay, OneConnection, history, sockets, chunk
  <2>3. UserRoles'
    BY <1>0, <1>7, <2>1
    DEF UserAt, WakeFromConnectWait, UserRoles, UserLabels, ConnectLabels, DiscLabels, StopLabels
  <2>4. OneCaller'
    BY <1>0, <1>7, <2>1, Numbers
    DEF UserAt, WakeFromConnectWait, OneCaller, OneConnection, BeforeSession, ConnectLabels, Unsent,
        flags, sockets, history
  <2>5. OneHandshake'
    BY <1>0, <1>7, <2>1, FramesStay
    DEF UserAt, WakeFromConnectWait, Sending, Unsent, network, chunk, history
  <2>6. EndInv'
    BY <1>0, <1>7, <2>1, EndStays
    DEF UserAt, WakeFromConnectWait, OneCaller, flags, rcpts, sockets, history
  <2> QED
    BY <2>2, <2>3, <2>4, <2>5, <2>6 DEF AppInv
<1>8. CASE WaitTest(t)
  <2>1. (UserAt(t, "idle", ret[t]) \/ UserAt(t, "idle", "r_exit")) /\ UNCHANGED chunk
    BY <1>0, <1>8, UserGoes, UserRaises DEF WaitTest, AfterConnect
  <2>2. OneConnection'
    BY <1>0, <1>8, <2>1, CountersKept
    DEF UserAt, WaitTest, AfterConnect, CountersStay, OneConnection, history, sockets, chunk
  <2>3. UserRoles'
    BY <1>0, <1>8, <2>1
    DEF UserAt, WaitTest, AfterConnect, UserRoles, UserLabels, ConnectLabels, DiscLabels, StopLabels
  <2>4. OneCaller'
    BY <1>0, <1>8, <2>1, Numbers
    DEF UserAt, WaitTest, AfterConnect, OneCaller, OneConnection, BeforeSession, ConnectLabels,
        Unsent, flags, sockets, history
  <2>5. OneHandshake'
    BY <1>0, <1>8, <2>1, FramesStay
    DEF UserAt, WaitTest, AfterConnect, Sending, Unsent, network, chunk, history
  <2>6. EndInv'
    BY <1>0, <1>8, <2>1, EndStays
    DEF UserAt, WaitTest, AfterConnect, OneCaller, flags, rcpts, sockets, history
  <2> QED
    BY <2>2, <2>3, <2>4, <2>5, <2>6 DEF AppInv
<1>9. CASE Spawn(t)
  <2>1. /\ conns = 1 /\ spawned = 0 /\ spawned' = 1 /\ Rcv = "unborn" /\ running /\ sessions[1] = 0
        /\ socket = 1 /\ Hb = "hb_loop" /\ Sending
    <3>1. conns = 1 /\ spawned = 0 /\ running
      BY <1>0, <1>9 DEF Spawn, OneCaller
    <3>2. sessions[1] = 0 /\ Sending
      BY <1>0, <1>9 DEF Spawn, OneCaller, Unsent, Sending
    <3> QED
      BY <1>0, <1>9, <3>1, <3>2, Numbers DEF Spawn, OneConnection, BeforeSession
  <2>2. /\ UNCHANGED <<Hb, ret>> /\ Rcv' = "r_outer" /\ UNCHANGED Back
        /\ pc'[t] = "send_connect"
        /\ \A v \in Users : v # t => pc'[v] = pc[v]
        /\ \A r \in Receivers : r # 1 => pc'[r] = pc[r]
    BY <1>9, <2>1, Typed, ThreadKinds, First DEF Spawn, Hb, Rcv, Back
  <2>3. OneConnection'
    BY <1>9, <2>1, <2>2, Numbers, First DEF Spawn, OneConnection, Rcv, sockets, history, chunk
  <2>4. UserRoles'
    BY <1>0, <1>9, <2>2 DEF Spawn, UserRoles, UserLabels, ConnectLabels, DiscLabels, StopLabels
  <2>5. OneCaller'
    <3>1. \A v \in Users : v # t => pc[v] \notin ConnectLabels /\ pc'[v] = pc[v]
      BY <1>0, <1>9, <2>2 DEF Spawn, OneCaller, ConnectLabels
    <3>2. \A v \in Users : v # t =>
            pc[v] \notin {"disc_receipt", "disc_transmit", "disc_send"}
      BY <1>0, <2>1 DEF OneCaller
    <3>3. starts' # 0 /\ spawned' = 1 /\ sessions'[1] = 0
      BY <1>9, <2>1, Numbers DEF Spawn, history
    <3>4. \A v \in Users : v # t => pc'[v] \notin ConnectLabels
      BY <3>1
    <3>5. \A v \in Users : pc'[v] \notin {"disc_receipt", "disc_transmit", "disc_send"}
      BY <2>2, <3>1, <3>2
    <3> QED
      BY <2>2, <3>3, <3>4, <3>5 DEF OneCaller, ConnectLabels, Unsent
  <2>6. OneHandshake'
    BY <1>9, <2>1, FramesStay DEF Spawn, network, chunk, history
  <2>7. EndInv'
    <3>1. ThreadRoles'
      BY <2>1, <2>2 DEF EndInv, ThreadRoles, ReceiverLabels, DsLabels, NdLabels
    <3>2. BeforeSession'
      BY <1>0, <1>9, <2>1, <2>2
      DEF Spawn, BeforeSession, Early, Finally, NdLabels, flags, rcpts, history
    <3>3. Released'
      BY <1>0, <1>9, <2>1, <2>2, First
      DEF Spawn, Released, Finally, NdLabels, flags, sockets, history
    <3>4. Told'
      BY <1>9, <2>1, <2>2
      DEF Spawn, EndInv, Told, HeartbeatOwes, ReceiverOwes, TellingLabels, flags, history
    <3> QED
      BY <3>1, <3>2, <3>3, <3>4 DEF EndInv
  <2> QED
    BY <2>3, <2>4, <2>5, <2>6, <2>7 DEF AppInv
<1> QED
  BY <1>1, <1>2, <1>3, <1>4, <1>5, <1>6, <1>7, <1>8, <1>9 DEF Connecting

\* disconnect() and stop(), and the calls themselves
LEMMA ApplicationKeeps ==
  ASSUME Reuse = "no", IInv, SInv, NEW t \in Users,
         Connect(t) \/ Disconnect(t) \/ Disconnecting(t) \/ Stopping(t)
  PROVE  SInv'
<1> USE DEF At, SInv
<1>0. UserRoles /\ OneCaller /\ BeforeSession /\ Released
  BY DEF AppInv, EndInv
<1>1. CASE DiscCheck(t)
  <2>1. \/ ret[t] \in {"stop", "idle"} /\ UserAt(t, ret[t], ret[t])
        \/ connected /\ UserAt(t, "disc_receipt", ret[t])
    BY <1>0, <1>1, UserGoes DEF DiscCheck, Return, IsConnected, UserRoles, ConnectLabels, DiscLabels
  <2>2. OneConnection'
    BY <1>0, <1>1, <2>1, CountersKept
    DEF UserAt, DiscCheck, Return, IsConnected, CountersStay, OneConnection, history, sockets, chunk
  <2>3. UserRoles'
    BY <1>0, <1>1, <2>1
    DEF UserAt, DiscCheck, Return, IsConnected, UserRoles, UserLabels, ConnectLabels, DiscLabels,
        StopLabels
  <2>4. OneCaller'
    BY <1>0, <1>1, <2>1, Numbers
    DEF UserAt, DiscCheck, Return, IsConnected, OneCaller, OneConnection, BeforeSession,
        ConnectLabels, Unsent, flags, sockets, history
  <2>5. OneHandshake'
    BY <1>0, <1>1, <2>1, FramesStay
    DEF UserAt, DiscCheck, Return, IsConnected, Sending, Unsent, network, chunk, history
  <2>6. EndInv'
    BY <1>0, <1>1, <2>1, EndStays
    DEF UserAt, DiscCheck, Return, IsConnected, OneCaller, flags, rcpts, sockets, history
  <2> QED
    BY <2>2, <2>3, <2>4, <2>5, <2>6 DEF AppInv
<1>2. CASE DiscReceipt(t)
  <2>1. UserAt(t, "disc_transmit", ret[t])
    BY <1>0, <1>2, UserGoes DEF DiscReceipt
  <2>2. OneConnection'
    BY <1>0, <1>2, <2>1, CountersKept
    DEF UserAt, DiscReceipt, CountersStay, OneConnection, history, sockets, chunk
  <2>3. UserRoles'
    BY <1>0, <1>2, <2>1
    DEF UserAt, DiscReceipt, UserRoles, UserLabels, ConnectLabels, DiscLabels, StopLabels
  <2>4. OneCaller'
    BY <1>0, <1>2, <2>1, Numbers
    DEF UserAt, DiscReceipt, OneCaller, OneConnection, BeforeSession, ConnectLabels, Unsent, flags,
        sockets, history
  <2>5. OneHandshake'
    BY <1>0, <1>2, <2>1, FramesStay
    DEF UserAt, DiscReceipt, Sending, Unsent, network, chunk, history
  <2>6. EndInv'
    BY <1>0, <1>2, <2>1, EndStays DEF UserAt, DiscReceipt, OneCaller, flags, sockets, history
  <2> QED
    BY <2>2, <2>3, <2>4, <2>5, <2>6 DEF AppInv
<1>3. CASE DiscTransmit(t)
  <2>1. UserAt(t, "disc_send", ret[t])
    BY <1>0, <1>3, UserGoes DEF DiscTransmit
  <2>2. OneConnection'
    BY <1>0, <1>3, <2>1, CountersKept
    DEF UserAt, DiscTransmit, CountersStay, OneConnection, history, sockets, chunk
  <2>3. UserRoles'
    BY <1>0, <1>3, <2>1
    DEF UserAt, DiscTransmit, UserRoles, UserLabels, ConnectLabels, DiscLabels, StopLabels
  <2>4. OneCaller'
    BY <1>0, <1>3, <2>1, Numbers
    DEF UserAt, DiscTransmit, OneCaller, OneConnection, BeforeSession, ConnectLabels, Unsent, flags,
        sockets, history
  <2>5. OneHandshake'
    BY <1>0, <1>3, <2>1, FramesStay
    DEF UserAt, DiscTransmit, Sending, Unsent, network, chunk, history
  <2>6. EndInv'
    BY <1>0, <1>3, <2>1, EndStays DEF UserAt, DiscTransmit, OneCaller, flags, sockets, history
  <2> QED
    BY <2>2, <2>3, <2>4, <2>5, <2>6 DEF AppInv
<1>4. CASE DiscSend(t)
  <2>1. /\ UserAt(t, "idle", "r_exit") \/ (ret[t] \in {"stop", "idle"} /\ UserAt(t, ret[t], ret[t]))
        /\ UNCHANGED chunk
    BY <1>0, <1>4, UserGoes, UserRaises DEF DiscSend, Send, UserRoles, ConnectLabels, DiscLabels
  <2>2. OneConnection'
    BY <1>0, <1>4, <2>1, CountersKept
    DEF UserAt, DiscSend, Send, CountersStay, OneConnection, history, sockets, chunk
  <2>3. UserRoles'
    BY <1>0, <1>4, <2>1
    DEF UserAt, DiscSend, Send, UserRoles, UserLabels, ConnectLabels, DiscLabels, StopLabels
  <2>4. OneCaller'
    BY <1>0, <1>4, <2>1, Numbers
    DEF UserAt, DiscSend, Send, OneCaller, OneConnection, BeforeSession, ConnectLabels, Unsent,
        flags, sockets, history
  <2>5. OneHandshake'
    <3>1. /\ sessions[1] # 0 /\ sessions' = sessions /\ Lacks(toServer[1], "CONNECT")
          /\ UNCHANGED <<toClient, frames>>
      BY <1>0, <1>4, <2>1 DEF DiscSend, Send, OneCaller, OneHandshake, history, chunk
    <3>2. Lacks(toServer'[1], "CONNECT")
      <4>1. toServer'[1] \in {toServer[1], Append(toServer[1], Frame("DISCONNECT", t))}
        BY <1>0, <1>4, Typed, First DEF DiscSend, Send
      <4>2. Frame("DISCONNECT", t) \in ClientFrames /\ Frame("DISCONNECT", t).cmd = "DISCONNECT"
        BY DEF ClientFrames, Frame
      <4>3. Lacks(Append(toServer[1], Frame("DISCONNECT", t)), "CONNECT")
        BY <3>1, <4>2, Typed, First, LongerSeq
      <4> QED
        BY <3>1, <4>1, <4>3
    <3> QED
      BY <3>1, <3>2 DEF OneHandshake
  <2>6. EndInv'
    BY <1>0, <1>4, <2>1, EndStays
    DEF UserAt, DiscSend, Send, OneCaller, flags, rcpts, sockets, history
  <2> QED
    BY <2>2, <2>3, <2>4, <2>5, <2>6 DEF AppInv
<1>5. CASE Stop(t)
  <2>1. UserAt(t, "stop_waiting", ret[t]) \/ UserAt(t, "idle", ret[t])
    BY <1>0, <1>5, UserGoes DEF Stop, AfterStop
  <2>2. OneConnection'
    BY <1>0, <1>5, <2>1, CountersKept
    DEF UserAt, Stop, AfterStop, CountersStay, OneConnection, history, sockets, chunk
  <2>3. UserRoles'
    BY <1>0, <1>5, <2>1
    DEF UserAt, Stop, AfterStop, UserRoles, UserLabels, ConnectLabels, DiscLabels, StopLabels
  <2>4. OneCaller'
    BY <1>0, <1>5, <2>1, Numbers
    DEF UserAt, Stop, AfterStop, OneCaller, OneConnection, BeforeSession, ConnectLabels, Unsent,
        flags, sockets, history
  <2>5. OneHandshake'
    BY <1>0, <1>5, <2>1, FramesStay
    DEF UserAt, Stop, AfterStop, Sending, Unsent, network, chunk, history
  <2>6. EndInv'
    BY <1>0, <1>5, <2>1, EndStays
    DEF UserAt, Stop, AfterStop, OneCaller, flags, rcpts, sockets, history
  <2> QED
    BY <2>2, <2>3, <2>4, <2>5, <2>6 DEF AppInv
<1>6. CASE WakeFromStopWait(t)
  <2>1. UserAt(t, "stop", ret[t])
    BY <1>0, <1>6, UserGoes DEF WakeFromStopWait
  <2>2. OneConnection'
    BY <1>0, <1>6, <2>1, CountersKept
    DEF UserAt, WakeFromStopWait, CountersStay, OneConnection, history, sockets, chunk
  <2>3. UserRoles'
    BY <1>0, <1>6, <2>1
    DEF UserAt, WakeFromStopWait, UserRoles, UserLabels, ConnectLabels, DiscLabels, StopLabels
  <2>4. OneCaller'
    BY <1>0, <1>6, <2>1, Numbers
    DEF UserAt, WakeFromStopWait, OneCaller, OneConnection, BeforeSession, ConnectLabels, Unsent,
        flags, sockets, history
  <2>5. OneHandshake'
    BY <1>0, <1>6, <2>1, FramesStay
    DEF UserAt, WakeFromStopWait, Sending, Unsent, network, chunk, history
  <2>6. EndInv'
    BY <1>0, <1>6, <2>1, EndStays
    DEF UserAt, WakeFromStopWait, OneCaller, flags, rcpts, sockets, history
  <2> QED
    BY <2>2, <2>3, <2>4, <2>5, <2>6 DEF AppInv
<1>7. CASE Connect(t)
  <2>1. UserAt(t, "start", "wait") \/ UserAt(t, "start", "idle")
    BY <1>0, <1>7, UserMoves DEF Connect, Call, Moves
  <2>2. OneConnection'
    BY <1>0, <1>7, <2>1, Numbers DEF UserAt, Connect, OneConnection, sockets, chunk
  <2>3. UserRoles'
    BY <1>0, <1>7, <2>1
    DEF UserAt, Connect, Call, UserRoles, UserLabels, ConnectLabels, DiscLabels, StopLabels
  <2>4. OneCaller'
    BY <1>0, <1>7, <2>1, Numbers
    DEF UserAt, Connect, Call, OneCaller, OneConnection, BeforeSession, ConnectLabels, Unsent,
        flags, sockets
  <2>5. OneHandshake'
    <3>1. starts = 0 /\ spawned = 0 /\ spawned' = 0
      BY <1>0, <1>7, Numbers DEF Connect
    <3> QED
      BY <1>0, <1>7, <3>1, FramesStay DEF Connect, Sending, network, chunk
  <2>6. EndInv'
    BY <1>0, <1>7, <2>1, EndStays DEF UserAt, Connect, Call, OneCaller, flags, rcpts, sockets
  <2> QED
    BY <2>2, <2>3, <2>4, <2>5, <2>6 DEF AppInv
<1>8. CASE Disconnect(t)
  <2>1. UserAt(t, "disc_check", "stop") \/ UserAt(t, "disc_check", "idle")
    BY <1>0, <1>8, UserMoves DEF Disconnect, Call, Moves
  <2>2. OneConnection'
    BY <1>0, <1>8, <2>1, CountersKept
    DEF UserAt, Disconnect, Call, CountersStay, OneConnection, sockets, chunk
  <2>3. UserRoles'
    BY <1>0, <1>8, <2>1
    DEF UserAt, Disconnect, Call, UserRoles, UserLabels, ConnectLabels, DiscLabels, StopLabels
  <2>4. OneCaller'
    BY <1>0, <1>8, <2>1, Numbers
    DEF UserAt, Disconnect, Call, OneCaller, OneConnection, BeforeSession, ConnectLabels, Unsent,
        flags, sockets
  <2>5. OneHandshake'
    BY <1>0, <1>8, <2>1, FramesStay DEF UserAt, Disconnect, Call, Sending, Unsent, network, chunk
  <2>6. EndInv'
    BY <1>0, <1>8, <2>1, EndStays DEF UserAt, Disconnect, Call, OneCaller, flags, rcpts, sockets
  <2> QED
    BY <2>2, <2>3, <2>4, <2>5, <2>6 DEF AppInv
<1> QED
  BY <1>1, <1>2, <1>3, <1>4, <1>5, <1>6, <1>7, <1>8 DEF Disconnecting, Stopping

-----------------------------------------------------------------------------
(* The steps of the heartbeat thread *)

\* The heartbeat thread is in a method only after the session has begun.
LEMMA HbInSession ==
  ASSUME IInv, SInv, Hb # "hb_loop" \/ hbRunning
  PROVE  sessions[1] # 0 /\ spawned = 1 /\ conns = 1 /\ Rcv # "unborn"
BY Numbers DEF SInv, EndInv, BeforeSession, OneConnection

\* Its steps leave the application, the receiver and the frames where they are.
LEMMA HbApart ==
  ASSUME IInv, SInv, sessions[1] # 0, spawned = 1, conns = 1, NEW l, NEW n, HbAt(l, n),
         CountersStay,
         UNCHANGED <<toServer, toClient, chunk>>,
         socket' = socket \/ socket' = None, \A s \in Sockets : s # 1 => told'[s] = told[s]
  PROVE  OneConnection' /\ AppInv' /\ OneHandshake' /\ BeforeSession'
<1>1. OneConnection'
  BY CountersKept DEF SInv, OneConnection, HbAt, chunk
<1>2. AppInv'
  BY AppStays DEF SInv, HbAt
<1>3. OneHandshake'
  BY FramesStay, NobodySends DEF SInv, HbAt, CountersStay, chunk
<1>4. BeforeSession'
  BY DEF BeforeSession, CountersStay
<1> QED
  BY <1>1, <1>2, <1>3, <1>4
\* It moves among the methods it may run.
LEMMA HbRoles ==
  ASSUME ThreadRoles, NEW l, NEW n, HbAt(l, n),
         l \in HeartbeatLabels \cup DsLabels \cup NdLabels \cup StopLabels,
         n = "stop" \/ l \in {"hb_loop", "hb_dead"} \cup StopLabels
  PROVE  ThreadRoles'
BY DEF HbAt, ThreadRoles, DsLabels, NdLabels, StopLabels

\* the timeout branch, stop(), disconnect_socket() and notify(), run by the heartbeat thread
LEMMA HeartbeatKeeps ==
  ASSUME Reuse = "no", IInv, SInv,
         \/ HbTimeout(Heartbeat) \/ HbSetConnected(Heartbeat) \/ Stopping(Heartbeat)
         \/ DisconnectingSocket(Heartbeat) \/ Notifying(Heartbeat)
  PROVE  SInv'
<1> USE DEF At
<1>0. OneConnection /\ ThreadRoles /\ Released /\ Told
  BY DEF SInv, EndInv
<1>n. told[1] \in Nat /\ timeouts \in Nat /\ 1 \in Sockets
  BY Typed, First
<1>1. CASE DsRunning(Heartbeat)
  <2>1. HbAt("ds_shutdown?", ret[Heartbeat])
    BY <1>1, HbGoes DEF DsRunning
  <2>2. sessions[1] # 0 /\ spawned = 1 /\ conns = 1 /\ Rcv # "unborn"
    BY <1>1, HbInSession DEF DsRunning, Hb
  <2>3. OneConnection' /\ AppInv' /\ OneHandshake' /\ BeforeSession'
    BY <1>1, <2>1, <2>2, HbApart DEF DsRunning, CountersStay, network, sockets, history, chunk
  <2>4. ThreadRoles'
    BY <1>0, <1>1, <2>1, HbRoles
    DEF DsRunning, Hb, ThreadRoles, HeartbeatLabels, DsLabels, NdLabels, StopLabels
  <2>5. Released'
    BY <1>0, <1>1, <2>1, <2>2 DEF HbAt, DsRunning, Hb, Released, OneConnection, sockets, history
  <2>6. Told'
    BY <1>0, <1>n, <1>1, <2>1, <2>2
    DEF HbAt, DsRunning, Hb, Told, HeartbeatOwes, ReceiverOwes, DsLabels, TellingLabels, history
  <2> QED
    BY <2>3, <2>4, <2>5, <2>6 DEF SInv, EndInv
<1>2. CASE DsCheckShutdown(Heartbeat)
  <2>1. HbAt("ds_shutdown", ret[Heartbeat]) \/ HbAt("ds_close?", ret[Heartbeat])
    BY <1>2, HbGoes DEF DsCheckShutdown, DsHasSocket
  <2>2. sessions[1] # 0 /\ spawned = 1 /\ conns = 1 /\ Rcv # "unborn"
    BY <1>2, HbInSession DEF DsCheckShutdown, DsHasSocket, Hb
  <2>3. OneConnection' /\ AppInv' /\ OneHandshake' /\ BeforeSession'
    BY <1>2, <2>1, <2>2, HbApart
    DEF DsCheckShutdown, DsHasSocket, CountersStay, network, sockets, history, chunk
  <2>4. ThreadRoles'
    BY <1>0, <1>2, <2>1, HbRoles
    DEF DsCheckShutdown, DsHasSocket, Hb, ThreadRoles, HeartbeatLabels, DsLabels, NdLabels,
        StopLabels
  <2>5. Released'
    BY <1>0, <1>2, <2>1, <2>2
    DEF HbAt, DsCheckShutdown, DsHasSocket, Hb, Released, OneConnection, flags, sockets, history
  <2>6. Told'
    BY <1>0, <1>n, <1>2, <2>1, <2>2
    DEF HbAt, DsCheckShutdown, DsHasSocket, Hb, Told, HeartbeatOwes, ReceiverOwes, DsLabels,
        TellingLabels, flags, history
  <2> QED
    BY <2>3, <2>4, <2>5, <2>6 DEF SInv, EndInv
<1>3. CASE DsShutdown(Heartbeat)
  <2>1. \/ socket = None /\ HbAt("hb_dead", "r_exit") /\ UNCHANGED chunk
        \/ socket # None /\ HbAt("ds_close?", ret[Heartbeat]) /\ UNCHANGED chunk
    BY <1>3, HbGoes, HbRaises DEF DsShutdown, TcpShutdown, WsShutdown
  <2>2. sessions[1] # 0 /\ spawned = 1 /\ conns = 1 /\ Rcv # "unborn"
    BY <1>3, HbInSession DEF DsShutdown, TcpShutdown, WsShutdown, Hb
  <2>3. OneConnection' /\ AppInv' /\ OneHandshake' /\ BeforeSession'
    BY <1>3, <2>1, <2>2, HbApart
    DEF DsShutdown, TcpShutdown, WsShutdown, CountersStay, network, history, chunk
  <2>4. ThreadRoles'
    BY <1>0, <1>3, <2>1, HbRoles
    DEF DsShutdown, TcpShutdown, WsShutdown, Hb, ThreadRoles, HeartbeatLabels, DsLabels, NdLabels,
        StopLabels
  <2>5. Released'
    BY <1>0, <1>3, <2>1, <2>2
    DEF HbAt, DsShutdown, TcpShutdown, WsShutdown, Hb, Released, OneConnection, flags, history
  <2>6. Told'
    BY <1>0, <1>n, <1>3, <2>1, <2>2
    DEF HbAt, DsShutdown, TcpShutdown, WsShutdown, Hb, Told, HeartbeatOwes, ReceiverOwes, DsLabels,
        TellingLabels, flags, history
  <2> QED
    BY <2>3, <2>4, <2>5, <2>6 DEF SInv, EndInv
<1>4. CASE DsCheckClose(Heartbeat)
  <2>1. HbAt("ds_close", ret[Heartbeat]) \/ (socket = None /\ HbAt("ds_null", ret[Heartbeat]))
    BY <1>4, HbGoes DEF DsCheckClose, DsHasSocket
  <2>2. sessions[1] # 0 /\ spawned = 1 /\ conns = 1 /\ Rcv # "unborn"
    BY <1>4, HbInSession DEF DsCheckClose, DsHasSocket, Hb
  <2>3. OneConnection' /\ AppInv' /\ OneHandshake' /\ BeforeSession'
    BY <1>4, <2>1, <2>2, HbApart
    DEF DsCheckClose, DsHasSocket, CountersStay, network, sockets, history, chunk
  <2>4. ThreadRoles'
    BY <1>0, <1>4, <2>1, HbRoles
    DEF DsCheckClose, DsHasSocket, Hb, ThreadRoles, HeartbeatLabels, DsLabels, NdLabels, StopLabels
  <2>5. Released'
    BY <1>0, <1>4, <2>1, <2>2
    DEF HbAt, DsCheckClose, DsHasSocket, Hb, Released, OneConnection, flags, sockets, history
  <2>6. Told'
    BY <1>0, <1>n, <1>4, <2>1, <2>2
    DEF HbAt, DsCheckClose, DsHasSocket, Hb, Told, HeartbeatOwes, ReceiverOwes, DsLabels,
        TellingLabels, flags, history
  <2> QED
    BY <2>3, <2>4, <2>5, <2>6 DEF SInv, EndInv
<1>5. CASE DsClose(Heartbeat)
  <2>1. \/ socket = None /\ HbAt("hb_dead", "r_exit") /\ UNCHANGED chunk
        \/ socket # None /\ HbAt("ds_null", ret[Heartbeat]) /\ UNCHANGED chunk
    BY <1>5, HbGoes, HbRaises DEF DsClose
  <2>2. sessions[1] # 0 /\ spawned = 1 /\ conns = 1 /\ Rcv # "unborn"
    BY <1>5, HbInSession DEF DsClose, Hb
  <2>3. OneConnection' /\ AppInv' /\ OneHandshake' /\ BeforeSession'
    BY <1>5, <2>1, <2>2, HbApart DEF DsClose, CountersStay, network, history, chunk
  <2>4. ThreadRoles'
    BY <1>0, <1>5, <2>1, HbRoles
    DEF DsClose, Hb, ThreadRoles, HeartbeatLabels, DsLabels, NdLabels, StopLabels
  <2>5. Released'
    BY <1>0, <1>5, <2>1, <2>2 DEF HbAt, DsClose, Hb, Released, OneConnection, flags, history
  <2>6. Told'
    BY <1>0, <1>n, <1>5, <2>1, <2>2
    DEF HbAt, DsClose, Hb, Told, HeartbeatOwes, ReceiverOwes, DsLabels, TellingLabels, flags,
        history
  <2> QED
    BY <2>3, <2>4, <2>5, <2>6 DEF SInv, EndInv
<1>6. CASE DsNull(Heartbeat)
  <2>1. HbAt("ds_notify?", ret[Heartbeat])
    BY <1>6, HbGoes DEF DsNull
  <2>2. sessions[1] # 0 /\ spawned = 1 /\ conns = 1 /\ Rcv # "unborn"
    BY <1>6, HbInSession DEF DsNull, Hb
  <2>3. OneConnection' /\ AppInv' /\ OneHandshake' /\ BeforeSession'
    BY <1>6, <2>1, <2>2, HbApart DEF DsNull, CountersStay, network, history, chunk
  <2>4. ThreadRoles'
    BY <1>0, <1>6, <2>1, HbRoles
    DEF DsNull, Hb, ThreadRoles, HeartbeatLabels, DsLabels, NdLabels, StopLabels
  <2>5. Released'
    BY <1>0, <1>6, <2>1, <2>2 DEF HbAt, DsNull, Hb, Released, OneConnection, flags, history
  <2>6. Told'
    BY <1>0, <1>n, <1>6, <2>1, <2>2
    DEF HbAt, DsNull, Hb, Told, HeartbeatOwes, ReceiverOwes, DsLabels, TellingLabels, flags, history
  <2> QED
    BY <2>3, <2>4, <2>5, <2>6 DEF SInv, EndInv
<1>7. CASE DsCheckNotified(Heartbeat)
  <2>1. (notified /\ HbAt("stop", ret[Heartbeat])) \/ (~notified /\ HbAt("nd_flag", ret[Heartbeat]))
    BY <1>7, HbGoes, <1>0 DEF DsCheckNotified, Return, Hb, ThreadRoles, DsLabels, NdLabels
  <2>2. sessions[1] # 0 /\ spawned = 1 /\ conns = 1 /\ Rcv # "unborn"
    BY <1>7, HbInSession DEF DsCheckNotified, Return, Hb
  <2>3. OneConnection' /\ AppInv' /\ OneHandshake' /\ BeforeSession'
    BY <1>7, <2>1, <2>2, HbApart
    DEF DsCheckNotified, Return, CountersStay, network, sockets, history, chunk
  <2>4. ThreadRoles'
    BY <1>0, <1>7, <2>1, HbRoles
    DEF DsCheckNotified, Return, Hb, ThreadRoles, HeartbeatLabels, DsLabels, NdLabels, StopLabels
  <2>5. Released'
    BY <1>0, <1>7, <2>1, <2>2
    DEF HbAt, DsCheckNotified, Return, Hb, Released, OneConnection, flags, sockets, history
  <2>6. Told'
    BY <1>0, <1>n, <1>7, <2>1, <2>2
    DEF HbAt, DsCheckNotified, Return, Hb, Told, HeartbeatOwes, ReceiverOwes, DsLabels,
        TellingLabels, flags, history
  <2> QED
    BY <2>3, <2>4, <2>5, <2>6 DEF SInv, EndInv
<1>8. CASE NdFlag(Heartbeat)
  <2>1. HbAt("nd_connected", ret[Heartbeat])
    BY <1>8, HbGoes DEF NdFlag
  <2>2. sessions[1] # 0 /\ spawned = 1 /\ conns = 1 /\ Rcv # "unborn"
    BY <1>8, HbInSession DEF NdFlag, Hb
  <2>3. OneConnection' /\ AppInv' /\ OneHandshake' /\ BeforeSession'
    BY <1>8, <2>1, <2>2, HbApart DEF NdFlag, CountersStay, network, sockets, history, chunk
  <2>4. ThreadRoles'
    BY <1>0, <1>8, <2>1, HbRoles
    DEF NdFlag, Hb, ThreadRoles, HeartbeatLabels, DsLabels, NdLabels, StopLabels
  <2>5. Released'
    BY <1>0, <1>8, <2>1, <2>2 DEF HbAt, NdFlag, Hb, Released, OneConnection, sockets, history
  <2>6. Told'
    BY <1>0, <1>n, <1>8, <2>1, <2>2
    DEF HbAt, NdFlag, Hb, Told, HeartbeatOwes, ReceiverOwes, DsLabels, TellingLabels, history
  <2> QED
    BY <2>3, <2>4, <2>5, <2>6 DEF SInv, EndInv
<1>9. CASE NdConnected(Heartbeat)
  <2>1. HbAt("nd_listeners", ret[Heartbeat])
    BY <1>9, HbGoes DEF NdConnected, SetConnected
  <2>2. sessions[1] # 0 /\ spawned = 1 /\ conns = 1 /\ Rcv # "unborn"
    BY <1>9, HbInSession DEF NdConnected, SetConnected, Hb
  <2>3. OneConnection' /\ AppInv' /\ OneHandshake' /\ BeforeSession'
    BY <1>9, <2>1, <2>2, HbApart
    DEF NdConnected, SetConnected, CountersStay, network, sockets, history, chunk
  <2>4. ThreadRoles'
    BY <1>0, <1>9, <2>1, HbRoles
    DEF NdConnected, SetConnected, Hb, ThreadRoles, HeartbeatLabels, DsLabels, NdLabels, StopLabels
  <2>5. Released'
    BY <1>0, <1>9, <2>1, <2>2
    DEF HbAt, NdConnected, SetConnected, Hb, Released, OneConnection, sockets, history
  <2>6. Told'
    BY <1>0, <1>n, <1>9, <2>1, <2>2
    DEF HbAt, NdConnected, SetConnected, Hb, Told, HeartbeatOwes, ReceiverOwes, DsLabels,
        TellingLabels, history
  <2> QED
    BY <2>3, <2>4, <2>5, <2>6 DEF SInv, EndInv
<1>10. CASE NdListeners(Heartbeat)
  <2>1. \/ raises < MaxRaises /\ HbAt("hb_dead", "r_exit") /\ UNCHANGED chunk
        \/ HbAt("nd_heartbeat", ret[Heartbeat]) /\ UNCHANGED chunk
    BY <1>10, HbGoes, HbRaises DEF NdListeners
  <2>2. sessions[1] # 0 /\ spawned = 1 /\ conns = 1 /\ Rcv # "unborn"
    BY <1>10, HbInSession DEF NdListeners, Hb
  <2>3. OneConnection' /\ AppInv' /\ OneHandshake' /\ BeforeSession'
    BY <1>10, <2>1, <2>2, HbApart DEF NdListeners, CountersStay, network, sockets, chunk
  <2>4. ThreadRoles'
    BY <1>0, <1>10, <2>1, HbRoles
    DEF NdListeners, Hb, ThreadRoles, HeartbeatLabels, DsLabels, NdLabels, StopLabels
  <2>5. Released'
    BY <1>0, <1>10, <2>1, <2>2 DEF HbAt, NdListeners, Hb, Released, OneConnection, flags, sockets
  <2>6. Told'
    <3>1. told'[1] = told[1] + 1
      BY <1>n, <1>10, <2>2, Typed DEF NdListeners
    <3> QED
      BY <1>0, <1>n, <1>10, <2>1, <3>1
      DEF HbAt, NdListeners, Hb, Told, HeartbeatOwes, ReceiverOwes, DsLabels, TellingLabels, flags
  <2> QED
    BY <2>3, <2>4, <2>5, <2>6 DEF SInv, EndInv
<1>11. CASE NdHeartbeat(Heartbeat)
  <2>1. HbAt("stop", ret[Heartbeat])
    BY <1>11, HbGoes, <1>0 DEF NdHeartbeat, Return, Hb, ThreadRoles, DsLabels, NdLabels
  <2>2. sessions[1] # 0 /\ spawned = 1 /\ conns = 1 /\ Rcv # "unborn"
    BY <1>11, HbInSession DEF NdHeartbeat, Return, Hb
  <2>3. OneConnection' /\ AppInv' /\ OneHandshake' /\ BeforeSession'
    BY <1>11, <2>1, <2>2, HbApart
    DEF NdHeartbeat, Return, CountersStay, network, sockets, history, chunk
  <2>4. ThreadRoles'
    BY <1>0, <1>11, <2>1, HbRoles
    DEF NdHeartbeat, Return, Hb, ThreadRoles, HeartbeatLabels, DsLabels, NdLabels, StopLabels
  <2>5. Released'
    BY <1>0, <1>11, <2>1, <2>2
    DEF HbAt, NdHeartbeat, Return, Hb, Released, OneConnection, sockets, history
  <2>6. Told'
    BY <1>0, <1>n, <1>11, <2>1, <2>2
    DEF HbAt, NdHeartbeat, Return, Hb, Told, HeartbeatOwes, ReceiverOwes, DsLabels, TellingLabels,
        history
  <2> QED
    BY <2>3, <2>4, <2>5, <2>6 DEF SInv, EndInv
<1>12. CASE HbTimeout(Heartbeat)
  <2>1. HbAt("hb_timeout", "stop")
    BY <1>12, HbMoves DEF HbTimeout, Call, Moves
  <2>2. sessions[1] # 0 /\ spawned = 1 /\ conns = 1 /\ Rcv # "unborn"
    BY <1>12, HbInSession DEF HbTimeout, Call, Hb
  <2>3. OneConnection' /\ AppInv' /\ OneHandshake' /\ BeforeSession'
    BY <1>12, <2>1, <2>2, HbApart DEF HbTimeout, Call, CountersStay, network, sockets, chunk
  <2>4. ThreadRoles'
    BY <1>0, <1>12, <2>1, HbRoles
    DEF HbTimeout, Call, Hb, ThreadRoles, HeartbeatLabels, DsLabels, NdLabels, StopLabels
  <2>5. Released'
    BY <1>0, <1>12, <2>1, <2>2
    DEF HbAt, HbTimeout, Call, Hb, Released, OneConnection, flags, sockets
  <2>6. Told'
    BY <1>0, <1>n, <1>12, <2>1, <2>2
    DEF HbAt, HbTimeout, Call, Hb, Told, HeartbeatOwes, ReceiverOwes, DsLabels, TellingLabels, flags
  <2> QED
    BY <2>3, <2>4, <2>5, <2>6 DEF SInv, EndInv
<1>13. CASE HbSetConnected(Heartbeat)
  <2>1. HbAt("ds_running", ret[Heartbeat])
    BY <1>13, HbGoes DEF HbSetConnected, SetConnected
  <2>2. sessions[1] # 0 /\ spawned = 1 /\ conns = 1 /\ Rcv # "unborn"
    BY <1>13, HbInSession DEF HbSetConnected, SetConnected, Hb
  <2>3. OneConnection' /\ AppInv' /\ OneHandshake' /\ BeforeSession'
    BY <1>13, <2>1, <2>2, HbApart
    DEF HbSetConnected, SetConnected, CountersStay, network, sockets, history, chunk
  <2>4. ThreadRoles'
    BY <1>0, <1>13, <2>1, HbRoles
    DEF HbSetConnected, SetConnected, Hb, ThreadRoles, HeartbeatLabels, DsLabels, NdLabels,
        StopLabels
  <2>5. Released'
    BY <1>0, <1>13, <2>1, <2>2
    DEF HbAt, HbSetConnected, SetConnected, Hb, Released, OneConnection, sockets, history
  <2>6. Told'
    BY <1>0, <1>n, <1>13, <2>1, <2>2
    DEF HbAt, HbSetConnected, SetConnected, Hb, Told, HeartbeatOwes, ReceiverOwes, DsLabels,
        TellingLabels, history
  <2> QED
    BY <2>3, <2>4, <2>5, <2>6 DEF SInv, EndInv
<1>14. CASE Stop(Heartbeat)
  <2>1. HbAt("stop_waiting", ret[Heartbeat]) \/ HbAt("hb_loop", ret[Heartbeat])
    BY <1>14, HbGoes, ThreadKinds DEF Stop, AfterStop
  <2>2. sessions[1] # 0 /\ spawned = 1 /\ conns = 1 /\ Rcv # "unborn"
    BY <1>14, HbInSession DEF Stop, AfterStop, Hb
  <2>3. OneConnection' /\ AppInv' /\ OneHandshake' /\ BeforeSession'
    BY <1>14, <2>1, <2>2, HbApart
    DEF Stop, AfterStop, CountersStay, network, sockets, history, chunk
  <2>4. ThreadRoles'
    BY <1>0, <1>14, <2>1, HbRoles
    DEF Stop, AfterStop, Hb, ThreadRoles, HeartbeatLabels, DsLabels, NdLabels, StopLabels
  <2>5. Released'
    BY <1>0, <1>14, <2>1, <2>2
    DEF HbAt, Stop, AfterStop, Hb, Released, OneConnection, flags, sockets, history
  <2>6. Told'
    BY <1>0, <1>n, <1>14, <2>1, <2>2
    DEF HbAt, Stop, AfterStop, Hb, Told, HeartbeatOwes, ReceiverOwes, DsLabels, TellingLabels,
        flags, history
  <2> QED
    BY <2>3, <2>4, <2>5, <2>6 DEF SInv, EndInv
<1>15. CASE WakeFromStopWait(Heartbeat)
  <2>1. HbAt("stop", ret[Heartbeat])
    BY <1>15, HbGoes DEF WakeFromStopWait
  <2>2. sessions[1] # 0 /\ spawned = 1 /\ conns = 1 /\ Rcv # "unborn"
    BY <1>15, HbInSession DEF WakeFromStopWait, Hb
  <2>3. OneConnection' /\ AppInv' /\ OneHandshake' /\ BeforeSession'
    BY <1>15, <2>1, <2>2, HbApart
    DEF WakeFromStopWait, CountersStay, network, sockets, history, chunk
  <2>4. ThreadRoles'
    BY <1>0, <1>15, <2>1, HbRoles
    DEF WakeFromStopWait, Hb, ThreadRoles, HeartbeatLabels, DsLabels, NdLabels, StopLabels
  <2>5. Released'
    BY <1>0, <1>15, <2>1, <2>2
    DEF HbAt, WakeFromStopWait, Hb, Released, OneConnection, flags, sockets, history
  <2>6. Told'
    BY <1>0, <1>n, <1>15, <2>1, <2>2
    DEF HbAt, WakeFromStopWait, Hb, Told, HeartbeatOwes, ReceiverOwes, DsLabels, TellingLabels,
        flags, history
  <2> QED
    BY <2>3, <2>4, <2>5, <2>6 DEF SInv, EndInv
<1> QED
  BY <1>1, <1>2, <1>3, <1>4, <1>5, <1>6, <1>7, <1>8, <1>9, <1>10, <1>11, <1>12, <1>13, <1>14, <1>15
  DEF Stopping, DisconnectingSocket, Notifying

-----------------------------------------------------------------------------
(* The steps of the receiver *)

\* an exception ends the loop, or the finally block
RcvRaised ==
  /\ RcvAt(IF Back = "r_wake" THEN "r_done" ELSE "cl_close", "r_exit")
  /\ frames'[1] = <<>> /\ UNCHANGED reading
\* That is what Raise does to the receiver.
LEMMA RcvRaisesSo ==
  ASSUME IInv, Raise(1)
  PROVE  RcvRaised
BY RcvRaises DEF RcvRaised

\* A step may take no frames away, ...
LEMMA SameFrames == \A q : FewerFrames(q, q)
BY DEF FewerFrames
\* ... or everything.
LEMMA NoFrames == \A q : FewerFrames(<<>>, q)
<1>1. Len(<<>>) = 0 /\ 1..Len(<<>>) = {}
  OBVIOUS
<1> QED
  BY <1>1 DEF FewerFrames, Lacks

FramesGo ==
  \/ frames'[1] = frames[1] \/ frames'[1] = <<>>
  \/ frames[1] # <<>> /\ frames'[1] = Tail(frames[1])

\* Its steps leave the application where it is, and it reads no new frames but in recv().
LEMMA RcvApart ==
  ASSUME IInv, SInv, Rcv # "unborn", NEW l, NEW n, l # "unborn", RcvAt(l, n),
         CountersStay, UNCHANGED <<toServer, toClient>>,
         FramesGo, reading'[1] = reading[1] \/ reading'[1] = 1,
         socket' = socket \/ socket' = None, \A s \in Sockets : s # 1 => told'[s] = told[s]
  PROVE  OneConnection' /\ AppInv' /\ OneHandshake'
<1>1. spawned = 1 /\ conns = 1
  BY Numbers DEF SInv
<1>2. OneConnection'
  <2>1. \A r \in Receivers : pc'[r] = pc[r] \/ (r = 1 /\ pc[r] # "unborn" /\ pc'[r] # "unborn")
    BY DEF RcvAt, Rcv
  <2>2. reading'[1] \in {None, 1} /\ (frames'[1] # <<>> => reading'[1] = 1)
    BY DEF SInv, OneConnection, FramesGo
  <2> QED
    BY <1>1, <2>1, <2>2, CountersKept DEF SInv
<1>3. AppInv'
  BY <1>1, AppStays DEF SInv, RcvAt
<1>4. FewerFrames(frames'[1], frames[1])
  <2>1. CASE frames'[1] = Tail(frames[1]) /\ frames[1] # <<>>
    <3>1. frames[1] \in Seq(ServerFrames)
      BY Typed, First
    <3>2. /\ Len(Tail(frames[1])) = Len(frames[1]) - 1 /\ Len(frames[1]) \in Nat
          /\ \A cmd : Lacks(frames[1], cmd) => Lacks(Tail(frames[1]), cmd)
      BY <2>1, <3>1, ShorterSeq
    <3> QED
      BY <2>1, <3>2 DEF FewerFrames
  <2> QED
    BY <2>1, SameFrames, NoFrames DEF FramesGo
<1>5. OneHandshake'
  BY <1>4, FramesKept, SameFrames, NobodySends DEF SInv, RcvAt, CountersStay
<1> QED
  BY <1>2, <1>3, <1>5

\* disconnect_socket() and notify(), run by the receiver
LEMMA EndingKeeps ==
  ASSUME Reuse = "no", IInv, SInv, DisconnectingSocket(1) \/ Notifying(1)
  PROVE  SInv'
<1> USE DEF At
<1>0. OneConnection /\ AppInv /\ OneHandshake /\ ThreadRoles /\ BeforeSession /\ Released /\ Told
  BY DEF SInv, EndInv
<1>n. /\ told[1] \in Nat /\ timeouts \in Nat /\ 1 \in Sockets /\ 1 \in Receivers
      /\ frames \in [Receivers -> Seq(ServerFrames)]
  BY Typed, First
<1>1. CASE DsRunning(1)
  <2>1. RcvAt("ds_shutdown?", Back)
    BY <1>1, RcvGoes DEF DsRunning
  <2>2. Rcv # "unborn" /\ spawned = 1 /\ conns = 1
    BY <1>0, <1>1, Numbers DEF DsRunning, Rcv
  <2>3. OneConnection' /\ AppInv' /\ OneHandshake'
    BY <1>n, <1>1, <2>1, <2>2, RcvApart
    DEF DsRunning, FramesGo, CountersStay, network, sockets, history, chunk
  <2>4. ThreadRoles'
    BY <1>0, <1>1, <2>1 DEF RcvAt, DsRunning, Rcv, ThreadRoles, ReceiverLabels, DsLabels, NdLabels
  <2>5. BeforeSession'
    BY <1>0, <1>1, <2>1, <2>2
    DEF RcvAt, DsRunning, Rcv, ThreadRoles, BeforeSession, Early, Finally, DsLabels, NdLabels,
        rcpts, history
  <2>6. Released'
    BY <1>0, <1>1, <2>1, <2>2
    DEF RcvAt, DsRunning, Rcv, ThreadRoles, BeforeSession, Released, OneConnection, Finally,
        NdLabels, DsLabels, sockets, history
  <2>7. Told'
    BY <1>0, <1>n, <1>1, <2>1, <2>2
    DEF RcvAt, DsRunning, Rcv, ThreadRoles, BeforeSession, Told, HeartbeatOwes, ReceiverOwes,
        TellingLabels, DsLabels, NdLabels, history
  <2> QED
    BY <2>3, <2>4, <2>5, <2>6, <2>7 DEF SInv, EndInv
<1>2. CASE DsCheckShutdown(1)
  <2>1. RcvAt("ds_shutdown", Back) \/ RcvAt("ds_close?", Back)
    BY <1>2, RcvGoes DEF DsCheckShutdown, DsHasSocket
  <2>2. Rcv # "unborn" /\ spawned = 1 /\ conns = 1
    BY <1>0, <1>2, Numbers DEF DsCheckShutdown, DsHasSocket, Rcv
  <2>3. OneConnection' /\ AppInv' /\ OneHandshake'
    BY <1>n, <1>2, <2>1, <2>2, RcvApart
    DEF DsCheckShutdown, DsHasSocket, FramesGo, CountersStay, network, sockets, history, chunk
  <2>4. ThreadRoles'
    BY <1>0, <1>2, <2>1
    DEF RcvAt, DsCheckShutdown, DsHasSocket, Rcv, ThreadRoles, ReceiverLabels, DsLabels, NdLabels
  <2>5. BeforeSession'
    BY <1>0, <1>2, <2>1, <2>2
    DEF RcvAt, DsCheckShutdown, DsHasSocket, Rcv, ThreadRoles, BeforeSession, Early, Finally,
        DsLabels, NdLabels, flags, rcpts, history
  <2>6. Released'
    BY <1>0, <1>2, <2>1, <2>2
    DEF RcvAt, DsCheckShutdown, DsHasSocket, Rcv, ThreadRoles, BeforeSession, Released,
        OneConnection, Finally, NdLabels, DsLabels, flags, sockets, history
  <2>7. Told'
    BY <1>0, <1>n, <1>2, <2>1, <2>2
    DEF RcvAt, DsCheckShutdown, DsHasSocket, Rcv, ThreadRoles, BeforeSession, Told, HeartbeatOwes,
        ReceiverOwes, TellingLabels, DsLabels, NdLabels, flags, history
  <2> QED
    BY <2>3, <2>4, <2>5, <2>6, <2>7 DEF SInv, EndInv
<1>3. CASE DsShutdown(1)
  <2>1. \/ socket = None /\ RcvRaised
        \/ socket # None /\ RcvAt("ds_close?", Back) /\ UNCHANGED chunk
    BY <1>3, RcvGoes, RcvRaisesSo DEF DsShutdown, TcpShutdown, WsShutdown
  <2>2. Rcv # "unborn" /\ spawned = 1 /\ conns = 1
    BY <1>0, <1>3, Numbers DEF DsShutdown, TcpShutdown, WsShutdown, Rcv
  <2>3. OneConnection' /\ AppInv' /\ OneHandshake'
    BY <1>n, <1>3, <2>1, <2>2, RcvApart
    DEF DsShutdown, TcpShutdown, WsShutdown, RcvRaised, FramesGo, CountersStay, network, history,
        chunk
  <2>4. ThreadRoles'
    BY <1>0, <1>3, <2>1
    DEF RcvAt, RcvRaised, DsShutdown, TcpShutdown, WsShutdown, Rcv, ThreadRoles, ReceiverLabels,
        DsLabels, NdLabels
  <2>5. BeforeSession'
    BY <1>0, <1>3, <2>1, <2>2
    DEF RcvAt, RcvRaised, DsShutdown, TcpShutdown, WsShutdown, Rcv, ThreadRoles, BeforeSession,
        Early, Finally, DsLabels, NdLabels, flags, rcpts, history
  <2>6. Released'
    BY <1>0, <1>3, <2>1, <2>2
    DEF RcvAt, RcvRaised, DsShutdown, TcpShutdown, WsShutdown, Rcv, ThreadRoles, BeforeSession,
        Released, OneConnection, Finally, NdLabels, DsLabels, flags, history
  <2>7. Told'
    BY <1>0, <1>n, <1>3, <2>1, <2>2
    DEF RcvAt, RcvRaised, DsShutdown, TcpShutdown, WsShutdown, Rcv, ThreadRoles, BeforeSession,
        Told, HeartbeatOwes, ReceiverOwes, TellingLabels, DsLabels, NdLabels, flags, history
  <2> QED
    BY <2>3, <2>4, <2>5, <2>6, <2>7 DEF SInv, EndInv
<1>4. CASE DsCheckClose(1)
  <2>1. RcvAt("ds_close", Back) \/ (socket = None /\ RcvAt("ds_null", Back))
    BY <1>4, RcvGoes DEF DsCheckClose, DsHasSocket
  <2>2. Rcv # "unborn" /\ spawned = 1 /\ conns = 1
    BY <1>0, <1>4, Numbers DEF DsCheckClose, DsHasSocket, Rcv
  <2>3. OneConnection' /\ AppInv' /\ OneHandshake'
    BY <1>n, <1>4, <2>1, <2>2, RcvApart
    DEF DsCheckClose, DsHasSocket, FramesGo, CountersStay, network, sockets, history, chunk
  <2>4. ThreadRoles'
    BY <1>0, <1>4, <2>1
    DEF RcvAt, DsCheckClose, DsHasSocket, Rcv, ThreadRoles, ReceiverLabels, DsLabels, NdLabels
  <2>5. BeforeSession'
    BY <1>0, <1>4, <2>1, <2>2
    DEF RcvAt, DsCheckClose, DsHasSocket, Rcv, ThreadRoles, BeforeSession, Early, Finally, DsLabels,
        NdLabels, flags, rcpts, history
  <2>6. Released'
    BY <1>0, <1>4, <2>1, <2>2
    DEF RcvAt, DsCheckClose, DsHasSocket, Rcv, ThreadRoles, BeforeSession, Released, OneConnection,
        Finally, NdLabels, DsLabels, flags, sockets, history
  <2>7. Told'
    BY <1>0, <1>n, <1>4, <2>1, <2>2
    DEF RcvAt, DsCheckClose, DsHasSocket, Rcv, ThreadRoles, BeforeSession, Told, HeartbeatOwes,
        ReceiverOwes, TellingLabels, DsLabels, NdLabels, flags, history
  <2> QED
    BY <2>3, <2>4, <2>5, <2>6, <2>7 DEF SInv, EndInv
<1>5. CASE DsClose(1)
  <2>1. \/ socket = None /\ RcvRaised
        \/ socket # None /\ RcvAt("ds_null", Back) /\ UNCHANGED chunk
    BY <1>5, RcvGoes, RcvRaisesSo DEF DsClose
  <2>2. Rcv # "unborn" /\ spawned = 1 /\ conns = 1
    BY <1>0, <1>5, Numbers DEF DsClose, Rcv
  <2>3. OneConnection' /\ AppInv' /\ OneHandshake'
    BY <1>n, <1>5, <2>1, <2>2, RcvApart
    DEF DsClose, RcvRaised, FramesGo, CountersStay, network, history, chunk
  <2>4. ThreadRoles'
    BY <1>0, <1>5, <2>1
    DEF RcvAt, RcvRaised, DsClose, Rcv, ThreadRoles, ReceiverLabels, DsLabels, NdLabels
  <2>5. BeforeSession'
    BY <1>0, <1>5, <2>1, <2>2
    DEF RcvAt, RcvRaised, DsClose, Rcv, ThreadRoles, BeforeSession, Early, Finally, DsLabels,
        NdLabels, flags, rcpts, history
  <2>6. Released'
    BY <1>0, <1>5, <2>1, <2>2
    DEF RcvAt, RcvRaised, DsClose, Rcv, ThreadRoles, BeforeSession, Released, OneConnection,
        Finally, NdLabels, DsLabels, flags, history
  <2>7. Told'
    BY <1>0, <1>n, <1>5, <2>1, <2>2
    DEF RcvAt, RcvRaised, DsClose, Rcv, ThreadRoles, BeforeSession, Told, HeartbeatOwes,
        ReceiverOwes, TellingLabels, DsLabels, NdLabels, flags, history
  <2> QED
    BY <2>3, <2>4, <2>5, <2>6, <2>7 DEF SInv, EndInv
<1>6. CASE DsNull(1)
  <2>1. RcvAt("ds_notify?", Back)
    BY <1>6, RcvGoes DEF DsNull
  <2>2. Rcv # "unborn" /\ spawned = 1 /\ conns = 1
    BY <1>0, <1>6, Numbers DEF DsNull, Rcv
  <2>3. OneConnection' /\ AppInv' /\ OneHandshake'
    BY <1>n, <1>6, <2>1, <2>2, RcvApart DEF DsNull, FramesGo, CountersStay, network, history, chunk
  <2>4. ThreadRoles'
    BY <1>0, <1>6, <2>1 DEF RcvAt, DsNull, Rcv, ThreadRoles, ReceiverLabels, DsLabels, NdLabels
  <2>5. BeforeSession'
    BY <1>0, <1>6, <2>1, <2>2
    DEF RcvAt, DsNull, Rcv, ThreadRoles, BeforeSession, Early, Finally, DsLabels, NdLabels, flags,
        rcpts, history
  <2>6. Released'
    BY <1>0, <1>6, <2>1, <2>2
    DEF RcvAt, DsNull, Rcv, ThreadRoles, BeforeSession, Released, OneConnection, Finally, NdLabels,
        DsLabels, flags, history
  <2>7. Told'
    BY <1>0, <1>n, <1>6, <2>1, <2>2
    DEF RcvAt, DsNull, Rcv, ThreadRoles, BeforeSession, Told, HeartbeatOwes, ReceiverOwes,
        TellingLabels, DsLabels, NdLabels, flags, history
  <2> QED
    BY <2>3, <2>4, <2>5, <2>6, <2>7 DEF SInv, EndInv
<1>7. CASE DsCheckNotified(1)
  <2>1. (notified /\ RcvAt(Back, Back)) \/ (~notified /\ RcvAt("nd_flag", Back))
    BY <1>7, RcvGoes DEF DsCheckNotified, Return, Back
  <2>2. Rcv # "unborn" /\ spawned = 1 /\ conns = 1
    BY <1>0, <1>7, Numbers DEF DsCheckNotified, Return, Rcv
  <2>3. OneConnection' /\ AppInv' /\ OneHandshake'
    BY <1>0, <1>n, <1>7, <2>1, <2>2, RcvApart
    DEF DsCheckNotified, Return, Back, FramesGo, CountersStay, network, sockets, history, chunk,
        Rcv, ThreadRoles, DsLabels, NdLabels
  <2>4. ThreadRoles'
    BY <1>0, <1>7, <2>1
    DEF RcvAt, DsCheckNotified, Return, Back, Rcv, ThreadRoles, ReceiverLabels, DsLabels, NdLabels
  <2>5. BeforeSession'
    BY <1>0, <1>7, <2>1, <2>2
    DEF RcvAt, DsCheckNotified, Return, Back, Rcv, ThreadRoles, BeforeSession, Early, Finally,
        DsLabels, NdLabels, flags, rcpts, history
  <2>6. Released'
    BY <1>0, <1>7, <2>1, <2>2
    DEF RcvAt, DsCheckNotified, Return, Back, Rcv, ThreadRoles, BeforeSession, Released,
        OneConnection, Finally, NdLabels, DsLabels, flags, sockets, history
  <2>7. Told'
    BY <1>0, <1>n, <1>7, <2>1, <2>2
    DEF RcvAt, DsCheckNotified, Return, Back, Rcv, ThreadRoles, BeforeSession, Told, HeartbeatOwes,
        ReceiverOwes, TellingLabels, DsLabels, NdLabels, flags, history
  <2> QED
    BY <2>3, <2>4, <2>5, <2>6, <2>7 DEF SInv, EndInv
<1>8. CASE NdFlag(1)
  <2>1. RcvAt("nd_connected", Back)
    BY <1>8, RcvGoes DEF NdFlag
  <2>2. Rcv # "unborn" /\ spawned = 1 /\ conns = 1
    BY <1>0, <1>8, Numbers DEF NdFlag, Rcv
  <2>3. OneConnection' /\ AppInv' /\ OneHandshake'
    BY <1>n, <1>8, <2>1, <2>2, RcvApart
    DEF NdFlag, FramesGo, CountersStay, network, sockets, history, chunk
  <2>4. ThreadRoles'
    BY <1>0, <1>8, <2>1 DEF RcvAt, NdFlag, Rcv, ThreadRoles, ReceiverLabels, DsLabels, NdLabels
  <2>5. BeforeSession'
    BY <1>0, <1>8, <2>1, <2>2
    DEF RcvAt, NdFlag, Rcv, ThreadRoles, BeforeSession, Early, Finally, DsLabels, NdLabels, rcpts,
        history
  <2>6. Released'
    BY <1>0, <1>8, <2>1, <2>2
    DEF RcvAt, NdFlag, Rcv, ThreadRoles, BeforeSession, Released, OneConnection, Finally, NdLabels,
        DsLabels, sockets, history
  <2>7. Told'
    BY <1>0, <1>n, <1>8, <2>1, <2>2
    DEF RcvAt, NdFlag, Rcv, ThreadRoles, BeforeSession, Told, HeartbeatOwes, ReceiverOwes,
        TellingLabels, DsLabels, NdLabels, history
  <2> QED
    BY <2>3, <2>4, <2>5, <2>6, <2>7 DEF SInv, EndInv
<1>9. CASE NdConnected(1)
  <2>1. RcvAt("nd_listeners", Back)
    BY <1>9, RcvGoes DEF NdConnected, SetConnected
  <2>2. Rcv # "unborn" /\ spawned = 1 /\ conns = 1
    BY <1>0, <1>9, Numbers DEF NdConnected, SetConnected, Rcv
  <2>3. OneConnection' /\ AppInv' /\ OneHandshake'
    BY <1>n, <1>9, <2>1, <2>2, RcvApart
    DEF NdConnected, SetConnected, FramesGo, CountersStay, network, sockets, history, chunk
  <2>4. ThreadRoles'
    BY <1>0, <1>9, <2>1
    DEF RcvAt, NdConnected, SetConnected, Rcv, ThreadRoles, ReceiverLabels, DsLabels, NdLabels
  <2>5. BeforeSession'
    BY <1>0, <1>9, <2>1, <2>2
    DEF RcvAt, NdConnected, SetConnected, Rcv, ThreadRoles, BeforeSession, Early, Finally, DsLabels,
        NdLabels, rcpts, history
  <2>6. Released'
    BY <1>0, <1>9, <2>1, <2>2
    DEF RcvAt, NdConnected, SetConnected, Rcv, ThreadRoles, BeforeSession, Released, OneConnection,
        Finally, NdLabels, DsLabels, sockets, history
  <2>7. Told'
    BY <1>0, <1>n, <1>9, <2>1, <2>2
    DEF RcvAt, NdConnected, SetConnected, Rcv, ThreadRoles, BeforeSession, Told, HeartbeatOwes,
        ReceiverOwes, TellingLabels, DsLabels, NdLabels, history
  <2> QED
    BY <2>3, <2>4, <2>5, <2>6, <2>7 DEF SInv, EndInv
<1>10. CASE NdListeners(1)
  <2>1. \/ raises < MaxRaises /\ RcvRaised
        \/ RcvAt("nd_heartbeat", Back) /\ UNCHANGED chunk
    BY <1>10, RcvGoes, RcvRaisesSo DEF NdListeners
  <2>2. Rcv # "unborn" /\ spawned = 1 /\ conns = 1
    BY <1>0, <1>10, Numbers DEF NdListeners, Rcv
  <2>3. OneConnection' /\ AppInv' /\ OneHandshake'
    BY <1>n, <1>10, <2>1, <2>2, RcvApart
    DEF NdListeners, RcvRaised, FramesGo, CountersStay, network, sockets, chunk
  <2>4. ThreadRoles'
    BY <1>0, <1>10, <2>1
    DEF RcvAt, RcvRaised, NdListeners, Rcv, ThreadRoles, ReceiverLabels, DsLabels, NdLabels
  <2>5. BeforeSession'
    BY <1>0, <1>10, <2>1, <2>2
    DEF RcvAt, RcvRaised, NdListeners, Rcv, ThreadRoles, BeforeSession, Early, Finally, DsLabels,
        NdLabels, flags, rcpts
  <2>6. Released'
    BY <1>0, <1>10, <2>1, <2>2
    DEF RcvAt, RcvRaised, NdListeners, Rcv, ThreadRoles, BeforeSession, Released, OneConnection,
        Finally, NdLabels, DsLabels, flags, sockets
  <2>6a. told'[1] = told[1] + 1
    BY <1>n, <1>10, <2>2, Typed DEF NdListeners
  <2>7. Told'
      BY <1>0, <1>n, <1>10, <2>1, <2>2, <2>6a
      DEF RcvAt, RcvRaised, NdListeners, Rcv, ThreadRoles, BeforeSession, Told, HeartbeatOwes,
          ReceiverOwes, TellingLabels, NdLabels, flags
  <2> QED
    BY <2>3, <2>4, <2>5, <2>6, <2>7 DEF SInv, EndInv
<1>11. CASE NdHeartbeat(1)
  <2>1. RcvAt(Back, Back)
    BY <1>11, RcvGoes DEF NdHeartbeat, Return, Back
  <2>2. Rcv # "unborn" /\ spawned = 1 /\ conns = 1
    BY <1>0, <1>11, Numbers DEF NdHeartbeat, Return, Rcv
  <2>3. OneConnection' /\ AppInv' /\ OneHandshake'
    BY <1>0, <1>n, <1>11, <2>1, <2>2, RcvApart
    DEF NdHeartbeat, Return, Back, FramesGo, CountersStay, network, sockets, history, chunk, Rcv,
        ThreadRoles, DsLabels, NdLabels
  <2>4. ThreadRoles'
    BY <1>0, <1>11, <2>1
    DEF RcvAt, NdHeartbeat, Return, Back, Rcv, ThreadRoles, ReceiverLabels, DsLabels, NdLabels
  <2>5. BeforeSession'
    BY <1>0, <1>11, <2>1, <2>2
    DEF RcvAt, NdHeartbeat, Return, Back, Rcv, ThreadRoles, BeforeSession, Early, Finally, DsLabels,
        NdLabels, rcpts, history
  <2>6. Released'
    BY <1>0, <1>11, <2>1, <2>2
    DEF RcvAt, NdHeartbeat, Return, Back, Rcv, ThreadRoles, BeforeSession, Released, OneConnection,
        Finally, NdLabels, DsLabels, sockets, history
  <2>7. Told'
    BY <1>0, <1>n, <1>11, <2>1, <2>2
    DEF RcvAt, NdHeartbeat, Return, Back, Rcv, ThreadRoles, BeforeSession, Told, HeartbeatOwes,
        ReceiverOwes, TellingLabels, DsLabels, NdLabels, history
  <2> QED
    BY <2>3, <2>4, <2>5, <2>6, <2>7 DEF SInv, EndInv
<1> QED
  BY <1>1, <1>2, <1>3, <1>4, <1>5, <1>6, <1>7, <1>8, <1>9, <1>10, <1>11
  DEF DisconnectingSocket, Notifying

\* the receiver loop
LEMMA ReceivingKeeps ==
  ASSUME Reuse = "no", IInv, SInv, Receiving(1)
  PROVE  SInv'
<1> USE DEF At
<1>0. OneConnection /\ AppInv /\ OneHandshake /\ ThreadRoles /\ BeforeSession /\ Released /\ Told
  BY DEF SInv, EndInv
<1>n. /\ told[1] \in Nat /\ timeouts \in Nat /\ 1 \in Sockets /\ 1 \in Receivers
      /\ frames \in [Receivers -> Seq(ServerFrames)]
  BY Typed, First
<1>1. CASE ROuter(1)
  <2>1. (running /\ RcvAt("r_inner", Back)) \/ (~running /\ RcvAt("r_exit", Back))
    BY <1>1, RcvGoes DEF ROuter
  <2>2. Rcv # "unborn" /\ spawned = 1 /\ conns = 1
    BY <1>0, <1>1, Numbers DEF ROuter, Rcv
  <2>3. OneConnection' /\ AppInv' /\ OneHandshake'
    BY <1>n, <1>1, <2>1, <2>2, RcvApart
    DEF ROuter, FramesGo, CountersStay, network, sockets, history, chunk
  <2>4. ThreadRoles'
    BY <1>0, <1>1, <2>1 DEF RcvAt, ROuter, Rcv, ThreadRoles, ReceiverLabels, DsLabels, NdLabels
  <2>5. BeforeSession'
    BY <1>0, <1>1, <2>1, <2>2
    DEF RcvAt, ROuter, Rcv, ThreadRoles, BeforeSession, Early, Finally, DsLabels, NdLabels, flags,
        rcpts, history
  <2>6. Released'
    BY <1>0, <1>1, <2>1, <2>2
    DEF RcvAt, ROuter, Rcv, ThreadRoles, BeforeSession, Released, OneConnection, Finally, NdLabels,
        DsLabels, flags, sockets, history
  <2>7. Told'
    BY <1>0, <1>n, <1>1, <2>1, <2>2
    DEF RcvAt, ROuter, Rcv, ThreadRoles, BeforeSession, Told, HeartbeatOwes, ReceiverOwes,
        TellingLabels, DsLabels, NdLabels, flags, history
  <2> QED
    BY <2>3, <2>4, <2>5, <2>6, <2>7 DEF SInv, EndInv
<1>2. CASE RInner(1)
  <2>1. \/ running /\ socket # None /\ RcvAt("r_recv", Back)
        \/ running /\ RcvAt("r_lost", Back)
        \/ ~running /\ RcvAt("cl_close", "r_outer")
    BY <1>2, RcvGoes, RcvMoves DEF RInner, Call, Moves
  <2>2. Rcv # "unborn" /\ spawned = 1 /\ conns = 1
    BY <1>0, <1>2, Numbers DEF RInner, Call, Rcv
  <2>3. OneConnection' /\ AppInv' /\ OneHandshake'
    <3>1. /\ CountersStay /\ UNCHANGED <<toServer, toClient, socket, told>>
          /\ frames'[1] = frames[1]
          /\ reading'[1] = reading[1] \/ reading'[1] = 1
      <4>1. /\ CountersStay /\ UNCHANGED <<toServer, toClient, socket, told, frames>>
            /\ reading' = reading \/ (socket # None /\ reading' = [reading EXCEPT ![1] = socket])
        BY <1>2 DEF RInner, CountersStay, network, sockets, history
      <4>2. socket # None => socket = 1
        BY <1>0 DEF OneConnection
      <4>3. reading \in [Receivers -> Sockets \cup {None}]
        BY DEF IInv, ControlOK
      <4> QED
        BY <1>n, <4>1, <4>2, <4>3
    <3> QED
      BY <2>1, <2>2, <3>1, RcvApart DEF FramesGo
  <2>4. ThreadRoles'
    BY <1>0, <1>2, <2>1
    DEF RcvAt, RInner, Call, Rcv, ThreadRoles, ReceiverLabels, DsLabels, NdLabels
  <2>5. BeforeSession'
    BY <1>0, <1>2, <2>1, <2>2
    DEF RcvAt, RInner, Call, Rcv, ThreadRoles, BeforeSession, Early, Finally, DsLabels, NdLabels,
        flags, rcpts, history
  <2>6. Released'
    BY <1>0, <1>2, <2>1, <2>2
    DEF RcvAt, RInner, Call, Rcv, ThreadRoles, BeforeSession, Released, OneConnection, Finally,
        NdLabels, DsLabels, flags, sockets, history
  <2>7. Told'
    BY <1>0, <1>n, <1>2, <2>1, <2>2
    DEF RcvAt, RInner, Call, Rcv, ThreadRoles, BeforeSession, Told, HeartbeatOwes, ReceiverOwes,
        TellingLabels, DsLabels, NdLabels, flags, history
  <2> QED
    BY <2>3, <2>4, <2>5, <2>6, <2>7 DEF SInv, EndInv
<1>3. CASE RRecv(1)
  <2>1. RcvAt("r_frame", Back) \/ RcvAt("r_lost", Back)
    BY <1>3, RcvGoes DEF RRecv
  <2>2. Rcv # "unborn" /\ spawned = 1 /\ conns = 1
    BY <1>0, <1>3, Numbers DEF RRecv, Rcv
  <2>3. OneConnection' /\ AppInv' /\ OneHandshake'
    <3>1. reading[1] = 1
      BY <1>0, <1>n, <1>3 DEF RRecv, OneConnection, IInv, ControlOK, ReadsASocket
    <3>2. OneConnection' /\ AppInv'
      <4>1. CountersStay /\ UNCHANGED <<socket, told, reading, running>>
        BY <1>3 DEF RRecv, CountersStay, flags, sockets, history
      <4>2. \A r \in Receivers : pc'[r] = pc[r] \/ (r = 1 /\ pc[r] # "unborn" /\ pc'[r] # "unborn")
        BY <2>1, <2>2 DEF RcvAt, Rcv
      <4> QED
        BY <1>0, <2>1, <3>1, <4>1, <4>2, CountersKept, AppStays, First DEF RcvAt
    <3>3. /\ UNCHANGED <<sessions, toServer>> /\ (Sending' => Sending)
          /\ Len(toClient[1]) \in Nat /\ toClient[1] \in Seq(ServerFrames)
      BY <1>n, <1>3, <2>1, NobodySends, Typed, LenProperties DEF RRecv, RcvAt, history
    <3>4. ASSUME frames' = frames, toClient' = toClient PROVE OneHandshake'
      <4>1. OneHandshake /\ UNCHANGED <<sessions, toServer, toClient, frames>>
            /\ (Sending' => Sending)
        BY <1>0, <3>3, <3>4
      <4> QED
        BY <4>1, FramesStay
    <3>5. ASSUME NEW n \in 1..Len(toClient[1]),
                 frames'[1] = SubSeq(toClient[1], 1, n) \/ frames'[1] = <<>>,
                 toClient'[1] = SubSeq(toClient[1], n + 1, Len(toClient[1]))
          PROVE  OneHandshake'
      <4>1. /\ Len(frames'[1]) <= n /\ Len(frames'[1]) \in Nat
            /\ Len(toClient'[1]) = Len(toClient[1]) - n
            /\ toClient'[1] \in Seq(ServerFrames)
            /\ \A cmd : Lacks(toClient[1], cmd) =>
                            Lacks(frames'[1], cmd) /\ Lacks(toClient'[1], cmd)
        <5>1. n \in Nat \ {0} /\ n + 1 \in Nat \ {0} /\ n \in 0..Len(toClient[1])
              /\ Len(toClient[1]) \in 0..Len(toClient[1])
          BY <3>3
        <5>2. /\ Len(SubSeq(toClient[1], 1, n)) = n
              /\ \A cmd : Lacks(toClient[1], cmd) => Lacks(SubSeq(toClient[1], 1, n), cmd)
          BY <3>3, <5>1, PartSeq
        <5>3. /\ SubSeq(toClient[1], n + 1, Len(toClient[1])) \in Seq(ServerFrames)
              /\ Len(SubSeq(toClient[1], n + 1, Len(toClient[1]))) = Len(toClient[1]) - n
              /\ \A cmd : Lacks(toClient[1], cmd) =>
                            Lacks(SubSeq(toClient[1], n + 1, Len(toClient[1])), cmd)
          <6>1. n + 1 <= Len(toClient[1]) + 1
                /\ Len(toClient[1]) - (n + 1) + 1 = Len(toClient[1]) - n
            BY <3>3
          <6> QED
            BY <3>3, <5>1, <6>1, PartSeq
        <5>4. /\ Len(frames'[1]) <= n /\ Len(frames'[1]) \in Nat
              /\ \A cmd : Lacks(toClient[1], cmd) => Lacks(frames'[1], cmd)
          <6>1. CASE frames'[1] = SubSeq(toClient[1], 1, n)
            BY <5>1, <5>2, <6>1
          <6>2. CASE frames'[1] = <<>>
            <7>1. Len(frames'[1]) = 0
              BY <6>2
            <7> QED
              BY <5>1, <7>1 DEF Lacks
          <6> QED
            BY <3>5, <6>1, <6>2
        <5> QED
          BY <3>5, <5>3, <5>4
      <4>2. CASE sessions[1] = 0
        <5>1. Len(toClient[1]) = 1 /\ n = 1 /\ toClient[1] # <<>> /\ toServer[1] = <<>> /\ ~Sending
          BY <1>0, <3>3, <3>5, <4>2, SingleSeq DEF OneHandshake
        <5>2. Len(frames'[1]) <= 1 /\ Len(toClient'[1]) = 0 /\ toClient'[1] = <<>>
          BY <4>1, <5>1, EmptySeq
        <5> QED
          BY <1>0, <3>3, <4>2, <5>1, <5>2 DEF OneHandshake
      <4>3. CASE sessions[1] # 0
        BY <1>0, <3>3, <4>1, <4>3 DEF OneHandshake
      <4> QED
        BY <4>2, <4>3
    <3>6. \/ frames' = frames /\ toClient' = toClient
          \/ \E n \in 1..Len(toClient[1]) :
               /\ frames'[1] = SubSeq(toClient[1], 1, n) \/ frames'[1] = <<>>
               /\ toClient'[1] = SubSeq(toClient[1], n + 1, Len(toClient[1]))
      BY ZenonT(30), <1>n, <1>3, <3>1, Typed DEF RRecv
    <3> QED
      BY <3>2, <3>4, <3>5, <3>6
  <2>4. ThreadRoles'
    BY <1>0, <1>3, <2>1 DEF RcvAt, RRecv, Rcv, ThreadRoles, ReceiverLabels, DsLabels, NdLabels
  <2>5. BeforeSession'
    BY <1>0, <1>3, <2>1, <2>2
    DEF RcvAt, RRecv, Rcv, ThreadRoles, BeforeSession, Early, Finally, DsLabels, NdLabels, flags,
        rcpts, history
  <2>6. Released'
    BY <1>0, <1>3, <2>1, <2>2
    DEF RcvAt, RRecv, Rcv, ThreadRoles, BeforeSession, Released, OneConnection, Finally, NdLabels,
        DsLabels, flags, sockets, history
  <2>7. Told'
    BY <1>0, <1>n, <1>3, <2>1, <2>2
    DEF RcvAt, RRecv, Rcv, ThreadRoles, BeforeSession, Told, HeartbeatOwes, ReceiverOwes,
        TellingLabels, DsLabels, NdLabels, flags, history
  <2> QED
    BY <2>3, <2>4, <2>5, <2>6, <2>7 DEF SInv, EndInv
<1>4. CASE RNoMoreFrames(1)
  <2>1. RcvAt("r_inner", Back)
    BY <1>4, RcvGoes DEF RNoMoreFrames
  <2>2. Rcv # "unborn" /\ spawned = 1 /\ conns = 1
    BY <1>0, <1>4, Numbers DEF RNoMoreFrames, Rcv
  <2>3. OneConnection' /\ AppInv' /\ OneHandshake'
    BY <1>n, <1>4, <2>1, <2>2, RcvApart
    DEF RNoMoreFrames, FramesGo, CountersStay, network, sockets, history, chunk
  <2>4. ThreadRoles'
    BY <1>0, <1>4, <2>1
    DEF RcvAt, RNoMoreFrames, Rcv, ThreadRoles, ReceiverLabels, DsLabels, NdLabels
  <2>5. BeforeSession'
    BY <1>0, <1>4, <2>1, <2>2
    DEF RcvAt, RNoMoreFrames, Rcv, ThreadRoles, BeforeSession, Early, Finally, DsLabels, NdLabels,
        flags, rcpts, history
  <2>6. Released'
    BY <1>0, <1>4, <2>1, <2>2
    DEF RcvAt, RNoMoreFrames, Rcv, ThreadRoles, BeforeSession, Released, OneConnection, Finally,
        NdLabels, DsLabels, flags, sockets, history
  <2>7. Told'
    BY <1>0, <1>n, <1>4, <2>1, <2>2
    DEF RcvAt, RNoMoreFrames, Rcv, ThreadRoles, BeforeSession, Told, HeartbeatOwes, ReceiverOwes,
        TellingLabels, DsLabels, NdLabels, flags, history
  <2> QED
    BY <2>3, <2>4, <2>5, <2>6, <2>7 DEF SInv, EndInv
<1>5. CASE RConnected(1)
  <2>1. RcvAt("r_connected", Back)
    BY <1>5, RcvGoes DEF RConnected, SetConnected
  <2>2. /\ frames[1] # <<>> /\ sessions[1] = 0 /\ reading[1] = 1 /\ spawned = 1 /\ conns = 1
        /\ toServer[1] = <<>> /\ toClient[1] = <<>> /\ ~Sending /\ Len(frames'[1]) = 0
    <3>1. /\ frames[1] # <<>> /\ Head(frames[1]).cmd = "CONNECTED" /\ frames'[1] = Tail(frames[1])
          /\ frames[1] \in Seq(ServerFrames)
      BY <1>n, <1>5 DEF RConnected, NextFrame
    <3>2. /\ ~Lacks(frames[1], "CONNECTED") /\ Len(Tail(frames[1])) = Len(frames[1]) - 1
          /\ Len(frames[1]) \in Nat \ {0}
      BY <3>1, ShorterSeq
    <3>3. sessions[1] = 0 /\ toServer[1] = <<>> /\ toClient[1] = <<>> /\ ~Sending
          /\ Len(frames[1]) <= 1
      BY <1>0, <3>1, <3>2 DEF OneHandshake
    <3>4. spawned = 1 /\ conns = 1
      BY <1>0, <3>3, Numbers DEF Sending
    <3>5. Len(frames'[1]) = 0
      BY <3>1, <3>3, SingleSeq
    <3> QED
      BY <1>0, <3>1, <3>5, <3>3, <3>4 DEF OneConnection
  <2>3. /\ sessions'[1] # 0 /\ \A s \in Sockets : s # 1 => sessions'[s] = sessions[s]
        /\ UNCHANGED <<told, starts, conns, spawned, timeouts, reading, toServer, toClient,
                       socket, closed, running, notified>>
    <3>1. sessions' = [sessions EXCEPT ![1] = sessions[1] + 1]
      BY <1>5, <2>2 DEF RConnected
    <3>2. sessions'[1] = 1 /\ \A s \in Sockets : s # 1 => sessions'[s] = sessions[s]
      BY <1>n, <2>2, <3>1, Typed
    <3> QED
      BY <1>5, <3>2 DEF RConnected, network, sockets
  <2>4. OneConnection'
    BY <1>0, <1>n, <1>5, <2>1, <2>2, <2>3, First DEF RcvAt, RConnected, Rcv, OneConnection
  <2>5. AppInv'
    <3>1. \A u \in Users : pc[u] \notin Unsent
      BY <2>2 DEF Sending
    <3>2. UserRoles'
      BY <1>0, <2>1 DEF RcvAt, UsersStay, AppInv, UserRoles
    <3>3. OneCaller'
      BY <1>0, <2>1, <2>3, <3>1 DEF RcvAt, UsersStay, AppInv, OneCaller, ConnectLabels
    <3> QED
      BY <3>2, <3>3 DEF AppInv
  <2>6. OneHandshake'
    <3>1. /\ Len(toServer'[1]) = 0 /\ Len(toClient'[1]) = 0 /\ Len(frames'[1]) = 0
      BY <2>2, <2>3
    <3>2. \A q, cmd : Len(q) = 0 => Lacks(q, cmd)
      BY DEF Lacks
    <3> QED
      BY <2>3, <3>1, <3>2 DEF OneHandshake
  <2>7. ThreadRoles' /\ BeforeSession'
    BY <1>0, <1>5, <2>1, <2>3
    DEF RcvAt, RConnected, Rcv, ThreadRoles, BeforeSession, ReceiverLabels, DsLabels, NdLabels
  <2>8. Released'
    BY <1>0, <1>5, <2>1, <2>2, <2>3
    DEF RcvAt, RConnected, Rcv, BeforeSession, Released, Finally, NdLabels
  <2>9. Told'
    BY <1>0, <1>n, <1>5, <2>1, <2>2, <2>3
    DEF RcvAt, RConnected, Rcv, BeforeSession, Told, HeartbeatOwes, ReceiverOwes, TellingLabels,
        DsLabels, Early
  <2> QED
    BY <2>4, <2>5, <2>6, <2>7, <2>8, <2>9 DEF SInv, EndInv
<1>6. CASE ROnConnected(1)
  <2>1. \/ RcvRaised
        \/ RcvAt("r_frame", Back) /\ UNCHANGED chunk
    BY <1>6, RcvGoes, RcvRaisesSo DEF ROnConnected
  <2>2. Rcv # "unborn" /\ spawned = 1 /\ conns = 1
    BY <1>0, <1>6, Numbers DEF ROnConnected, Rcv
  <2>3. OneConnection' /\ AppInv' /\ OneHandshake'
    BY <1>n, <1>6, <2>1, <2>2, RcvApart
    DEF ROnConnected, RcvRaised, FramesGo, CountersStay, network, sockets, chunk
  <2>4. ThreadRoles'
    BY <1>0, <1>6, <2>1
    DEF RcvAt, RcvRaised, ROnConnected, Rcv, ThreadRoles, ReceiverLabels, DsLabels, NdLabels
  <2>5. BeforeSession'
    BY <1>0, <1>6, <2>1, <2>2
    DEF RcvAt, RcvRaised, ROnConnected, Rcv, ThreadRoles, BeforeSession, Early, Finally, DsLabels,
        NdLabels, rcpts
  <2>6. Released'
    BY <1>0, <1>6, <2>1, <2>2
    DEF RcvAt, RcvRaised, ROnConnected, Rcv, ThreadRoles, BeforeSession, Released, OneConnection,
        Finally, NdLabels, DsLabels, sockets
  <2>7. Told'
    BY <1>0, <1>n, <1>6, <2>1, <2>2
    DEF RcvAt, RcvRaised, ROnConnected, Rcv, ThreadRoles, BeforeSession, Told, HeartbeatOwes,
        ReceiverOwes, TellingLabels, DsLabels, NdLabels
  <2> QED
    BY <2>3, <2>4, <2>5, <2>6, <2>7 DEF SInv, EndInv
<1>7. CASE RError(1)
  <2>1. RcvAt("r_frame", Back)
    BY <1>7, First DEF RError, RcvAt, Rcv, Back, Hb, UsersStay
  <2>2. Rcv # "unborn" /\ spawned = 1 /\ conns = 1
    BY <1>0, <1>7, Numbers DEF RError, Rcv
  <2>3. OneConnection' /\ AppInv' /\ OneHandshake'
    BY <1>n, <1>7, <2>1, <2>2, RcvApart
    DEF RError, RcvAt, Rcv, Back, Hb, UsersStay, FramesGo, CountersStay, NextFrame, network,
        sockets, history
  <2>4. ThreadRoles'
    BY <1>0, <1>7, <2>1
    DEF RcvAt, RError, Rcv, Back, Hb, UsersStay, ThreadRoles, ReceiverLabels, DsLabels, NdLabels
  <2>5. BeforeSession'
    BY <1>0, <1>7, <2>1, <2>2
    DEF RcvAt, RError, Rcv, Back, Hb, UsersStay, ThreadRoles, BeforeSession, Early, Finally,
        DsLabels, NdLabels, rcpts, history
  <2>6. Released'
    BY <1>0, <1>7, <2>1, <2>2
    DEF RcvAt, RError, Rcv, Back, Hb, UsersStay, ThreadRoles, BeforeSession, Released,
        OneConnection, Finally, NdLabels, DsLabels, sockets, history
  <2>7. Told'
    BY <1>0, <1>n, <1>7, <2>1, <2>2
    DEF RcvAt, RError, Rcv, Back, Hb, UsersStay, ThreadRoles, BeforeSession, Told, HeartbeatOwes,
        ReceiverOwes, TellingLabels, DsLabels, NdLabels, history
  <2> QED
    BY <2>3, <2>4, <2>5, <2>6, <2>7 DEF SInv, EndInv
<1>8. CASE RReceipt(1)
  <2>1. RcvAt("r_frame", Back) \/ (receipts # {} /\ RcvAt("r_ack", Back))
    BY <1>8, RcvGoes, First DEF RReceipt, RcvAt, Rcv, Back, Hb, UsersStay
  <2>2. Rcv # "unborn" /\ spawned = 1 /\ conns = 1
    BY <1>0, <1>8, Numbers DEF RReceipt, Rcv
  <2>3. OneConnection' /\ AppInv' /\ OneHandshake'
    BY <1>n, <1>8, <2>1, <2>2, RcvApart
    DEF RReceipt, RcvAt, Rcv, Back, Hb, UsersStay, FramesGo, CountersStay, NextFrame, network,
        sockets, history
  <2>4. ThreadRoles'
    BY <1>0, <1>8, <2>1
    DEF RcvAt, RReceipt, Rcv, Back, Hb, UsersStay, ThreadRoles, ReceiverLabels, DsLabels, NdLabels
  <2>5. BeforeSession'
    BY <1>0, <1>8, <2>1, <2>2
    DEF RcvAt, RReceipt, Rcv, Back, Hb, UsersStay, ThreadRoles, BeforeSession, Early, Finally,
        DsLabels, NdLabels, flags, history
  <2>6. Released'
    BY <1>0, <1>8, <2>1, <2>2
    DEF RcvAt, RReceipt, Rcv, Back, Hb, UsersStay, ThreadRoles, BeforeSession, Released,
        OneConnection, Finally, NdLabels, DsLabels, flags, sockets, history
  <2>7. Told'
    BY <1>0, <1>n, <1>8, <2>1, <2>2
    DEF RcvAt, RReceipt, Rcv, Back, Hb, UsersStay, ThreadRoles, BeforeSession, Told, HeartbeatOwes,
        ReceiverOwes, TellingLabels, DsLabels, NdLabels, flags, history
  <2> QED
    BY <2>3, <2>4, <2>5, <2>6, <2>7 DEF SInv, EndInv
<1>9. CASE RAck(1)
  <2>1. RcvAt("r_match", Back)
    BY <1>9, RcvGoes DEF RAck, SetConnected
  <2>2. Rcv # "unborn" /\ spawned = 1 /\ conns = 1
    BY <1>0, <1>9, Numbers DEF RAck, SetConnected, Rcv
  <2>3. OneConnection' /\ AppInv' /\ OneHandshake'
    BY <1>n, <1>9, <2>1, <2>2, RcvApart
    DEF RAck, SetConnected, FramesGo, CountersStay, network, sockets, history, chunk
  <2>4. ThreadRoles'
    BY <1>0, <1>9, <2>1
    DEF RcvAt, RAck, SetConnected, Rcv, ThreadRoles, ReceiverLabels, DsLabels, NdLabels
  <2>5. BeforeSession'
    BY <1>0, <1>9, <2>1, <2>2
    DEF RcvAt, RAck, SetConnected, Rcv, ThreadRoles, BeforeSession, Early, Finally, DsLabels,
        NdLabels, rcpts, history
  <2>6. Released'
    BY <1>0, <1>9, <2>1, <2>2
    DEF RcvAt, RAck, SetConnected, Rcv, ThreadRoles, BeforeSession, Released, OneConnection,
        Finally, NdLabels, DsLabels, sockets, history
  <2>7. Told'
    BY <1>0, <1>n, <1>9, <2>1, <2>2
    DEF RcvAt, RAck, SetConnected, Rcv, ThreadRoles, BeforeSession, Told, HeartbeatOwes,
        ReceiverOwes, TellingLabels, DsLabels, NdLabels, history
  <2> QED
    BY <2>3, <2>4, <2>5, <2>6, <2>7 DEF SInv, EndInv
<1>10. CASE RMatch(1)
  <2>1. RcvAt("r_clear", Back) \/ RcvAt("ds_running", "r_clear")
    BY <1>10, RcvGoes, RcvMoves DEF RMatch, Call, Moves
  <2>2. Rcv # "unborn" /\ spawned = 1 /\ conns = 1
    BY <1>0, <1>10, Numbers DEF RMatch, Call, Rcv
  <2>3. OneConnection' /\ AppInv' /\ OneHandshake'
    BY <1>n, <1>10, <2>1, <2>2, RcvApart
    DEF RMatch, Call, FramesGo, CountersStay, network, sockets, history, chunk
  <2>4. ThreadRoles'
    BY <1>0, <1>10, <2>1
    DEF RcvAt, RMatch, Call, Rcv, ThreadRoles, ReceiverLabels, DsLabels, NdLabels
  <2>5. BeforeSession'
    BY <1>0, <1>10, <2>1, <2>2
    DEF RcvAt, RMatch, Call, Rcv, ThreadRoles, BeforeSession, Early, Finally, DsLabels, NdLabels,
        flags, rcpts, history
  <2>6. Released'
    BY <1>0, <1>10, <2>1, <2>2
    DEF RcvAt, RMatch, Call, Rcv, ThreadRoles, BeforeSession, Released, OneConnection, Finally,
        NdLabels, DsLabels, flags, sockets, history
  <2>7. Told'
    BY <1>0, <1>n, <1>10, <2>1, <2>2
    DEF RcvAt, RMatch, Call, Rcv, ThreadRoles, BeforeSession, Told, HeartbeatOwes, ReceiverOwes,
        TellingLabels, DsLabels, NdLabels, flags, history
  <2> QED
    BY <2>3, <2>4, <2>5, <2>6, <2>7 DEF SInv, EndInv
<1>11. CASE RClear(1)
  <2>1. RcvAt("r_frame", Back)
    BY <1>11, RcvGoes DEF RClear
  <2>2. Rcv # "unborn" /\ spawned = 1 /\ conns = 1
    BY <1>0, <1>11, Numbers DEF RClear, Rcv
  <2>3. OneConnection' /\ AppInv' /\ OneHandshake'
    BY <1>n, <1>11, <2>1, <2>2, RcvApart
    DEF RClear, FramesGo, CountersStay, NextFrame, network, sockets, history
  <2>4. ThreadRoles'
    BY <1>0, <1>11, <2>1 DEF RcvAt, RClear, Rcv, ThreadRoles, ReceiverLabels, DsLabels, NdLabels
  <2>5. BeforeSession'
    BY <1>0, <1>11, <2>1, <2>2
    DEF RcvAt, RClear, Rcv, ThreadRoles, BeforeSession, Early, Finally, DsLabels, NdLabels, flags,
        history
  <2>6. Released'
    BY <1>0, <1>11, <2>1, <2>2
    DEF RcvAt, RClear, Rcv, ThreadRoles, BeforeSession, Released, OneConnection, Finally, NdLabels,
        DsLabels, flags, sockets, history
  <2>7. Told'
    BY <1>0, <1>n, <1>11, <2>1, <2>2
    DEF RcvAt, RClear, Rcv, ThreadRoles, BeforeSession, Told, HeartbeatOwes, ReceiverOwes,
        TellingLabels, DsLabels, NdLabels, flags, history
  <2> QED
    BY <2>3, <2>4, <2>5, <2>6, <2>7 DEF SInv, EndInv
<1>12. CASE RLost(1)
  <2>1. RcvAt("cl_close", "r_exit")
    BY <1>12, RcvMoves DEF RLost, Call, Moves
  <2>2. Rcv # "unborn" /\ spawned = 1 /\ conns = 1
    BY <1>0, <1>12, Numbers DEF RLost, Call, Rcv
  <2>3. OneConnection' /\ AppInv' /\ OneHandshake'
    BY <1>n, <1>12, <2>1, <2>2, RcvApart
    DEF RLost, Call, FramesGo, CountersStay, network, sockets, history, chunk
  <2>4. ThreadRoles'
    BY <1>0, <1>12, <2>1
    DEF RcvAt, RLost, Call, Rcv, ThreadRoles, ReceiverLabels, DsLabels, NdLabels
  <2>5. BeforeSession'
    BY <1>0, <1>12, <2>1, <2>2
    DEF RcvAt, RLost, Call, Rcv, ThreadRoles, BeforeSession, Early, Finally, DsLabels, NdLabels,
        rcpts, history
  <2>6. Released'
    BY <1>0, <1>12, <2>1, <2>2
    DEF RcvAt, RLost, Call, Rcv, ThreadRoles, BeforeSession, Released, OneConnection, Finally,
        NdLabels, DsLabels, sockets, history
  <2>7. Told'
    BY <1>0, <1>n, <1>12, <2>1, <2>2
    DEF RcvAt, RLost, Call, Rcv, ThreadRoles, BeforeSession, Told, HeartbeatOwes, ReceiverOwes,
        TellingLabels, DsLabels, NdLabels, history
  <2> QED
    BY <2>3, <2>4, <2>5, <2>6, <2>7 DEF SInv, EndInv
<1>13. CASE CleanupClose(1)
  <2>1. RcvAt("cl_null", Back)
    BY <1>13, RcvGoes DEF CleanupClose
  <2>2. Rcv # "unborn" /\ spawned = 1 /\ conns = 1
    BY <1>0, <1>13, Numbers DEF CleanupClose, Rcv
  <2>3. OneConnection' /\ AppInv' /\ OneHandshake'
    BY <1>n, <1>13, <2>1, <2>2, RcvApart
    DEF CleanupClose, FramesGo, CountersStay, network, history, chunk
  <2>4. ThreadRoles'
    BY <1>0, <1>13, <2>1
    DEF RcvAt, CleanupClose, Rcv, ThreadRoles, ReceiverLabels, DsLabels, NdLabels
  <2>5. BeforeSession'
    BY <1>0, <1>13, <2>1, <2>2
    DEF RcvAt, CleanupClose, Rcv, ThreadRoles, BeforeSession, Early, Finally, DsLabels, NdLabels,
        flags, rcpts, history
  <2>6. Released'
    BY <1>0, <1>13, <2>1, <2>2
    DEF RcvAt, CleanupClose, Rcv, ThreadRoles, BeforeSession, Released, OneConnection, Finally,
        NdLabels, DsLabels, flags, history
  <2>7. Told'
    BY <1>0, <1>n, <1>13, <2>1, <2>2
    DEF RcvAt, CleanupClose, Rcv, ThreadRoles, BeforeSession, Told, HeartbeatOwes, ReceiverOwes,
        TellingLabels, DsLabels, NdLabels, flags, history
  <2> QED
    BY <2>3, <2>4, <2>5, <2>6, <2>7 DEF SInv, EndInv
<1>14. CASE CleanupNull(1)
  <2>1. RcvAt(Back, Back)
    BY <1>14, RcvGoes DEF CleanupNull, Return, Back
  <2>2. Rcv # "unborn" /\ spawned = 1 /\ conns = 1
    BY <1>0, <1>14, Numbers DEF CleanupNull, Return, Rcv
  <2>3. OneConnection' /\ AppInv' /\ OneHandshake'
    BY <1>0, <1>n, <1>14, <2>1, <2>2, RcvApart
    DEF CleanupNull, Return, Back, FramesGo, CountersStay, network, history, chunk, Rcv,
        ThreadRoles, DsLabels, NdLabels
  <2>4. ThreadRoles'
    BY <1>0, <1>14, <2>1
    DEF RcvAt, CleanupNull, Return, Back, Rcv, ThreadRoles, ReceiverLabels, DsLabels, NdLabels
  <2>5. BeforeSession'
    BY <1>0, <1>14, <2>1, <2>2
    DEF RcvAt, CleanupNull, Return, Back, Rcv, ThreadRoles, BeforeSession, Early, Finally, DsLabels,
        NdLabels, flags, rcpts, history
  <2>6. Released'
    BY <1>0, <1>14, <2>1, <2>2
    DEF RcvAt, CleanupNull, Return, Back, Rcv, ThreadRoles, BeforeSession, Released, OneConnection,
        Finally, NdLabels, DsLabels, flags, history
  <2>7. Told'
    BY <1>0, <1>n, <1>14, <2>1, <2>2
    DEF RcvAt, CleanupNull, Return, Back, Rcv, ThreadRoles, BeforeSession, Told, HeartbeatOwes,
        ReceiverOwes, TellingLabels, DsLabels, NdLabels, flags, history
  <2> QED
    BY <2>3, <2>4, <2>5, <2>6, <2>7 DEF SInv, EndInv
<1>15. CASE RExit(1)
  <2>1. RcvAt("r_notify?", Back)
    BY <1>15, RcvGoes DEF RExit
  <2>2. Rcv # "unborn" /\ spawned = 1 /\ conns = 1
    BY <1>0, <1>15, Numbers DEF RExit, Rcv
  <2>3. OneConnection' /\ AppInv' /\ OneHandshake'
    BY <1>n, <1>15, <2>1, <2>2, RcvApart
    DEF RExit, FramesGo, CountersStay, network, sockets, history, chunk
  <2>4. ThreadRoles'
    BY <1>0, <1>15, <2>1 DEF RcvAt, RExit, Rcv, ThreadRoles, ReceiverLabels, DsLabels, NdLabels
  <2>5. BeforeSession'
    BY <1>0, <1>15, <2>1, <2>2
    DEF RcvAt, RExit, Rcv, ThreadRoles, BeforeSession, Early, Finally, DsLabels, NdLabels, rcpts,
        history
  <2>6. Released'
    BY <1>0, <1>15, <2>1, <2>2
    DEF RcvAt, RExit, Rcv, ThreadRoles, BeforeSession, Released, OneConnection, Finally, NdLabels,
        DsLabels, sockets, history
  <2>7. Told'
    BY <1>0, <1>n, <1>15, <2>1, <2>2
    DEF RcvAt, RExit, Rcv, ThreadRoles, BeforeSession, Told, HeartbeatOwes, ReceiverOwes,
        TellingLabels, DsLabels, NdLabels, history
  <2> QED
    BY <2>3, <2>4, <2>5, <2>6, <2>7 DEF SInv, EndInv
<1>16. CASE RCheckNotified(1)
  <2>1. (notified /\ RcvAt("r_wake", Back)) \/ (~notified /\ RcvAt("nd_flag", "r_wake"))
    BY <1>16, RcvGoes, RcvMoves DEF RCheckNotified, Call, Moves
  <2>2. Rcv # "unborn" /\ spawned = 1 /\ conns = 1
    BY <1>0, <1>16, Numbers DEF RCheckNotified, Call, Rcv
  <2>3. OneConnection' /\ AppInv' /\ OneHandshake'
    BY <1>n, <1>16, <2>1, <2>2, RcvApart
    DEF RCheckNotified, Call, FramesGo, CountersStay, network, sockets, history, chunk
  <2>4. ThreadRoles'
    BY <1>0, <1>16, <2>1
    DEF RcvAt, RCheckNotified, Call, Rcv, ThreadRoles, ReceiverLabels, DsLabels, NdLabels
  <2>5. BeforeSession'
    BY <1>0, <1>16, <2>1, <2>2
    DEF RcvAt, RCheckNotified, Call, Rcv, ThreadRoles, BeforeSession, Early, Finally, DsLabels,
        NdLabels, flags, rcpts, history
  <2>6. Released'
    BY <1>0, <1>16, <2>1, <2>2
    DEF RcvAt, RCheckNotified, Call, Rcv, ThreadRoles, BeforeSession, Released, OneConnection,
        Finally, NdLabels, DsLabels, flags, sockets, history
  <2>7. Told'
    BY <1>0, <1>n, <1>16, <2>1, <2>2
    DEF RcvAt, RCheckNotified, Call, Rcv, ThreadRoles, BeforeSession, Told, HeartbeatOwes,
        ReceiverOwes, TellingLabels, DsLabels, NdLabels, flags, history
  <2> QED
    BY <2>3, <2>4, <2>5, <2>6, <2>7 DEF SInv, EndInv
<1>17. CASE RWake(1)
  <2>1. RcvAt("r_reset", Back)
    BY <1>17, RcvGoes DEF RWake
  <2>2. Rcv # "unborn" /\ spawned = 1 /\ conns = 1
    BY <1>0, <1>17, Numbers DEF RWake, Rcv
  <2>3. OneConnection' /\ AppInv' /\ OneHandshake'
    BY <1>n, <1>17, <2>1, <2>2, RcvApart
    DEF RWake, FramesGo, CountersStay, network, sockets, history, chunk
  <2>4. ThreadRoles'
    BY <1>0, <1>17, <2>1 DEF RcvAt, RWake, Rcv, ThreadRoles, ReceiverLabels, DsLabels, NdLabels
  <2>5. BeforeSession'
    BY <1>0, <1>17, <2>1, <2>2
    DEF RcvAt, RWake, Rcv, ThreadRoles, BeforeSession, Early, Finally, DsLabels, NdLabels, flags,
        rcpts, history
  <2>6. Released'
    BY <1>0, <1>17, <2>1, <2>2
    DEF RcvAt, RWake, Rcv, ThreadRoles, BeforeSession, Released, OneConnection, Finally, NdLabels,
        DsLabels, flags, sockets, history
  <2>7. Told'
    BY <1>0, <1>n, <1>17, <2>1, <2>2
    DEF RcvAt, RWake, Rcv, ThreadRoles, BeforeSession, Told, HeartbeatOwes, ReceiverOwes,
        TellingLabels, DsLabels, NdLabels, flags, history
  <2> QED
    BY <2>3, <2>4, <2>5, <2>6, <2>7 DEF SInv, EndInv
<1>18. CASE RReset(1)
  <2>1. RcvAt("r_done", Back)
    BY <1>18, RcvGoes DEF RReset
  <2>2. Rcv # "unborn" /\ spawned = 1 /\ conns = 1
    BY <1>0, <1>18, Numbers DEF RReset, Rcv
  <2>3. OneConnection' /\ AppInv' /\ OneHandshake'
    BY <1>n, <1>18, <2>1, <2>2, RcvApart
    DEF RReset, FramesGo, CountersStay, network, sockets, history, chunk
  <2>4. ThreadRoles'
    BY <1>0, <1>18, <2>1 DEF RcvAt, RReset, Rcv, ThreadRoles, ReceiverLabels, DsLabels, NdLabels
  <2>5. BeforeSession'
    BY <1>0, <1>18, <2>1, <2>2
    DEF RcvAt, RReset, Rcv, ThreadRoles, BeforeSession, Early, Finally, DsLabels, NdLabels, rcpts,
        history
  <2>6. Released'
    BY <1>0, <1>18, <2>1, <2>2
    DEF RcvAt, RReset, Rcv, ThreadRoles, BeforeSession, Released, OneConnection, Finally, NdLabels,
        DsLabels, sockets, history
  <2>7. Told'
    BY <1>0, <1>n, <1>18, <2>1, <2>2
    DEF RcvAt, RReset, Rcv, ThreadRoles, BeforeSession, Told, HeartbeatOwes, ReceiverOwes,
        TellingLabels, DsLabels, NdLabels, history
  <2> QED
    BY <2>3, <2>4, <2>5, <2>6, <2>7 DEF SInv, EndInv
<1>19. CASE RCompletedRaises(1)
  <2>1. RcvAt("r_dead", Back)
    BY <1>19, RcvGoes DEF RCompletedRaises
  <2>2. Rcv # "unborn" /\ spawned = 1 /\ conns = 1
    BY <1>0, <1>19, Numbers DEF RCompletedRaises, Rcv
  <2>3. OneConnection' /\ AppInv' /\ OneHandshake'
    BY <1>n, <1>19, <2>1, <2>2, RcvApart
    DEF RCompletedRaises, FramesGo, CountersStay, network, sockets, chunk
  <2>4. ThreadRoles'
    BY <1>0, <1>19, <2>1
    DEF RcvAt, RCompletedRaises, Rcv, ThreadRoles, ReceiverLabels, DsLabels, NdLabels
  <2>5. BeforeSession'
    BY <1>0, <1>19, <2>1, <2>2
    DEF RcvAt, RCompletedRaises, Rcv, ThreadRoles, BeforeSession, Early, Finally, DsLabels, NdLabels, flags,
        rcpts
  <2>6. Released'
    BY <1>0, <1>19, <2>1, <2>2
    DEF RcvAt, RCompletedRaises, Rcv, ThreadRoles, BeforeSession, Released, OneConnection, Finally, NdLabels,
        DsLabels, flags, sockets
  <2>7. Told'
    BY <1>0, <1>n, <1>19, <2>1, <2>2
    DEF RcvAt, RCompletedRaises, Rcv, ThreadRoles, BeforeSession, Told, HeartbeatOwes, ReceiverOwes,
        TellingLabels, DsLabels, NdLabels, flags
  <2> QED
    BY <2>3, <2>4, <2>5, <2>6, <2>7 DEF SInv, EndInv
<1> QED
  BY <1>1, <1>2, <1>3, <1>4, <1>5, <1>6, <1>7, <1>8, <1>9, <1>10, <1>11, <1>12, <1>13, <1>14, <1>15,
     <1>16, <1>17, <1>18, <1>19
  DEF Receiving

-----------------------------------------------------------------------------
(* The server and the network *)

\* They touch the frames under way only.
LEMMA NetworkApart ==
  ASSUME IInv, SInv,
         UNCHANGED <<flags, rcpts, waiters, sockets, chunk, history, spawned, pc, ret>>
  PROVE  /\ OneConnection' /\ AppInv' /\ EndInv' /\ (Sending' => Sending)
         /\ frames' = frames /\ sessions' = sessions
<1>1. UsersStay /\ OthersStay /\ CountersStay
  BY DEF UsersStay, OthersStay, CountersStay, Hb, Rcv, Back, sockets, history
<1>2. OneConnection'
  BY <1>1, CountersKept DEF SInv, OneConnection, sockets, chunk, history
<1>3. AppInv'
  BY <1>1, AppStays DEF SInv, flags
<1>4. EndInv'
  BY <1>1, EndStays DEF SInv, flags, rcpts, sockets, history
<1>5. Sending' => Sending
  BY <1>1, NobodySends
<1> QED
  BY <1>2, <1>3, <1>4, <1>5 DEF chunk, history

\* The answer takes the place of the frame it answers.
LEMMA AnswerKeeps ==
  ASSUME IInv, SInv, NEW s \in Sockets, Answer(s)
  PROVE  SInv'
<1>1. /\ OneConnection' /\ AppInv' /\ EndInv' /\ (Sending' => Sending)
      /\ frames' = frames /\ sessions' = sessions
  BY NetworkApart DEF Answer
<1>2. /\ toServer \in [Sockets -> Seq(ClientFrames)] /\ toClient \in [Sockets -> Seq(ServerFrames)]
      /\ 1 \in Sockets /\ OneHandshake
  BY Typed, First DEF SInv
<1>3. OneHandshake'
  <2>1. CASE s # 1
    <3>1. toServer'[1] = toServer[1] /\ toClient'[1] = toClient[1]
      BY <1>2, <2>1 DEF Answer
    <3> QED
      BY <1>1, <1>2, <3>1 DEF OneHandshake
  <2>2. CASE s = 1
    <3>1. PICK e \in ServerFrames :
            /\ toServer[1] # <<>> /\ toServer'[1] = Tail(toServer[1])
            /\ toClient'[1] = Append(toClient[1], e)
            /\ Head(toServer[1]).cmd = "CONNECT" \/ e.cmd = "RECEIPT"
      <4>1. /\ toServer[1] # <<>> /\ toServer'[1] = Tail(toServer[1])
            /\ \/ toClient'[1] = Append(toClient[1], Frame("CONNECTED", None))
               \/ toClient'[1] = Append(toClient[1], Frame("ERROR", None))
               \/ toClient'[1] = Append(toClient[1], Frame("RECEIPT", Head(toServer[1]).id))
            /\ \/ Head(toServer[1]).cmd = "CONNECT"
               \/ /\ Head(toServer[1]).cmd = "DISCONNECT"
                  /\ toClient'[1] = Append(toClient[1], Frame("RECEIPT", Head(toServer[1]).id))
        BY <1>2, <2>2 DEF Answer
      <4>2. Head(toServer[1]) \in ClientFrames
        BY <1>2, <4>1, ShorterSeq
      <4>3. Head(toServer[1]).cmd = "DISCONNECT" =>
              Frame("RECEIPT", Head(toServer[1]).id) \in ServerFrames
        BY <4>2 DEF ClientFrames, ServerFrames, Frame
      <4>4. /\ Frame("CONNECTED", None) \in ServerFrames /\ Frame("ERROR", None) \in ServerFrames
            /\ Frame("RECEIPT", Head(toServer[1]).id).cmd = "RECEIPT"
        BY DEF ServerFrames, Frame
      <4>5. CASE Head(toServer[1]).cmd = "DISCONNECT"
        BY <4>1, <4>3, <4>4, <4>5
      <4>6. CASE Head(toServer[1]).cmd = "CONNECT"
        BY <1>2, <2>2, <4>1, <4>4, <4>6 DEF Answer
      <4> QED
        BY <4>1, <4>5, <4>6
    <3>2. /\ Len(Append(toClient[1], e)) = Len(toClient[1]) + 1
          /\ Append(toClient[1], e) \in Seq(ServerFrames)
          /\ \A cmd : Lacks(toClient[1], cmd) /\ e.cmd # cmd => Lacks(Append(toClient[1], e), cmd)
      BY <1>2, <3>1, LongerSeq
    <3>3. \A cmd : Lacks(toServer[1], cmd) =>
                    Lacks(Tail(toServer[1]), cmd) /\ Head(toServer[1]).cmd # cmd
      BY <1>2, <3>1, ShorterSeq
    <3>4. CASE sessions[1] = 0
      <4>1. Len(toServer[1]) <= 1 /\ toClient[1] = <<>> /\ frames[1] = <<>> /\ ~Sending
        BY <1>2, <3>1, <3>4 DEF OneHandshake
      <4>2. Len(Tail(toServer[1])) = 0
        BY <1>2, <3>1, <4>1, SingleSeq
      <4>3. Tail(toServer[1]) = <<>>
        BY <1>2, <3>1, <4>2, ShorterSeq, EmptySeq
      <4>4. Len(Append(toClient[1], e)) = 1
        BY <3>2, <4>1
      <4> QED
        BY <1>1, <3>1, <3>4, <4>1, <4>2, <4>3, <4>4 DEF OneHandshake
    <3>5. CASE sessions[1] # 0
      <4>1. /\ Lacks(toServer[1], "CONNECT") /\ Lacks(toClient[1], "CONNECTED")
            /\ Lacks(frames[1], "CONNECTED")
        BY <1>2, <3>5 DEF OneHandshake
      <4> QED
        BY <1>1, <3>1, <3>2, <3>3, <3>5, <4>1 DEF OneHandshake
    <3> QED
      BY <3>4, <3>5
  <2> QED
    BY <2>1, <2>2
<1> QED
  BY <1>1, <1>3 DEF SInv

\* The network loses the last of the frames.
LEMMA PartIsFewer ==
  ASSUME NEW S, NEW q \in Seq(S), NEW p \in Seq(S), NEW n \in 0..Len(q), Len(p) = n - 1 + 1,
         \A cmd : Lacks(q, cmd) => Lacks(p, cmd)
  PROVE  FewerFrames(p, q)
<1>1. Len(q) \in Nat /\ Len(p) = n /\ n \in Nat
  BY LenProperties
<1>2. Len(q) <= 1 => Len(p) <= 1
  BY <1>1
<1>3. q = <<>> => p = <<>>
  BY <1>1, EmptySeq
<1> QED
  BY <1>2, <1>3 DEF FewerFrames
\* It keeps the invariant.
LEMMA LoseKeeps ==
  ASSUME IInv, SInv, NEW s \in Sockets, Lose(s)
  PROVE  SInv'
<1>1. /\ OneConnection' /\ AppInv' /\ EndInv' /\ (Sending' => Sending)
      /\ frames' = frames /\ sessions' = sessions /\ toServer' = toServer
  BY NetworkApart DEF Lose
<1>2. /\ toClient \in [Sockets -> Seq(ServerFrames)] /\ toClient[1] \in Seq(ServerFrames)
      /\ 1 \in Sockets /\ OneHandshake
  BY Typed, First DEF SInv
<1>3. FewerFrames(toClient'[1], toClient[1])
  <2>1. PICK n \in 0..Len(toClient[s]) : toClient' = [toClient EXCEPT ![s] = SubSeq(@, 1, n)]
    BY DEF Lose
  <2>2. CASE s # 1
    BY <1>2, <2>1, <2>2, SameFrames
  <2>3. CASE s = 1
    <3>1. toClient'[1] = SubSeq(toClient[1], 1, n) /\ n \in 0..Len(toClient[1])
      BY <1>2, <2>1, <2>3
    <3>2. Len(toClient[1]) \in Nat
      BY <1>2, LenProperties
    <3>3. /\ SubSeq(toClient[1], 1, n) \in Seq(ServerFrames)
          /\ Len(SubSeq(toClient[1], 1, n)) = n - 1 + 1
          /\ \A cmd : Lacks(toClient[1], cmd) => Lacks(SubSeq(toClient[1], 1, n), cmd)
      <4>1. 1 \in Nat \ {0} /\ 1 <= n + 1
        BY <3>1, <3>2
      <4> QED
        BY <1>2, <3>1, <4>1, PartSeq
    <3>4. FewerFrames(SubSeq(toClient[1], 1, n), toClient[1])
      BY <1>2, <3>1, <3>3, PartIsFewer
    <3> QED
      BY <3>1, <3>4
  <2> QED
    BY <2>2, <2>3
<1>4. OneHandshake'
  BY <1>1, <1>2, <1>3, FramesKept, SameFrames
<1> QED
  BY <1>1, <1>4 DEF SInv

-----------------------------------------------------------------------------
(* The invariant *)

\* Only application threads connect, and there is one receiver.
LEMMA WhoMoves ==
  ASSUME IInv, SInv
  PROVE  /\ \A t \in Threads : Connecting(t) => t \in Users
         /\ \A t \in Receivers \cup {Heartbeat} :
              DisconnectingSocket(t) \/ Notifying(t) => t \in {1, Heartbeat}
         /\ \A r \in Receivers : Receiving(r) => r = 1
<1>1. \A r \in Receivers : r # 1 => pc[r] = "unborn"
  BY Numbers DEF SInv
<1>2. pc[1] \notin ConnectLabels /\ pc[Heartbeat] \notin ConnectLabels
  BY
  DEF SInv, EndInv, ThreadRoles, Hb, Rcv, ConnectLabels, HeartbeatLabels, ReceiverLabels, DsLabels,
      NdLabels, StopLabels
<1>3. \A t \in Threads : Connecting(t) => t \in Users
  <2>1. \A t : Connecting(t) => pc[t] \in ConnectLabels
    BY
    DEF Connecting, Start, Attempt, Dial, Verify, Spawn, SendConnect, WaitForConnection,
        WakeFromConnectWait, WaitTest, At, ConnectLabels
  <2> QED
    BY <1>1, <1>2, <2>1 DEF Threads, ConnectLabels
<1>4. \A t : DisconnectingSocket(t) \/ Notifying(t) \/ Receiving(t) => pc[t] # "unborn"
  BY ZenonT(30)
  DEF DisconnectingSocket, Notifying, Receiving, At, DsRunning, DsCheckShutdown, DsShutdown,
      DsCheckClose, DsClose, DsNull, DsCheckNotified, DsHasSocket, NdFlag, NdConnected, NdListeners,
      NdHeartbeat, ROuter, RInner, RRecv, RNoMoreFrames, RConnected, ROnConnected, RError, RReceipt,
      RAck, RMatch, RClear, RLost, CleanupClose, CleanupNull, RExit, RCompletedRaises, RCheckNotified, RWake,
      RReset
<1> QED
  BY <1>1, <1>3, <1>4

\* Every step keeps the invariant, ...
LEMMA SessionStep ==
  ASSUME Reuse = "no", IInv, SInv, [Next]_vars
  PROVE  SInv'
<1>1. CASE UNCHANGED vars
  <2>1. UNCHANGED <<flags, rcpts, waiters, sockets, chunk, history, spawned, pc, ret>>
        /\ UNCHANGED <<toServer, toClient>>
    BY <1>1 DEF vars, network
  <2>2. OneConnection' /\ AppInv' /\ EndInv' /\ (Sending' => Sending) /\ UNCHANGED <<frames,
                                                                                     sessions>>
    BY <2>1, NetworkApart
  <2>3. OneHandshake'
    BY <2>1, <2>2, FramesStay DEF SInv
  <2> QED
    BY <2>2, <2>3 DEF SInv
<1>2. ASSUME NEW u \in Users,
             Connect(u) \/ Disconnect(u) \/ Disconnecting(u) \/ Stopping(u)
      PROVE  SInv'
  BY <1>2, ApplicationKeeps
<1>3. ASSUME NEW t \in Threads, Connecting(t) PROVE SInv'
  BY <1>3, WhoMoves, ConnectingKeeps
<1>4. CASE \/ HbTimeout(Heartbeat) \/ HbSetConnected(Heartbeat) \/ Stopping(Heartbeat)
           \/ DisconnectingSocket(Heartbeat) \/ Notifying(Heartbeat)
  BY <1>4, HeartbeatKeeps
<1>5. CASE DisconnectingSocket(1) \/ Notifying(1)
  BY <1>5, EndingKeeps
<1>6. CASE Receiving(1)
  BY <1>6, ReceivingKeeps
<1>7. ASSUME NEW s \in Sockets, Answer(s) \/ Lose(s) PROVE SInv'
  BY <1>7, AnswerKeeps, LoseKeeps
<1>8. ASSUME NEW t \in Receivers \cup {Heartbeat}, DisconnectingSocket(t) \/ Notifying(t)
      PROVE SInv'
  BY <1>4, <1>5, <1>8, WhoMoves
<1>9. ASSUME NEW r \in Receivers, Receiving(r) PROVE SInv'
  BY <1>6, <1>9, WhoMoves
<1> QED
  BY <1>1, <1>2, <1>3, <1>4, <1>7, <1>8, <1>9 DEF Next, Rest

\* ... and it holds at the start.
LEMMA SessionInit ==
  ASSUME Init
  PROVE  SInv
<1>1. /\ 1 \in Sockets /\ 1 \in Receivers /\ Hb = "hb_loop" /\ Rcv = "unborn" /\ Back = "idle"
      /\ \A u \in Users : pc[u] = "idle"
      /\ \A r \in Receivers : pc[r] = "unborn" /\ r > 0
  BY First, ThreadKinds DEF Init, Hb, Rcv, Back, Receivers
<1>2. /\ sessions[1] = 0 /\ told[1] = 0 /\ reading[1] = None
      /\ toServer[1] = <<>> /\ toClient[1] = <<>> /\ frames[1] = <<>> /\ Len(<<>>) = 0
  BY <1>1 DEF Init
<1>3. OneConnection
  <2>1. starts = 0 /\ conns = 0 /\ spawned = 0 /\ socket = None
    BY DEF Init
  <2>2. \A s \in Sockets : sessions[s] = 0 /\ told[s] = 0
    BY DEF Init
  <2> QED
    BY <1>1, <1>2, <2>1, <2>2 DEF OneConnection
<1>4. AppInv
  BY <1>1 DEF Init, AppInv, UserRoles, OneCaller, UserLabels, ConnectLabels, DiscLabels, Unsent
<1>5. OneHandshake
  BY <1>2 DEF OneHandshake
<1>6. ThreadRoles /\ BeforeSession /\ Released
  BY <1>1, <1>2
  DEF Init, ThreadRoles, BeforeSession, Released, HeartbeatLabels, ReceiverLabels, DsLabels,
      NdLabels, Early, Finally
<1>7. Told
  BY <1>1, <1>2, BoundsAssumption
  DEF Init, Told, HeartbeatOwes, ReceiverOwes, DsLabels, TellingLabels
<1> QED
  BY <1>3, <1>4, <1>5, <1>6, <1>7 DEF SInv, EndInv

\* The invariant, with the types, is one of the specification.
LEMMA SessionInvariance == Reuse = "no" /\ Spec => [](IInv /\ SInv)
<1> SUFFICES ASSUME Reuse = "no" PROVE Spec => [](IInv /\ SInv)
  OBVIOUS
<1>1. Init => SInv
  BY SessionInit
<1>2. IInv /\ SInv /\ [Next]_vars => SInv'
  BY SessionStep
<1> QED
  BY <1>1, <1>2, Invariance, PTL DEF Spec

\* When the receiver of the connection has ended, however the connection ended
\* and whatever the heartbeat thread was doing at the time, the transport has no
\* socket, and the socket is closed (disconnect_socket() and cleanup()).
THEOREM SocketReleasedOnce == Reuse = "no" /\ Spec => []SocketReleased
<1>1. IInv /\ SInv => SocketReleased
  <2> SUFFICES ASSUME IInv, SInv, NEW r \in Receivers, pc[r] \in {"r_done", "r_dead"}, conns = r
               PROVE  socket = None /\ r \in closed
    BY DEF SocketReleased
  <2>1. r = 1
    BY Numbers DEF SInv
  <2> QED
    BY <2>1 DEF SInv, EndInv, Released, Rcv, Finally
<1> QED
  BY <1>1, SessionInvariance, PTL

\* on_disconnected is called once for the connection, and once more at most for
\* every time the heartbeat thread gives it up.
THEOREM ToldOncePerThreadOnce == Reuse = "no" /\ Spec => []ToldOncePerThread
<1>1. IInv /\ SInv => ToldOncePerThread
  <2> SUFFICES ASSUME IInv, SInv, NEW s \in Sockets PROVE told[s] <= 1 + timeouts
    BY DEF ToldOncePerThread
  <2>1. told[1] \in Nat /\ timeouts \in Nat
    BY Typed, First
  <2>2. told[1] <= 1 + timeouts
    BY <2>1 DEF SInv, EndInv, Told, HeartbeatOwes, ReceiverOwes
  <2>3. s # 1 => told[s] = 0
    BY DEF SInv, OneConnection
  <2> QED
    BY <2>1, <2>2, <2>3
<1> QED
  BY <1>1, SessionInvariance, PTL

\* When the receiver has ended the listeners have been told, or a thread is
\* about to tell them: the flag notified_on_disconnect never loses the call.
\* (A listener that raises in on_receiver_loop_completed leaves the receiver at
\* "r_dead" instead.)
THEOREM LossIsToldOnce == Reuse = "no" /\ Spec => []LossIsTold
<1>1. IInv /\ SInv => LossIsTold
  <2> SUFFICES ASSUME IInv, SInv, NEW r \in Receivers, pc[r] = "r_done"
               PROVE  told[r] > 0 \/ Telling # {}
    BY DEF LossIsTold
  <2>1. r = 1 /\ Rcv = "r_done"
    BY Numbers DEF SInv, Rcv
  <2>2. told[1] > 0 \/ Hb \in TellingLabels \/ Rcv \in TellingLabels
    BY <2>1 DEF SInv, EndInv, Told
  <2>3. Hb \in TellingLabels => Heartbeat \in Telling
    BY ThreadKinds DEF Hb, TellingLabels, Telling
  <2> QED
    BY <2>1, <2>2, <2>3 DEF TellingLabels
<1> QED
  BY <1>1, SessionInvariance, PTL

-----------------------------------------------------------------------------
(* Refinement *)

\* The application sees one connection.
StagesSeen ==
  /\ Seen = [s \in Sockets |-> IF s = 1 THEN Stage(1) ELSE "none"]
  /\ conns = 0 => Stage(1) = "none"
  /\ conns = 1 /\ connected => Stage(1) = "up"
  /\ conns = 1 /\ ~connected /\ sessions[1] = 0 /\ told[1] = 0 => Stage(1) = "open"
  /\ conns = 1 /\ ~connected /\ (sessions[1] # 0 \/ told[1] # 0) => Stage(1) = "down"
\* The invariant says what the stage of the connection is.
LEMMA SeenStages ==
  ASSUME IInv, SInv
  PROVE  StagesSeen
<1>1. conns \in {0, 1} /\ 1 \in Sockets /\ told \in [Sockets -> Nat] /\ sessions[1] \in Nat
      /\ told[1] \in Nat
  BY Numbers, Typed, First DEF SInv
<1>2. connected => sessions[1] > 0
  BY <1>1 DEF SInv, EndInv, BeforeSession
<1>3. \A s \in Sockets : s # 1 => s > conns
  BY <1>1 DEF Sockets
<1>4. \A s \in Sockets : Stage(s) = IF s = 1 THEN Stage(1) ELSE "none"
  BY <1>3 DEF Stage
<1>5. Seen = [s \in Sockets |-> IF s = 1 THEN Stage(1) ELSE "none"] 
  BY <1>1, <1>4 DEF Seen
<1>6. /\ conns = 0 => Stage(1) = "none"
      /\ conns = 1 /\ connected => Stage(1) = "up"
      /\ conns = 1 /\ ~connected /\ sessions[1] = 0 /\ told[1] = 0 => Stage(1) = "open"
      /\ conns = 1 /\ ~connected /\ (sessions[1] # 0 \/ told[1] # 0) => Stage(1) = "down"
  BY <1>1, <1>2 DEF Stage
<1> QED
  BY <1>1, <1>5, <1>6 DEF StagesSeen

\* Every step is one the contract allows, or changes nothing the application sees.
LEMMA SeenStep ==
  ASSUME IInv, SInv, StagesSeen, StagesSeen', [Next]_vars
  PROVE  UNCHANGED <<Seen, told>> \/ Promised!ContractNext
<1> USE DEF At
<1>1. /\ 1 \in Sockets /\ told \in [Sockets -> Nat] /\ timeouts \in 0..MaxTimeouts
      /\ told[1] \in Nat /\ conns \in {0, 1}
  BY First, Typed, Numbers DEF SInv, IInv, DataTypeOK
<1>2. Seen' = [s \in Sockets |-> IF s = 1 THEN Stage(1)' ELSE "none"]
  BY DEF StagesSeen
<1>3. Seen = [s \in Sockets |-> IF s = 1 THEN Stage(1) ELSE "none"]
  BY DEF StagesSeen
<1>4. \A x, y : Stage(1) = x /\ Stage(1)' = y => Seen[1] = x /\ Seen' = [Seen EXCEPT ![1] = y]
  BY <1>1, <1>2, <1>3
<1>5. ASSUME Unseen PROVE UNCHANGED <<Seen, told>>
  <2>1. Stage(1)' = Stage(1)
    BY <1>5 DEF Unseen, Stage
  <2> QED
    BY <1>2, <1>3, <1>5, <2>1 DEF Unseen
<1>6. ASSUME NEW u \in Users, Dial(u) PROVE Unseen \/ Promised!ContractNext
  <2>1. UNCHANGED <<connected, sessions, told>>
    BY <1>6 DEF Dial, flags, history
  <2>2. /\ sessions[1] = 0 /\ conns = 0 /\ Rcv = "unborn" /\ ~connected /\ told[1] = 0
    <3>1. sessions[1] = 0 /\ conns = 0
      BY <1>6 DEF Dial, SInv, AppInv, OneCaller, Unsent
    <3> QED
      BY <3>1, Numbers DEF SInv, EndInv, BeforeSession, Early
  <2>3. CASE conns' = conns
    BY <2>1, <2>3 DEF Unseen
  <2>4. CASE conns' = conns + 1
    <3>1. Stage(1) = "none" /\ Stage(1)' = "open"
      BY <2>1, <2>2, <2>4 DEF StagesSeen
    <3>2. Promised!Open(1)
      BY <1>4, <2>1, <3>1 DEF Promised!Open, Promised!Move, Seen
    <3> QED
      BY <1>1, <3>2 DEF Promised!ContractNext
  <2> QED
    BY <1>6, <2>3, <2>4 DEF Dial
<1>7. ASSUME connected' = FALSE, UNCHANGED <<conns, sessions, told>>
      PROVE  Unseen \/ Promised!ContractNext
  <2>1. CASE ~connected
    <3>1. connected' = connected
      BY <1>7, <2>1 DEF IInv, DataTypeOK
    <3> QED
      BY <1>7, <3>1 DEF Unseen
  <2>2. CASE connected
    <3>1. sessions[1] # 0 /\ conns = 1
      BY <2>2, Numbers DEF SInv, EndInv, BeforeSession, OneConnection
    <3>2. Stage(1) = "up" /\ Stage(1)' = "down"
      BY <1>7, <2>2, <3>1 DEF StagesSeen
    <3>3. Promised!Drop(1)
      BY <1>4, <1>7, <3>2 DEF Promised!Drop, Promised!Move, Seen
    <3> QED
      BY <1>1, <3>3 DEF Promised!ContractNext
  <2> QED
    BY <2>1, <2>2
<1>8. ASSUME NEW t \in {1, Heartbeat}, NdListeners(t) PROVE Promised!ContractNext
  <2>1. conns = 1 /\ ~connected /\ UNCHANGED <<conns, connected, sessions>>
    <3>1. conns = 1
      BY <1>8, Numbers DEF NdListeners, SInv, EndInv, BeforeSession, OneConnection, Hb, Rcv
    <3>2. ~connected
      BY <1>8 DEF NdListeners, SInv, EndInv, Told, Hb, Rcv
    <3> QED
      BY <1>8, <3>1, <3>2 DEF NdListeners, flags, sockets
  <2>2. told' = [told EXCEPT ![1] = told[1] + 1] /\ told'[1] = told[1] + 1
    BY <1>1, <1>8, <2>1 DEF NdListeners
  <2>3. told[1] < 1 + MaxTimeouts
    <3>1. HeartbeatOwes + ReceiverOwes \in {1, 2}
      BY <1>8 DEF NdListeners, HeartbeatOwes, ReceiverOwes, TellingLabels, Hb, Rcv
    <3>2. told[1] + HeartbeatOwes + ReceiverOwes <= 1 + timeouts
      BY DEF SInv, EndInv, Told
    <3>3. HeartbeatOwes \in {0, 1} /\ ReceiverOwes \in {0, 1}
      BY DEF HeartbeatOwes, ReceiverOwes
    <3> QED
      BY <1>1, <3>1, <3>2, <3>3, BoundsAssumption
  <2>4. Stage(1) \in {"open", "down"} /\ Stage(1)' = "down"
    <3>1. told'[1] # 0
      BY <1>1, <2>2
    <3> QED
      BY <2>1, <3>1 DEF StagesSeen
  <2>5. Promised!Tell(1)
    BY <1>4, <2>2, <2>3, <2>4 DEF Promised!Tell, Seen
  <2> QED
    BY <1>1, <2>5 DEF Promised!ContractNext
<1>9. ASSUME RConnected(1) PROVE Promised!ContractNext
  <2>1. /\ frames[1] # <<>> /\ Head(frames[1]).cmd = "CONNECTED" /\ frames[1] \in Seq(ServerFrames)
        /\ connected' = TRUE /\ UNCHANGED <<told, conns>> /\ Rcv = "r_frame"
        /\ sessions' = [sessions EXCEPT ![reading[1]] = @ + 1]
    BY <1>9, Typed, First DEF RConnected, SetConnected, sockets, Rcv
  <2>2. sessions[1] = 0
    <3>1. ~Lacks(frames[1], "CONNECTED")
      BY <2>1, ShorterSeq
    <3> QED
      BY <3>1 DEF SInv, OneHandshake
  <2>3. conns = 1 /\ ~connected /\ told[1] = 0
    BY <2>1, <2>2, Numbers DEF SInv, EndInv, BeforeSession, Early
  <2>4. Stage(1) = "open" /\ Stage(1)' = "up"
    BY <2>1, <2>2, <2>3 DEF StagesSeen
  <2>5. Promised!Establish(1)
    BY <1>4, <2>1, <2>4 DEF Promised!Establish, Promised!Move, Seen
  <2> QED
    BY <1>1, <2>5 DEF Promised!ContractNext
<1>10. ASSUME NEW t \in Threads, HbSetConnected(t) \/ NdConnected(t) \/ RAck(t)
       PROVE  Unseen \/ Promised!ContractNext
  <2>1. connected' = FALSE /\ UNCHANGED <<conns, sessions, told>>
    BY <1>10 DEF HbSetConnected, NdConnected, RAck, SetConnected, sockets, history
  <2> QED
    BY <1>7, <2>1
<1>11. \A t \in Threads : Dial(t) => t \in Users
  BY WhoMoves DEF Connecting
<1>12. \A t \in Receivers \cup {Heartbeat} : NdListeners(t) => t \in {1, Heartbeat}
  BY WhoMoves DEF Notifying
<1>13. \A r \in Receivers : RConnected(r) => r = 1
  BY WhoMoves DEF Receiving
<1> QED
  BY UnseenSteps, WhoMoves, ThreadKinds, <1>5, <1>6, <1>8, <1>9, <1>10, <1>11, <1>12, <1>13

\* What the application sees of its connection - how often the session comes up
\* and goes down, and how often it is told - is what ConnectionContract allows:
\* one session at most, on_disconnected only of a session that is not up, and
\* no session after it.
THEOREM ContractKeptOnce == Reuse = "no" /\ Spec => ImplementsSafety
<1> SUFFICES ASSUME Reuse = "no" PROVE Spec => ImplementsSafety
  OBVIOUS
<1>1. IInv /\ SInv => StagesSeen
  BY SeenStages
<1>2. IInv /\ SInv /\ StagesSeen /\ StagesSeen' /\ [Next]_vars
        => [Promised!ContractNext]_(Promised!contractVars)
  BY SeenStep DEF Promised!contractVars, Seen
<1> QED
  BY <1>1, <1>2, SeenFirst, SessionInvariance, PTL
  DEF Spec, ImplementsSafety, Promised!ContractSafety
=============================================================================
