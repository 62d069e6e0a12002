---------------------------- MODULE ContextProofs ----------------------------
(***************************************************************************)
(* A with statement that has ended has ended the connection, for the       *)
(* application that connects once: a theorem for any number of threads     *)
(* that disconnect beside the manager, of heartbeat timeouts and of        *)
(* raising callbacks.                                                      *)
(*                                                                         *)
(* __exit__ returns on a flag that the last listener but one sets.  The    *)
(* argument is the order of the steps before it: whoever calls the         *)
(* listeners has taken the socket away, and connect() does not bring a     *)
(* second one, so that what was true when the flag was set still is.       *)
(***************************************************************************)
EXTENDS TransportProofs, ContextManager

\* the connection was made and its socket is gone for good
Unplugged == conns = 1 /\ socket = None
\* what disconnect_socket() and the receiver do once the socket is gone
Leaving == {"ds_notify?"} \cup NdLabels

\* who calls the listeners, or has called them, has no socket any more
OverOK ==
  /\ told[1] > 0 => Unplugged
  /\ \A t \in Threads : pc[t] \in Leaving => Unplugged
  /\ \A t \in Threads : pc[t] = "nd_heartbeat" => told[1] > 0
\* what the flags of the WaitingListener stand for
HeardOK == (disconnected => told[1] > 0) /\ (exit = "returned" => disconnected)

-----------------------------------------------------------------------------
(* The steps of the transport *)

\* nobody begins to leave the connection, and nobody calls the listeners
NobodyLeaves ==
  \A t \in Threads :
    /\ pc'[t] \in Leaving => pc[t] \in Leaving
    /\ pc'[t] = "nd_heartbeat" => pc[t] = "nd_heartbeat"
\* who has been told has been told
StillTold == told[1] > 0 => told'[1] > 0
SocketStays == conns' = conns /\ socket' \in {socket, None}

\* A step in which nobody begins to leave keeps the order.
LEMMA OverStays ==
  ASSUME OverOK, NobodyLeaves, SocketStays, UNCHANGED told
  PROVE  OverOK'
BY DEF OverOK, NobodyLeaves, SocketStays, Unplugged

\* A thread that goes on elsewhere does not begin to leave, ...
LEMMA GoesElsewhere ==
  ASSUME IInv, NEW t \in Threads, NEW l, l \notin Leaving, Goto(t, l)
  PROVE  NobodyLeaves
BY Typed DEF Goto, NobodyLeaves, Leaving, NdLabels
\* ... nor does one that calls another method, ...
LEMMA CallsElsewhere ==
  ASSUME IInv, NEW t \in Threads, NEW l, NEW n, l \notin Leaving, Call(t, l, n)
  PROVE  NobodyLeaves
BY Typed DEF Call, NobodyLeaves, Leaving, NdLabels
\* ... or one that an exception takes out of its methods.
LEMMA RaisesElsewhere ==
  ASSUME IInv, NEW t \in Threads, Raise(t)
  PROVE  NobodyLeaves
BY Typed DEF Raise, NobodyLeaves, Leaving, NdLabels
\* No step is taken by a thread that stays.
LEMMA NobodyMoves ==
  ASSUME UNCHANGED pc
  PROVE  NobodyLeaves
BY DEF NobodyLeaves

\* connect() makes the one socket before anybody can leave.
LEMMA ConnectingOver ==
  ASSUME IInv, SInv, OverOK, NEW t \in Users, Connecting(t)
  PROVE  OverOK'
<1> USE DEF At
<1>0. /\ t \in Threads /\ (pc[t] = "send_connect" => ret[t] \in {"wait", "idle"})
      /\ (pc[t] = "dial" => conns = 0)
  BY ThreadKinds DEF SInv, AppInv, UserRoles, OneCaller, ConnectLabels
<1>1. CASE Dial(t)
  <2>1. NobodyLeaves /\ UNCHANGED told
    BY <1>0, <1>1, GoesElsewhere DEF Dial, Leaving, NdLabels, history
  <2>2. ~Unplugged
    BY <1>0, <1>1 DEF Dial, Unplugged
  <2> QED
    BY <2>1, <2>2 DEF OverOK, NobodyLeaves
<1>2. CASE Spawn(t)
  <2>1. NobodyLeaves
    BY <1>2, Typed DEF Spawn, NobodyLeaves, Leaving, NdLabels
  <2> QED
    BY <1>2, <2>1, OverStays DEF Spawn, SocketStays, sockets, history
<1>3. CASE Start(t) \/ Attempt(t) \/ WaitForConnection(t) \/ WakeFromConnectWait(t)
  <2>1. NobodyLeaves
    BY <1>0, <1>3, GoesElsewhere
    DEF Start, Attempt, WaitForConnection, WakeFromConnectWait, Leaving, NdLabels
  <2> QED
    BY <1>3, <2>1, OverStays
    DEF Start, Attempt, WaitForConnection, WakeFromConnectWait, SocketStays, sockets, history
<1>4. CASE Verify(t) \/ WaitTest(t) \/ SendConnect(t)
  <2>1. NobodyLeaves
    BY <1>0, <1>4, GoesElsewhere, RaisesElsewhere
    DEF Verify, WaitTest, AfterConnect, SendConnect, Send, Leaving, NdLabels
  <2> QED
    BY <1>4, <2>1, OverStays
    DEF Verify, WaitTest, SendConnect, Send, SocketStays, sockets, history
<1> QED
  BY <1>1, <1>2, <1>3, <1>4 DEF Connecting

\* The application's other calls leave the socket to the other threads.
LEMMA ApplicationOver ==
  ASSUME IInv, SInv, OverOK, NEW t \in Users,
         Connect(t) \/ Disconnect(t) \/ Disconnecting(t) \/ Stopping(t)
  PROVE  OverOK'
<1> USE DEF At
<1>0. t \in Threads /\ (pc[t] \in DiscLabels => ret[t] \in {"stop", "idle"})
  BY ThreadKinds DEF SInv, AppInv, UserRoles
<1>1. CASE Connect(t) \/ Disconnect(t)
  <2>1. NobodyLeaves
    BY <1>0, <1>1, CallsElsewhere DEF Connect, Disconnect, Leaving, NdLabels
  <2> QED
    BY <1>1, <2>1, OverStays DEF Connect, Disconnect, SocketStays, sockets
<1>2. CASE Disconnecting(t)
  <2>1. NobodyLeaves
    BY <1>0, <1>2, GoesElsewhere, RaisesElsewhere
    DEF Disconnecting, DiscCheck, Return, DiscReceipt, DiscTransmit, DiscSend, Send, DiscLabels,
        Leaving, NdLabels
  <2> QED
    BY <1>2, <2>1, OverStays
    DEF Disconnecting, DiscCheck, DiscReceipt, DiscTransmit, DiscSend, Send, SocketStays, sockets,
        history
<1>3. CASE Stopping(t)
  <2>1. NobodyLeaves
    BY <1>0, <1>3, GoesElsewhere
    DEF Stopping, Stop, WakeFromStopWait, AfterStop, Leaving, NdLabels
  <2> QED
    BY <1>3, <2>1, OverStays
    DEF Stopping, Stop, WakeFromStopWait, SocketStays, sockets, history
<1> QED
  BY <1>1, <1>2, <1>3

\* disconnect_socket() forgets the socket before it tells anybody.
LEMMA DisconnectingOver ==
  ASSUME IInv, SInv, OverOK, NEW t \in {1, Heartbeat}, DisconnectingSocket(t), conns = 1
  PROVE  OverOK'
<1> USE DEF At
<1>0. t \in Threads /\ (pc[t] \in DsLabels => ret[t] \in {"r_clear", "stop"})
  BY First, ThreadKinds DEF SInv, EndInv, ThreadRoles, Hb, Rcv, Back
<1>1. CASE DsNull(t)
  <2>1. Unplugged' /\ UNCHANGED told /\ pc' = [pc EXCEPT ![t] = "ds_notify?"]
    BY <1>1 DEF DsNull, Goto, Unplugged, history
  <2> QED
    BY <2>1, Typed DEF OverOK
<1>2. CASE DsCheckNotified(t)
  <2>1. Unplugged' /\ UNCHANGED told /\ \E l \in {"r_clear", "stop", "nd_flag"} : Goto(t, l)
    BY <1>0, <1>2
    DEF DsCheckNotified, Return, DsLabels, OverOK, Leaving, Unplugged, sockets, history
  <2> QED
    BY <2>1, Typed DEF OverOK, Goto
<1>3. CASE DsRunning(t) \/ DsCheckShutdown(t) \/ DsShutdown(t) \/ DsCheckClose(t) \/ DsClose(t)
  <2>1. NobodyLeaves
    BY <1>0, <1>3, GoesElsewhere, RaisesElsewhere
    DEF DsRunning, DsCheckShutdown, DsShutdown, DsCheckClose, DsClose, DsHasSocket, Leaving,
        NdLabels
  <2> QED
    BY <1>3, <2>1, OverStays
    DEF DsRunning, DsCheckShutdown, DsShutdown, DsCheckClose, DsClose, DsHasSocket, SocketStays,
        sockets, history
<1> QED
  BY <1>1, <1>2, <1>3 DEF DisconnectingSocket

\* notify("disconnected") tells the listeners of one connection.
LEMMA NotifyingOver ==
  ASSUME Reuse = "no", IInv, SInv, OverOK, NEW t \in {1, Heartbeat}, Notifying(t)
  PROVE  OverOK' /\ StillTold
<1> USE DEF At
<1>0. /\ t \in Threads /\ (pc[t] \in NdLabels => ret[t] \in {"r_clear", "r_wake", "stop"})
      /\ told \in [Sockets -> Nat] /\ 1 \in Sockets /\ told[1] \in Nat
  BY First, Typed, ThreadKinds DEF SInv, EndInv, ThreadRoles, Hb, Rcv, Back
<1>1. pc[t] \in NdLabels
  BY DEF Notifying, NdFlag, NdConnected, NdListeners, NdHeartbeat, NdLabels
<1>2. Unplugged
  BY <1>0, <1>1 DEF OverOK, Leaving
<1>3. CASE NdListeners(t)
  <2>1. UNCHANGED sockets /\ told'[1] = told[1] + 1 /\ (Goto(t, "nd_heartbeat") \/ Raise(t))
    BY <1>0, <1>2, <1>3 DEF NdListeners, Unplugged
  <2>2. Unplugged' /\ told'[1] > 0
    BY <1>0, <1>2, <2>1 DEF Unplugged, sockets
  <2> QED
    BY <1>0, <2>1, <2>2 DEF OverOK, StillTold
<1>4. CASE NdFlag(t) \/ NdConnected(t) \/ NdHeartbeat(t)
  <2>1. \E l \in {"nd_connected", "nd_listeners", "r_clear", "r_wake", "stop"} : Goto(t, l)
    BY <1>0, <1>1, <1>4 DEF NdFlag, NdConnected, NdHeartbeat, Return
  <2>2. UNCHANGED <<told, conns, socket>>
    BY <1>4 DEF NdFlag, NdConnected, NdHeartbeat, sockets, history
  <2> QED
    BY <1>0, <1>2, <2>1, <2>2, Typed DEF OverOK, Unplugged, Goto, StillTold
<1> QED
  BY <1>3, <1>4 DEF Notifying

\* The receiver tells the listeners when the socket is gone.
LEMMA ReceivingOver ==
  ASSUME IInv, SInv, OverOK, Receiving(1)
  PROVE  OverOK'
<1> USE DEF At
<1>0. /\ 1 \in Threads /\ SocketStays /\ UNCHANGED told
      /\ (Rcv \in {"cl_close", "cl_null"} => Back \in {"r_outer", "r_exit"})
  <2>1. SocketStays /\ UNCHANGED told
    BY
    DEF Receiving, ROuter, RInner, RRecv, RNoMoreFrames, RConnected, ROnConnected, RError,
        RReceipt, RAck, RMatch, RClear, RLost, CleanupClose, CleanupNull, RExit, RCompletedRaises,
        RCheckNotified, RWake, RReset, SocketStays, sockets, history
  <2> QED
    BY <2>1, First DEF SInv, EndInv, ThreadRoles
<1>1. CASE RCheckNotified(1) /\ ~notified
  <2>1. Unplugged /\ pc' = [pc EXCEPT ![1] = "nd_flag"]
    BY <1>1, Numbers
    DEF RCheckNotified, Call, Unplugged, SInv, OneConnection, EndInv, Released, Finally, Rcv
  <2>2. Unplugged'
    BY <1>0, <2>1 DEF SocketStays, Unplugged
  <2> QED
    BY <1>0, <2>1, <2>2, Typed DEF OverOK
<1>2. CASE \/ ROuter(1) \/ RInner(1) \/ RRecv(1) \/ RNoMoreFrames(1) \/ RConnected(1)
           \/ ROnConnected(1) \/ RAck(1) \/ RMatch(1) \/ RClear(1) \/ RLost(1)
  <2>1. NobodyLeaves
    BY <1>0, <1>2, GoesElsewhere, CallsElsewhere, RaisesElsewhere
    DEF ROuter, RInner, RRecv, RNoMoreFrames, RConnected, ROnConnected, RAck, RMatch, RClear,
        RLost, Leaving, NdLabels
  <2> QED
    BY <1>0, <2>1, OverStays
<1>3. CASE \/ RError(1) \/ RReceipt(1) \/ CleanupClose(1) \/ CleanupNull(1) \/ RExit(1)
           \/ (RCheckNotified(1) /\ notified) \/ RCompletedRaises(1) \/ RWake(1)
           \/ RReset(1)
  <2>1. NobodyLeaves
    BY <1>0, <1>3, GoesElsewhere, NobodyMoves
    DEF RError, RReceipt, CleanupClose, CleanupNull, RExit, RCompletedRaises, RCheckNotified, RWake,
        RReset, Return,
        Leaving, NdLabels, Rcv, Back
  <2> QED
    BY <1>0, <2>1, OverStays
<1> QED
  BY <1>1, <1>2, <1>3 DEF Receiving

\* The heartbeat loop gives up a connection that was made.
LEMMA HeartbeatOver ==
  ASSUME IInv, SInv, OverOK,
         HbTimeout(Heartbeat) \/ HbSetConnected(Heartbeat) \/ Stopping(Heartbeat)
  PROVE  OverOK'
<1> USE DEF At
<1>1. NobodyLeaves
  BY ThreadKinds, GoesElsewhere, CallsElsewhere
  DEF HbTimeout, HbSetConnected, Stopping, Stop, WakeFromStopWait, AfterStop, Leaving, NdLabels
<1>2. SocketStays /\ UNCHANGED told
  BY DEF HbTimeout, HbSetConnected, Stopping, Stop, WakeFromStopWait, SocketStays, sockets, history
<1> QED
  BY <1>1, <1>2, OverStays

-----------------------------------------------------------------------------
(* The invariant *)

\* Whoever ends the connection is in it.
LEMMA EndsWhatIsMade ==
  ASSUME IInv, SInv, NEW t \in {1, Heartbeat}, DisconnectingSocket(t)
  PROVE  conns = 1
<1>1. pc[t] \in DsLabels
  BY
  DEF DisconnectingSocket, DsRunning, DsCheckShutdown, DsShutdown, DsCheckClose, DsClose, DsNull,
      DsCheckNotified, DsHasSocket, At, DsLabels
<1>2. CASE t = Heartbeat
  BY <1>1, <1>2, HbInSession DEF Hb, DsLabels
<1>3. CASE t = 1
  BY <1>1, <1>3, Numbers DEF Rcv, DsLabels, SInv
<1> QED
  BY <1>2, <1>3

\* Every step keeps the order, and the listeners stay told.
LEMMA OverStep ==
  ASSUME Reuse = "no", IInv, SInv, OverOK, [Next]_vars
  PROVE  OverOK' /\ StillTold
<1>0. /\ (UNCHANGED told => StillTold)
      /\ \A t \in {1, Heartbeat} : DisconnectingSocket(t) => conns = 1
  BY EndsWhatIsMade DEF StillTold
<1>1. ASSUME UNCHANGED <<pc, sockets, told>> PROVE OverOK'
  BY <1>1, NobodyMoves, OverStays DEF SocketStays, sockets
<1>2. CASE UNCHANGED vars
  BY <1>0, <1>1, <1>2 DEF vars, history
<1>3. ASSUME NEW u \in Users, Connect(u) \/ Disconnect(u) \/ Disconnecting(u) \/ Stopping(u)
      PROVE  OverOK' /\ UNCHANGED told
  <2>1. UNCHANGED told
    BY <1>3
    DEF Connect, Disconnect, Disconnecting, DiscCheck, DiscReceipt, DiscTransmit, DiscSend, Send,
        Stopping, Stop, WakeFromStopWait, history
  <2> QED
    BY <1>3, <2>1, ApplicationOver
<1>4. ASSUME NEW t \in Users, Connecting(t) PROVE OverOK' /\ UNCHANGED told
  <2>1. UNCHANGED told
    BY <1>4
    DEF Connecting, Start, Attempt, Dial, Verify, Spawn, SendConnect, Send, WaitForConnection,
        WakeFromConnectWait, WaitTest, history
  <2> QED
    BY <1>4, <2>1, ConnectingOver
<1>5. ASSUME HbTimeout(Heartbeat) \/ HbSetConnected(Heartbeat) \/ Stopping(Heartbeat)
      PROVE  OverOK' /\ UNCHANGED told
  <2>1. UNCHANGED told
    BY <1>5 DEF HbTimeout, HbSetConnected, Stopping, Stop, WakeFromStopWait, history
  <2> QED
    BY <1>5, <2>1, HeartbeatOver
<1>6. ASSUME NEW t \in {1, Heartbeat}, DisconnectingSocket(t) PROVE OverOK' /\ UNCHANGED told
  <2>1. UNCHANGED told
    BY <1>6
    DEF DisconnectingSocket, DsRunning, DsCheckShutdown, DsShutdown, DsCheckClose, DsClose, DsNull,
        DsCheckNotified, DsHasSocket, history
  <2> QED
    BY <1>0, <1>6, <2>1, DisconnectingOver
<1>7. ASSUME NEW t \in {1, Heartbeat}, Notifying(t) PROVE OverOK' /\ StillTold
  BY <1>7, NotifyingOver
<1>8. ASSUME Receiving(1) PROVE OverOK' /\ UNCHANGED told
  <2>1. UNCHANGED told
    BY <1>8
    DEF Receiving, ROuter, RInner, RRecv, RNoMoreFrames, RConnected, ROnConnected, RError,
        RReceipt, RAck, RMatch, RClear, RLost, CleanupClose, CleanupNull, RExit, RCompletedRaises,
        RCheckNotified, RWake, RReset, history
  <2> QED
    BY <1>8, <2>1, ReceivingOver
<1>9. ASSUME NEW s \in Sockets, Answer(s) \/ Lose(s) PROVE OverOK' /\ UNCHANGED told
  BY <1>1, <1>9 DEF Answer, Lose, history
<1> QED
  BY <1>0, <1>2, <1>3, <1>4, <1>5, <1>6, <1>7, <1>8, <1>9, WhoMoves DEF Next, Rest

\* In the initial state nobody leaves.
LEMMA OverInit ==
  ASSUME Init
  PROVE  OverOK
<1>1. told[1] = 0
  BY First DEF Init
<1>2. \A t \in Threads : pc[t] \in {"idle", "hb_loop", "unborn"}
  BY DEF Init
<1> QED
  BY <1>1, <1>2 DEF OverOK, Leaving, NdLabels

\* The with statement only looks at the transport, and calls its disconnect().
LEMMA ContextRefines == ContextSpec => Spec
<1>1. ContextInit => Init
  BY DEF ContextInit
<1>2. [ContextNext]_contextVars => [Next]_vars
  <2>1. Exit => Next
    BY ManagerAssumption, ThreadsAssumption DEF Exit, Next
  <2> QED
    BY <2>1
    DEF ContextNext, contextVars, Observed, Exiting, Disconnected, WaitOnReceipt,
        WaitOnDisconnected
<1> QED
  BY <1>1, <1>2, PTL DEF ContextSpec, Spec

\* The flag says that the listeners were told, and the end of __exit__ that the
\* flag was set.
LEMMA HeardStep ==
  ASSUME IInv, OverOK, HeardOK, StillTold, [ContextNext]_contextVars
  PROVE  HeardOK'
<1>1. (disconnected => told[1] > 0) /\ (told[1] > 0 => told'[1] > 0)
      /\ (exit = "returned" => disconnected)
  BY DEF HeardOK, StillTold
<1>2. CASE Observed(Next)
  <2>1. exit' = exit /\ disconnected' = (disconnected \/ OnDisconnected)
    BY <1>2 DEF Observed, Callbacks
  <2>2. OnDisconnected => told[1] > 0
    BY DEF OnDisconnected, OverOK
  <2> QED
    BY <1>1, <2>1, <2>2 DEF HeardOK
<1>3. CASE Exit \/ UNCHANGED contextVars
  BY <1>1, <1>3 DEF Exit, contextVars, listener, HeardOK
<1>4. CASE Exiting
  <2>1. disconnected' = disconnected /\ (exit' = "returned" => exit = "returned" \/ disconnected)
    BY <1>4 DEF Exiting, Disconnected, WaitOnReceipt, WaitOnDisconnected, listener
  <2> QED
    BY <1>1, <2>1 DEF HeardOK
<1> QED
  BY <1>2, <1>3, <1>4 DEF ContextNext

\* When __exit__ has returned the session is over, the listeners have been told
\* and the socket is released, whichever thread ended the connection
\* (connect.py, __exit__, with the callbacks of WaitingListener).
THEOREM WithMeansOver == Reuse = "no" /\ ContextSpec => []ExitMeansOver
<1> SUFFICES ASSUME Reuse = "no" PROVE ContextSpec => []ExitMeansOver
  OBVIOUS
<1>1. ContextInit => OverOK /\ HeardOK
  BY OverInit DEF ContextInit, HeardOK
<1>2. IInv /\ SInv /\ OverOK /\ HeardOK /\ [Next]_vars /\ [ContextNext]_contextVars
        => OverOK' /\ HeardOK'
  BY OverStep, HeardStep
<1>3. IInv /\ SInv /\ OverOK /\ HeardOK => ExitMeansOver
  <2> SUFFICES ASSUME SInv, OverOK, HeardOK, exit = "returned"
               PROVE  ~connected /\ socket = None /\ \E s \in Sockets : told[s] > 0
    BY DEF ExitMeansOver
  <2>1. told[1] > 0
    BY DEF HeardOK
  <2>2. ~connected
    BY <2>1 DEF SInv, EndInv, Told
  <2> QED
    BY <2>1, <2>2, First DEF OverOK, Unplugged
<1>4. ContextSpec => [](IInv /\ SInv) /\ [][Next]_vars
  BY ContextRefines, SessionInvariance, PTL DEF Spec
<1> QED
  BY <1>1, <1>2, <1>3, <1>4, PTL DEF ContextSpec
=============================================================================
