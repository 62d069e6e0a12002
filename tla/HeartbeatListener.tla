-------------------------- MODULE HeartbeatListener --------------------------
(***************************************************************************)
(* HeartbeatListener of stomp/listener.py: its callbacks, which the        *)
(* receiver and the sending threads run, and the loop of its own thread.   *)
(*                                                                         *)
(* The transport around it is reduced to what the listener sees: whether   *)
(* it is connected, and the order of its callbacks, which module Transport *)
(* studies.  Connections may be lost at any time and made again at any     *)
(* time, also before the listeners have heard of the loss of the last one. *)
(*                                                                         *)
(* Time is discrete: a tick is longer than a round of the loop.  A thread  *)
(* that sleeps wakes in the tick after the one it asked for, and a round   *)
(* that does not sleep takes a tick as well.  The clock counts halves of   *)
(* the heartbeats' unit, so that heart_beat_receive_scale = 1.5 is exact.  *)
(***************************************************************************)
EXTENDS Integers, FiniteSets, FiniteSetsExt

CONSTANTS
  Client,          \* the heartbeats argument of the connection: <<cx, cy>>
  Offers,          \* heart-beat headers of CONNECTED frames: <<sx, sy>>, or None
  None,
  MaxConnections,  \* bound
  MaxTime          \* bound on the clock

ASSUME HeartbeatAssumption ==
  /\ Client \in Nat \X Nat
  /\ None \notin Nat /\ Offers \subseteq (Nat \X Nat) \cup {None}
  /\ MaxConnections \in Nat \ {0} /\ MaxTime \in Nat

HbThreads == 1..MaxConnections
Off == <<0, 0>>

VARIABLES
  clock,
  \* HeartbeatListener's attributes
  running, heartbeat_thread, heartbeats, send_sleep, receive_sleep,
  received_heartbeat, next_outbound_heartbeat,
  terminate,     \* the flag of heartbeat_terminate_event
  \* its threads
  pc, now, wakeAt, spawned,
  \* the transport
  connected,     \* Transport.is_connected()
  receiver,      \* "down", "open", inside on_connected, or "up"
  owed,          \* the losses that on_disconnected has yet to be called for
  connection, offered, offer,  \* the connection, and the headers exchanged on it
  \* history: the session's start, the last time a frame came, or went; and the
  \* connection a thread was created for
  since, lastHeard, lastSent, born

deadlines == <<received_heartbeat, next_outbound_heartbeat>>
settings  == <<heartbeats, send_sleep, receive_sleep>>
threads   == <<pc, now, wakeAt, spawned, born>>
transport == <<connected, receiver, owed, connection, offered, offer>>
history   == <<since, lastHeard, lastSent>>
vars == <<clock, running, heartbeat_thread, deadlines, settings, terminate, threads, transport,
          history>>

LoopLabels == {"begin", "loop", "wait", "check", "sleep", "send?", "silence?"}
TimeoutLabels == {"timeout", "disconnect_socket"}

Init ==
  /\ clock = 0 /\ running = FALSE /\ heartbeat_thread = None /\ terminate = FALSE
  /\ heartbeats = Client /\ send_sleep = 0 /\ receive_sleep = 0
  /\ received_heartbeat = None /\ next_outbound_heartbeat = None
  /\ pc = [h \in HbThreads |-> "unborn"] /\ spawned = 0
  /\ now = [h \in HbThreads |-> 0] /\ wakeAt = [h \in HbThreads |-> 0]
  /\ born = [h \in HbThreads |-> 0]
  /\ connected = FALSE /\ receiver = "down" /\ owed = 0
  /\ connection = 0 /\ offered = Off /\ offer = None
  /\ since = 0 /\ lastHeard = 0 /\ lastSent = 0

-----------------------------------------------------------------------------
(* The callbacks *)

\* what the client does with the headers, and what a server does
CalculateHeartbeats(server, client) ==
  << IF client[1] # 0 /\ server[2] # 0 THEN Max({client[1], server[2]}) ELSE 0,
     IF client[2] # 0 /\ server[1] # 0 THEN Max({client[2], server[1]}) ELSE 0 >>

\* on_send: for any frame that goes out, whoever sends it
Bump == next_outbound_heartbeat' =
          IF next_outbound_heartbeat = None THEN None ELSE clock + send_sleep

\* connect(): the CONNECT frame, with a heart-beat header unless it would be 0,0
Open ==
  /\ receiver = "down" /\ connection < MaxConnections
  /\ connection' = connection + 1
  /\ offered' = heartbeats /\ Bump
  /\ receiver' = "open"
  /\ UNCHANGED <<clock, running, heartbeat_thread, received_heartbeat, settings, terminate,
                 threads, connected, owed, offer, history>>

\* the CONNECTED frame: set_connected(True), before the listeners
Connected ==
  /\ receiver = "open"
  /\ connected' = TRUE
  /\ offer' \in Offers
  /\ since' = clock /\ lastHeard' = clock /\ lastSent' = clock
  /\ receiver' = "on_connected"
  /\ UNCHANGED <<clock, running, heartbeat_thread, deadlines, settings, terminate, threads,
                 owed, connection, offered>>

\* Mutant of OnConnected: negotiates with the heartbeats of the constructor
OnConnectedAnew ==
  /\ receiver = "on_connected" /\ offer # None
  /\ heartbeats' = CalculateHeartbeats(offer, Client)
  /\ IF heartbeats' = Off
     THEN receiver' = "up" /\ UNCHANGED <<send_sleep, receive_sleep, received_heartbeat>>
     ELSE /\ receiver' = "set_running"
          /\ send_sleep' = 2 * heartbeats'[1] /\ receive_sleep' = 3 * heartbeats'[2]
          /\ received_heartbeat' = clock + receive_sleep'
  /\ UNCHANGED <<clock, running, heartbeat_thread, next_outbound_heartbeat, terminate, threads,
                 connected, owed, connection, offered, offer, history>>

OnConnected ==
  /\ receiver = "on_connected" /\ offer # None
  /\ heartbeats' = CalculateHeartbeats(offer, heartbeats)
  /\ IF heartbeats' = Off
     THEN receiver' = "up" /\ UNCHANGED <<send_sleep, receive_sleep, received_heartbeat>>
     ELSE /\ receiver' = "set_running"
          /\ send_sleep' = 2 * heartbeats'[1] /\ receive_sleep' = 3 * heartbeats'[2]
          /\ received_heartbeat' = clock + receive_sleep'  \* grace for the first one
  /\ UNCHANGED <<clock, running, heartbeat_thread, next_outbound_heartbeat, terminate, threads,
                 connected, owed, connection, offered, offer, history>>

OnConnectedPlain ==
  /\ receiver = "on_connected" /\ offer = None
  /\ receiver' = "up"
  /\ UNCHANGED <<clock, running, heartbeat_thread, deadlines, settings, terminate, threads,
                 connected, owed, connection, offered, offer, history>>

\* Mutant of SetRunning: starts a thread even when there is one
SetRunningStarts ==
  /\ receiver = "set_running"
  /\ running' = TRUE
  /\ receiver' = "start"
  /\ UNCHANGED <<clock, heartbeat_thread, deadlines, settings, terminate, threads,
                 connected, owed, connection, offered, offer, history>>

SetRunning ==
  /\ receiver = "set_running"
  /\ running' = TRUE
  /\ receiver' = IF heartbeat_thread = None THEN "start" ELSE "up"
  /\ UNCHANGED <<clock, heartbeat_thread, deadlines, settings, terminate, threads,
                 connected, owed, connection, offered, offer, history>>

\* default_create_thread starts the thread ...
StartThread ==
  /\ receiver = "start"
  /\ spawned' = spawned + 1
  /\ pc' = [pc EXCEPT ![spawned + 1] = "begin"]
  /\ born' = [born EXCEPT ![spawned + 1] = connection]
  /\ receiver' = "assign"
  /\ UNCHANGED <<clock, running, heartbeat_thread, deadlines, settings, terminate, now, wakeAt,
                 connected, owed, connection, offered, offer, history>>

\* ... and returns it, to be assigned
AssignThread ==
  /\ receiver = "assign"
  /\ heartbeat_thread' = spawned
  /\ receiver' = "up"
  /\ UNCHANGED <<clock, running, deadlines, settings, terminate, threads,
                 connected, owed, connection, offered, offer, history>>

\* Mutants of UpdateHeartbeat: a frame that comes is not noted; every frame gives
\* the grace of the first one
UpdateNothing == UNCHANGED received_heartbeat
UpdateWithGrace ==
  received_heartbeat' = IF received_heartbeat # None THEN clock + receive_sleep ELSE None

UpdateHeartbeat ==
  received_heartbeat' = IF received_heartbeat # None /\ clock > received_heartbeat
                        THEN clock ELSE received_heartbeat

\* a message, receipt, error or heartbeat
Hear ==
  /\ receiver = "up"
  /\ UpdateHeartbeat
  /\ lastHeard' = clock
  /\ UNCHANGED <<clock, running, heartbeat_thread, next_outbound_heartbeat, settings, terminate,
                 threads, transport, since, lastSent>>

\* the application sends a frame
AppSend ==
  /\ receiver = "up" /\ connected
  /\ Bump
  /\ lastSent' = clock
  /\ UNCHANGED <<clock, running, heartbeat_thread, received_heartbeat, settings, terminate,
                 threads, transport, since, lastHeard>>

\* The connection is lost.  When the heartbeat thread has ended it, the receiver
\* need not tell the listeners once more.
Lose ==
  /\ receiver \in {"open", "up"}
  /\ receiver' = "down"
  /\ connected' = FALSE
  /\ \/ owed' = owed + 1
     \/ receiver = "up" /\ ~connected /\ UNCHANGED owed
  /\ UNCHANGED <<clock, running, heartbeat_thread, deadlines, settings, terminate, threads,
                 connection, offered, offer, history>>

Terminate ==
  /\ running' = FALSE
  /\ terminate' = TRUE

\* set() wakes the thread that waits on the event, if there is one
OnDisconnected ==
  /\ owed > 0 /\ owed' = owed - 1
  /\ Terminate
  /\ pc' = [h \in HbThreads |-> IF pc[h] = "wait" /\ wakeAt[h] > now[h] THEN "end" ELSE pc[h]]
  /\ UNCHANGED <<clock, heartbeat_thread, deadlines, settings, now, wakeAt, spawned, born,
                 connected, receiver, connection, offered, offer, history>>

-----------------------------------------------------------------------------
(* The loop *)

Goto(h, label) == pc' = [pc EXCEPT ![h] = label]

\* the initial due time
Begin(h) ==
  /\ pc[h] = "begin"
  /\ next_outbound_heartbeat' = IF send_sleep # 0 THEN clock + send_sleep
                                ELSE next_outbound_heartbeat
  /\ Goto(h, "loop")
  /\ UNCHANGED <<clock, running, heartbeat_thread, received_heartbeat, settings, terminate,
                 now, wakeAt, spawned, born, transport, history>>

\* what the loop waits for: the next heartbeat to send, and the end of the
\* server's silence unless it is due already
NextEvents ==
  (IF next_outbound_heartbeat # None THEN {next_outbound_heartbeat} ELSE {})
    \cup (IF receive_sleep # 0 THEN {received_heartbeat + receive_sleep} \ (0..clock) ELSE {})

\* Mutant of Loop: sleeps until the last of the events
LoopUntilLast(h) ==
  /\ pc[h] = "loop" /\ running
  /\ now' = [now EXCEPT ![h] = clock]
  /\ wakeAt' = [wakeAt EXCEPT ![h] = IF NextEvents = {} THEN clock ELSE Max(NextEvents)]
  /\ Goto(h, "wait")
  /\ UNCHANGED <<clock, running, heartbeat_thread, deadlines, settings, terminate, spawned, born,
                 transport, history>>

Loop(h) ==
  /\ pc[h] = "loop" /\ running
  /\ now' = [now EXCEPT ![h] = clock]
  /\ wakeAt' = [wakeAt EXCEPT ![h] = IF NextEvents = {} THEN clock ELSE Min(NextEvents)]
  /\ Goto(h, "wait")
  /\ UNCHANGED <<clock, running, heartbeat_thread, deadlines, settings, terminate, spawned, born,
                 transport, history>>

LoopEnds(h) ==
  /\ pc[h] = "loop" /\ ~running
  /\ Goto(h, "end")
  /\ UNCHANGED <<clock, running, heartbeat_thread, deadlines, settings, terminate,
                 now, wakeAt, spawned, born, transport, history>>

\* heartbeat_terminate_event.wait(sleep_time), when the event is set already
Terminated(h) ==
  /\ pc[h] = "wait" /\ wakeAt[h] > now[h] /\ terminate
  /\ Goto(h, "end")
  /\ UNCHANGED <<clock, running, heartbeat_thread, deadlines, settings, terminate,
                 now, wakeAt, spawned, born, transport, history>>

\* the wait times out; there is none when the sleep time is not positive
Due(h) == clock > Max({now[h], wakeAt[h]})

\* Mutant of Wake: takes the end of the wait for the event
WakeEnds(h) ==
  /\ pc[h] = "wait" /\ Due(h)
  /\ Goto(h, "end")
  /\ UNCHANGED <<clock, running, heartbeat_thread, deadlines, settings, terminate,
                 now, wakeAt, spawned, born, transport, history>>

Wake(h) ==
  /\ pc[h] = "wait" /\ Due(h)
  /\ wakeAt[h] > now[h] => ~terminate
  /\ now' = [now EXCEPT ![h] = clock]
  /\ Goto(h, "check")
  /\ UNCHANGED <<clock, running, heartbeat_thread, deadlines, settings, terminate,
                 wakeAt, spawned, born, transport, history>>

\* "not self.transport.is_connected() or self.disconnecting": nobody calls
\* on_disconnecting, so that disconnecting is always False
Check(h) ==
  /\ pc[h] = "check"
  /\ IF connected THEN Goto(h, "send?") /\ UNCHANGED wakeAt
     ELSE Goto(h, "sleep") /\ wakeAt' = [wakeAt EXCEPT ![h] = clock + send_sleep]
  /\ UNCHANGED <<clock, running, heartbeat_thread, deadlines, settings, terminate,
                 now, spawned, born, transport, history>>

Sleep(h) ==
  /\ pc[h] = "sleep" /\ Due(h)
  /\ Goto(h, "loop")
  /\ UNCHANGED <<clock, running, heartbeat_thread, deadlines, settings, terminate,
                 now, wakeAt, spawned, born, transport, history>>

\* transmit(): on_send, then the send, which fails when the connection is gone
SendHeartbeat(h) ==
  /\ pc[h] = "send?"
  /\ IF send_sleep # 0 /\ now[h] > next_outbound_heartbeat
     THEN Bump /\ lastSent' = clock
     ELSE UNCHANGED <<next_outbound_heartbeat, lastSent>>
  /\ Goto(h, "silence?")
  /\ UNCHANGED <<clock, running, heartbeat_thread, received_heartbeat, settings, terminate,
                 now, wakeAt, spawned, born, transport, since, lastHeard>>

CheckSilence(h) ==
  /\ pc[h] = "silence?"
  /\ Goto(h, IF receive_sleep # 0 /\ now[h] - received_heartbeat > receive_sleep
             THEN "timeout" ELSE "loop")
  /\ UNCHANGED <<clock, running, heartbeat_thread, deadlines, settings, terminate,
                 now, wakeAt, spawned, born, transport, history>>

\* set_connected(False)
Timeout(h) ==
  /\ pc[h] = "timeout"
  /\ connected' = FALSE
  /\ Goto(h, "disconnect_socket")
  /\ UNCHANGED <<clock, running, heartbeat_thread, deadlines, settings, terminate,
                 now, wakeAt, spawned, born, receiver, owed, connection, offered, offer, history>>

\* disconnect_socket(), which tells the listeners unless the receiver has;
\* stop() has nothing to wait for
DisconnectSocket(h) ==
  /\ pc[h] = "disconnect_socket"
  /\ Terminate \/ (receiver = "down" /\ UNCHANGED <<running, terminate>>)
  /\ Goto(h, "loop")
  /\ UNCHANGED <<clock, heartbeat_thread, deadlines, settings, now, wakeAt, spawned, born,
                 transport, history>>

End(h) ==
  /\ pc[h] = "end"
  /\ heartbeat_thread' = None
  /\ Goto(h, "clear")
  /\ UNCHANGED <<clock, running, deadlines, settings, terminate, now, wakeAt, spawned, born,
                 transport, history>>

Clear(h) ==
  /\ pc[h] = "clear"
  /\ terminate' = FALSE
  /\ Goto(h, "dead")
  /\ UNCHANGED <<clock, running, heartbeat_thread, deadlines, settings,
                 now, wakeAt, spawned, born, transport, history>>

-----------------------------------------------------------------------------
\* Time passes when every thread waits, and the receiver waits for a frame.
Waits(h) ==
  pc[h] \in {"unborn", "dead"} \/ (pc[h] \in {"wait", "sleep"} /\ ~Due(h))
Tick ==
  /\ clock < MaxTime
  /\ receiver \in {"down", "open", "up"}
  /\ \A h \in HbThreads : Waits(h)
  /\ clock' = clock + 1
  /\ UNCHANGED <<running, heartbeat_thread, deadlines, settings, terminate, threads, transport,
                 history>>

\* the bounds are reached
Finished ==
  /\ clock = MaxTime
  /\ UNCHANGED vars

Callbacks ==
  \/ Open \/ Connected \/ OnConnected \/ OnConnectedPlain \/ SetRunning \/ StartThread
  \/ AssignThread \/ Hear \/ AppSend \/ Lose \/ OnDisconnected
Beating(h) ==
  \/ Begin(h) \/ Loop(h) \/ LoopEnds(h) \/ Terminated(h) \/ Wake(h) \/ Check(h) \/ Sleep(h)
  \/ SendHeartbeat(h) \/ CheckSilence(h) \/ Timeout(h) \/ DisconnectSocket(h) \/ End(h)
  \/ Clear(h)
Next == Callbacks \/ (\E h \in HbThreads : Beating(h)) \/ Tick \/ Finished

Spec == Init /\ [][Next]_vars

-----------------------------------------------------------------------------
(* Properties *)

Looping == {h \in HbThreads : pc[h] \in LoopLabels}
SessionUp == receiver = "up" /\ connected
\* what the CONNECT and CONNECTED frames agree on, as the server reckons it
ServerAgreed == CalculateHeartbeats(offered, offer)

\* There is never more than one heartbeat loop, however fast the application
\* reconnects (heartbeat_thread is None, listener.py:195, 311).
OneLoop == Cardinality(Looping) <= 1

\* The client's half of the heartbeats mirrors the server's, also on a later
\* connection: the negotiation starts from the header that was sent.
BothAgree ==
  SessionUp /\ offer # None => heartbeats = <<ServerAgreed[2], ServerAgreed[1]>>

\* A session that a loop was started for is never silent for longer than agreed;
\* and no loop, also one of an earlier session that had nothing to send, comes to
\* compare the time with a due time that is None (listener.py:289).
SentInTime ==
  \A h \in Looping :
    /\ SessionUp /\ born[h] = connection /\ send_sleep # 0 => clock - lastSent <= send_sleep + 2
    /\ pc[h] = "send?" /\ send_sleep # 0 => next_outbound_heartbeat # None

\* The loop of a session declares a heartbeat timeout only when nothing came for
\* receive_sleep.  (A loop left over from an earlier connection may: it reads the
\* old received_heartbeat beside the new is_connected().)
TimeoutHonest ==
  [][\A h \in HbThreads :
       pc[h] = "silence?" /\ pc'[h] = "timeout" /\ born[h] = connection
         => clock - lastHeard > receive_sleep]_vars

\* ... and it is declared: the grace of the first heartbeat apart, a silent
\* server is noticed within receive_sleep.  Only when a round of the loop falls
\* exactly on that deadline (t > 0, listener.py:275) it takes until the next send.
\* (After a session that sent heartbeats, one that sends none waits then for the due
\* time that was left over, which nobody resets: no bound holds for it.)
LeftOver == send_sleep = 0 /\ next_outbound_heartbeat # None
SilenceNoticed ==
  \A h \in Looping :
    SessionUp /\ born[h] = connection /\ receive_sleep # 0 /\ ~LeftOver
      => clock <= Max({lastHeard, since + receive_sleep}) + receive_sleep + send_sleep + 2

\* A session with heartbeats has a thread that beats: "if the heartbeats are not
\* 0, we start up the heartbeat loop accordingly" (listener.py:171-173).
HeartbeatsRun ==
  SessionUp /\ offer # None /\ heartbeats # Off
    => running /\ \E h \in HbThreads : pc[h] \in LoopLabels \cup TimeoutLabels
\* It has on the first connection.
FirstBeats == connection = 1 => HeartbeatsRun
=============================================================================
