---------------------------- MODULE HeartbeatProofs ----------------------------
(***************************************************************************)
(* Theorems about HeartbeatListener for all heartbeats of the client and   *)
(* of the servers, any number of connections and any time.                 *)
(*                                                                         *)
(* HInv says which thread is alive (OneThread), for which connection       *)
(* (BornOK), what the two sides agreed on (AgreedOK), what the deadlines   *)
(* mean while a session lasts (SessionOK, NextOK), how far the clock may   *)
(* have run at every step of the session's own loop (LoopOK), and that     *)
(* nothing has ended the first session (FirstOK).                          *)
(***************************************************************************)
EXTENDS HeartbeatListener, FiniteSetTheorems, TLAPS

ThreadLabels == {"unborn", "end", "clear", "dead"} \cup LoopLabels \cup TimeoutLabels
\* the receiver, from connect() until it may start a thread
Opening == {"open", "on_connected", "set_running", "start"}

Typed ==
  /\ clock \in Nat /\ running \in BOOLEAN /\ terminate \in BOOLEAN /\ connected \in BOOLEAN
  /\ heartbeat_thread \in HbThreads \cup {None} /\ heartbeats \in Nat \X Nat
  /\ send_sleep \in Nat /\ receive_sleep \in Nat
  /\ received_heartbeat \in Nat \cup {None} /\ next_outbound_heartbeat \in Nat \cup {None}
  /\ pc \in [HbThreads -> ThreadLabels]
  /\ now \in [HbThreads -> Nat] /\ wakeAt \in [HbThreads -> Nat] /\ born \in [HbThreads -> Nat]
  /\ spawned \in Nat /\ owed \in Nat /\ connection \in 0..MaxConnections
  /\ receiver \in {"down", "assign", "up"} \cup Opening
  /\ offered \in Nat \X Nat /\ offer \in (Nat \X Nat) \cup {None}
  /\ since \in Nat /\ lastHeard \in Nat /\ lastSent \in Nat
  /\ receive_sleep # 0 => received_heartbeat # None

\* one thread at most lives: the last one, which the listener knows once it is assigned
Live(h) == pc[h] \notin {"unborn", "clear", "dead"}
OneThread ==
  /\ \A h \in HbThreads : /\ pc[h] = "unborn" <=> h > spawned
                          /\ Live(h) => h = spawned /\ (receiver = "assign" \/ heartbeat_thread = h)
  /\ receiver \in {"start", "assign"} \/ spawned = 0 => heartbeat_thread = None
  /\ receiver = "assign" => spawned # 0
  /\ spawned <= connection /\ (receiver \in Opening => spawned < connection)

BornOK ==
  \A h \in HbThreads : pc[h] # "unborn" =>
    born[h] <= connection /\ (receiver \in Opening => born[h] < connection)

AgreedOK ==
  /\ receiver \in {"open", "on_connected"} => offered = heartbeats
  /\ receiver \in {"set_running", "start", "assign", "up"} /\ offer # None =>
       heartbeats = CalculateHeartbeats(offer, offered)

\* when the server was heard, the grace of a session counted as a frame
Heard == IF lastHeard > since + receive_sleep THEN lastHeard ELSE since + receive_sleep
SessionOK ==
  /\ lastHeard <= clock /\ lastSent <= clock /\ \A h \in HbThreads : now[h] <= clock
  /\ receiver \in Opening \ {"open"} => since = clock /\ lastHeard = clock /\ lastSent = clock
  /\ receiver \in {"set_running", "start"} => received_heartbeat = Heard
  /\ \A h \in HbThreads :
       pc[h] # "unborn" /\ born[h] = connection => received_heartbeat = Heard

\* who has nothing to send will have nothing to send
NextOK ==
  /\ spawned # 0 \/ receiver \in {"set_running", "start"} =>
       send_sleep = 2 * heartbeats[1] \/ heartbeats = Off
  /\ \A h \in HbThreads : Live(h) /\ pc[h] # "begin" /\ next_outbound_heartbeat = None =>
       send_sleep = 0 /\ heartbeats[1] = 0

\* the clock at every step of the loop that was started for the session
Mine(h) == pc[h] # "unborn" /\ born[h] = connection /\ connected
SendBy == lastSent + send_sleep
NoticeBy == received_heartbeat + receive_sleep
Slept(h) == clock <= now[h] + 1 \/ clock <= wakeAt[h] + 1
SendingOK(h) ==
  /\ pc[h] \in LoopLabels \ {"begin"} => next_outbound_heartbeat = SendBy
  /\ pc[h] \in {"loop", "silence?"} => clock <= SendBy
  /\ pc[h] \in {"check", "send?"} => clock <= SendBy + 1
  /\ pc[h] = "wait" => now[h] <= SendBy /\ wakeAt[h] <= SendBy
HearingOK(h) ==
  /\ pc[h] = "loop" => clock <= NoticeBy
  /\ pc[h] \in {"check", "send?", "silence?"} => clock <= NoticeBy + send_sleep + 1
  /\ pc[h] = "wait" => now[h] <= NoticeBy /\ wakeAt[h] <= NoticeBy + send_sleep
Timely(h) ==
  /\ pc[h] \notin {"sleep", "disconnect_socket"}
  /\ pc[h] = "begin" => since = clock /\ lastSent = clock
  /\ pc[h] \in {"check", "send?", "silence?"} => now[h] = clock
  /\ pc[h] = "wait" => Slept(h)
  /\ send_sleep # 0 => SendingOK(h)
  /\ receive_sleep # 0 /\ ~LeftOver => HearingOK(h)
LoopOK == \A h \in HbThreads : Mine(h) => Timely(h)

\* while the first session is up nobody has ended its loop
FirstOK ==
  /\ connection = 0 => receiver = "down" /\ owed = 0 /\ ~terminate
  /\ connection = 1 /\ receiver # "down" =>
       /\ owed = 0
       /\ connected \/ spawned = 0 => ~terminate
       /\ connected /\ (receiver \in {"start", "assign"} \/ spawned = 1) => running
       /\ connected /\ receiver = "up" /\ offer # None /\ heartbeats # Off => spawned = 1
       /\ connected /\ spawned = 1 => pc[1] \in (LoopLabels \cup {"timeout"}) \ {"sleep"}

HInv ==
  Typed /\ OneThread /\ BornOK /\ AgreedOK /\ SessionOK /\ NextOK /\ LoopOK /\ FirstOK

-----------------------------------------------------------------------------
(* Operators *)

\* The larger of two numbers.
LEMMA MaxOfTwo ==
  ASSUME NEW a \in Int, NEW b \in Int
  PROVE  Max({a, b}) = IF a >= b THEN a ELSE b
<1>1. PICK m \in {a, b} : \A y \in {a, b} : m >= y
  BY DEF Max
<1>2. /\ Max({a, b}) \in {a, b} /\ \A y \in {a, b} : Max({a, b}) >= y
  BY <1>1 DEF Max
<1> QED
  BY <1>2

\* The first of the events that a loop waits for.
LEMMA MinOfEvents ==
  ASSUME NEW a \in Int, NEW S, S = {a} \/ S = {}, NEW b \in Int, NEW T, T = {b} \/ T = {},
         S \cup T # {}
  PROVE  /\ Min(S \cup T) \in S \cup T /\ \A y \in S \cup T : Min(S \cup T) <= y
<1>1. \E m \in S \cup T : \A y \in S \cup T : m <= y
  <2>1. CASE a <= b
    BY <2>1
  <2>2. CASE ~(a <= b)
    BY <2>2
  <2> QED
    BY <2>1, <2>2
<1> QED
  BY <1>1 DEF Min

\* What the two sides agree on is a pair of numbers; a zero stays one.
LEMMA Agreement ==
  ASSUME NEW s \in Nat \X Nat, NEW c \in Nat \X Nat
  PROVE  /\ CalculateHeartbeats(s, c) \in Nat \X Nat
         /\ c[1] = 0 => CalculateHeartbeats(s, c)[1] = 0
         /\ CalculateHeartbeats(s, c) =
              <<CalculateHeartbeats(c, s)[2], CalculateHeartbeats(c, s)[1]>>
<1>1. s[1] \in Nat /\ s[2] \in Nat /\ c[1] \in Nat /\ c[2] \in Nat
  OBVIOUS
<1>2. /\ Max({c[1], s[2]}) \in Nat /\ Max({c[2], s[1]}) \in Nat
      /\ Max({s[1], c[2]}) = Max({c[2], s[1]}) /\ Max({s[2], c[1]}) = Max({c[1], s[2]})
  BY <1>1, MaxOfTwo
<1> QED
  BY <1>1, <1>2 DEF CalculateHeartbeats

\* The numbers of a connection's threads.
LEMMA Numbers == HbThreads \subseteq Nat /\ None \notin Nat /\ None \notin HbThreads
                 /\ MaxConnections \in Nat
                 /\ \A n \in Nat : n \in HbThreads <=> n # 0 /\ n <= MaxConnections
BY HeartbeatAssumption DEF HbThreads

\* A loop waits until a number, not later than the next send and the deadline of the server.
LEMMA NextWake ==
  ASSUME Typed, NEW w, w = IF NextEvents = {} THEN clock ELSE Min(NextEvents)
  PROVE  /\ w \in Nat
         /\ next_outbound_heartbeat # None => w <= next_outbound_heartbeat
         /\ receive_sleep # 0 /\ NoticeBy > clock => w <= NoticeBy
         /\ next_outbound_heartbeat = None /\ ~(NoticeBy > clock) => w <= clock
<1> DEFINE S == IF next_outbound_heartbeat # None THEN {next_outbound_heartbeat} ELSE {}
           T == IF receive_sleep # 0 THEN {NoticeBy} \ (0..clock) ELSE {}
<1>1. NextEvents = S \cup T
  BY DEF NextEvents, NoticeBy
<1>2. /\ clock \in Nat /\ receive_sleep \in Nat
      /\ next_outbound_heartbeat # None => next_outbound_heartbeat \in Nat
      /\ receive_sleep # 0 => NoticeBy \in Nat
  BY DEF Typed, NoticeBy
<1>3. T = (IF receive_sleep # 0 /\ NoticeBy > clock THEN {NoticeBy} ELSE {})
  BY <1>2
<1>4. CASE NextEvents = {}
  BY <1>1, <1>2, <1>3, <1>4
<1>5. CASE NextEvents # {}
  <2>1. PICK a \in Int : S = {a} \/ S = {}
    BY <1>2
  <2>2. PICK b \in Int : T = {b} \/ T = {}
    BY <1>2, <1>3
  <2> HIDE DEF S, T
  <2>3. w \in S \cup T /\ \A y \in S \cup T : w <= y
    BY <1>1, <1>5, <2>1, <2>2, MinOfEvents
  <2> QED
    BY <1>2, <1>3, <2>3 DEF S
<1> QED
  BY <1>4, <1>5

-----------------------------------------------------------------------------
(* Types *)

\* The first state is typed.
LEMMA TypedInit == Init => Typed
<1> SUFFICES ASSUME Init PROVE Typed
  OBVIOUS
<1> USE DEF Init
<1>1. /\ heartbeats \in Nat \X Nat /\ offered \in Nat \X Nat /\ connection \in 0..MaxConnections
      /\ offer \in (Nat \X Nat) \cup {None} /\ heartbeat_thread \in HbThreads \cup {None}
  BY HeartbeatAssumption DEF Off
<1>2. pc \in [HbThreads -> ThreadLabels] /\ receiver \in {"down", "assign", "up"} \cup Opening
  BY DEF ThreadLabels
<1> QED
  BY <1>1, <1>2 DEF Typed

\* The step of on_send keeps the due time a number, or None.
LEMMA BumpTyped ==
  ASSUME Typed, Bump
  PROVE  /\ next_outbound_heartbeat' \in Nat \cup {None}
         /\ next_outbound_heartbeat' = None <=> next_outbound_heartbeat = None
BY Numbers DEF Typed, Bump

\* The callbacks keep the types.
LEMMA TypedCallbacks ==
  ASSUME Typed, OneThread, Callbacks
  PROVE  Typed'
<1> USE DEF transport, settings, deadlines, threads, history, Opening
<1>1. CASE Open
  <2>1. next_outbound_heartbeat' \in Nat \cup {None} /\ connection + 1 \in 0..MaxConnections
    BY <1>1, BumpTyped, Numbers DEF Typed, Open
  <2> QED
    BY <1>1, <2>1 DEF Typed, Open
<1>2. CASE Connected
  BY <1>2, HeartbeatAssumption DEF Typed, Connected
<1>3. CASE OnConnected
  <2>1. offer \in Nat \X Nat /\ heartbeats' = CalculateHeartbeats(offer, heartbeats)
    BY <1>3 DEF Typed, OnConnected
  <2>2. heartbeats' \in Nat \X Nat
    BY <2>1, Agreement DEF Typed
  <2>3. heartbeats'[1] \in Nat /\ heartbeats'[2] \in Nat
    BY <2>2
  <2> QED
    BY <1>3, <2>2, <2>3, Numbers DEF Typed, OnConnected
<1>4. CASE OnConnectedPlain
  BY <1>4 DEF Typed, OnConnectedPlain
<1>5. CASE SetRunning
  BY <1>5 DEF Typed, SetRunning
<1>6. CASE StartThread
  <2>1. pc' \in [HbThreads -> ThreadLabels]
    BY <1>6 DEF Typed, StartThread, ThreadLabels, LoopLabels
  <2>2. born' \in [HbThreads -> Nat]
    <3>1. connection \in Nat
      BY DEF Typed
    <3> QED
      BY <1>6, <3>1 DEF Typed, StartThread
  <2> QED
    BY <1>6, <2>1, <2>2 DEF Typed, StartThread
<1>7. CASE AssignThread
  <2>1. spawned \in HbThreads
    BY <1>7, Numbers DEF AssignThread, OneThread, Typed
  <2> QED
    BY <1>7, <2>1 DEF Typed, AssignThread
<1>8. CASE Hear
  BY <1>8, Numbers DEF Typed, Hear, UpdateHeartbeat
<1>9. CASE AppSend
  <2>1. next_outbound_heartbeat' \in Nat \cup {None}
    BY <1>9, BumpTyped DEF AppSend
  <2> QED
    BY <1>9, <2>1 DEF Typed, AppSend
<1>10. CASE Lose
  <2>1. owed' \in Nat
    BY <1>10 DEF Typed, Lose
  <2> QED
    BY <1>10, <2>1 DEF Typed, Lose
<1>11. CASE OnDisconnected
  <2>1. owed' \in Nat
    BY <1>11 DEF Typed, OnDisconnected
  <2>2. pc' \in [HbThreads -> ThreadLabels]
    BY <1>11 DEF Typed, OnDisconnected, ThreadLabels
  <2> QED
    BY <1>11, <2>1, <2>2 DEF Typed, OnDisconnected, Terminate
<1> QED
  BY <1>1, <1>2, <1>3, <1>4, <1>5, <1>6, <1>7, <1>8, <1>9, <1>10, <1>11 DEF Callbacks

\* The loop keeps the types.
LEMMA TypedBeating ==
  ASSUME Typed, OneThread, NEW h \in HbThreads, Beating(h)
  PROVE  Typed'
<1> USE DEF transport, settings, deadlines, threads, history, Goto
<1>0. {"loop", "wait", "check", "sleep", "send?", "silence?", "timeout", "disconnect_socket", "end",
       "clear", "dead"} \subseteq ThreadLabels
  BY DEF ThreadLabels, LoopLabels, TimeoutLabels
<1>1. CASE Begin(h)
  BY <1>0, <1>1 DEF Typed, Begin
<1>2. CASE Loop(h)
  <2>1. wakeAt' = [wakeAt EXCEPT ![h] = IF NextEvents = {} THEN clock ELSE Min(NextEvents)]
    BY <1>2 DEF Loop
  <2>2. PICK w : w = IF NextEvents = {} THEN clock ELSE Min(NextEvents)
    OBVIOUS
  <2>3. w \in Nat
    BY <2>2, NextWake
  <2>4. wakeAt' \in [HbThreads -> Nat]
    BY <2>1, <2>2, <2>3 DEF Typed
  <2> QED
    BY <1>0, <1>2, <2>4 DEF Typed, Loop
<1>3. CASE LoopEnds(h) \/ Terminated(h) \/ CheckSilence(h) \/ Sleep(h)
  BY <1>0, <1>3 DEF Typed, LoopEnds, Terminated, CheckSilence, Sleep
<1>4. CASE Wake(h) \/ Check(h)
  BY <1>0, <1>4 DEF Typed, Wake, Check
<1>5. CASE SendHeartbeat(h)
  <2>1. next_outbound_heartbeat' \in Nat \cup {None}
    BY <1>5, BumpTyped DEF SendHeartbeat, Typed
  <2> QED
    BY <1>0, <1>5, <2>1 DEF Typed, SendHeartbeat
<1>6. CASE Timeout(h) \/ DisconnectSocket(h) \/ End(h) \/ Clear(h)
  BY <1>0, <1>6 DEF Typed, Timeout, DisconnectSocket, End, Clear, Terminate
<1> QED
  BY <1>1, <1>2, <1>3, <1>4, <1>5, <1>6 DEF Beating

-----------------------------------------------------------------------------
(* The threads *)

\* What no step of a loop changes, and how its thread moves.
LEMMA BeatingMoves ==
  ASSUME Typed, NEW h \in HbThreads, Beating(h)
  PROVE  /\ UNCHANGED <<clock, heartbeats, send_sleep, receive_sleep, received_heartbeat, spawned,
                        born, receiver, owed, connection, offered, offer, since, lastHeard>>
         /\ \A g \in HbThreads : g # h =>
              pc'[g] = pc[g] /\ now'[g] = now[g] /\ wakeAt'[g] = wakeAt[g]
         /\ pc[h] # "unborn" /\ pc'[h] # "unborn" /\ (Live(h)' => Live(h))
         /\ now'[h] \in {now[h], clock} /\ (connected' => connected)
         /\ heartbeat_thread' = heartbeat_thread
            \/ (heartbeat_thread' = None /\ Live(h) /\ ~Live(h)')
<1> USE DEF transport, settings, deadlines, threads, history, Goto, Live
<1>1. CASE Begin(h) \/ LoopEnds(h) \/ Terminated(h) \/ Sleep(h)
  BY <1>1 DEF Typed, Begin, LoopEnds, Terminated, Sleep
<1>2. CASE Loop(h)
  BY <1>2 DEF Typed, Loop
<1>3. CASE Wake(h)
  BY <1>3 DEF Typed, Wake
<1>4. CASE Check(h)
  BY <1>4 DEF Typed, Check
<1>5. CASE SendHeartbeat(h) \/ CheckSilence(h)
  BY <1>5 DEF Typed, SendHeartbeat, CheckSilence
<1>6. CASE Timeout(h) \/ DisconnectSocket(h)
  BY <1>6 DEF Typed, Timeout, DisconnectSocket
<1>7. CASE End(h) \/ Clear(h)
  BY <1>7 DEF Typed, End, Clear
<1> QED
  BY <1>1, <1>2, <1>3, <1>4, <1>5, <1>6, <1>7 DEF Beating

\* No thread is started or assigned.
LEMMA ThreadsKept ==
  ASSUME OneThread, UNCHANGED <<spawned, heartbeat_thread, connection>>,
         \A g \in HbThreads : (pc'[g] = "unborn" <=> pc[g] = "unborn") /\ (Live(g)' => Live(g)),
         \/ receiver' = receiver
         \/ receiver # "assign" /\ receiver' \notin {"start", "assign"}
            /\ (receiver' \in Opening => receiver \in Opening)
  PROVE  OneThread'
BY DEF OneThread

\* No thread is started, and no connection is made.
LEMMA BirthsKept ==
  ASSUME BornOK, UNCHANGED <<born, connection>>, receiver' \in Opening => receiver \in Opening,
         \A g \in HbThreads : pc'[g] = "unborn" <=> pc[g] = "unborn"
  PROVE  BornOK'
BY DEF BornOK

\* A callback keeps one thread at most alive: on_connected starts one when there is none.
LEMMA OneThreadCallbacks ==
  ASSUME Typed, OneThread, BornOK, Callbacks
  PROVE  OneThread' /\ BornOK'
<1> USE DEF transport, settings, deadlines, threads, history
<1>1. CASE Open
  <2>1. /\ UNCHANGED <<spawned, heartbeat_thread, pc, born>> /\ connection' = connection + 1
        /\ receiver = "down" /\ receiver' = "open" /\ connection \in Nat /\ spawned \in Nat
    BY <1>1 DEF Open, Typed
  <2>2. OneThread'
    BY <2>1 DEF OneThread, Live
  <2>3. \A g \in HbThreads : born[g] \in Nat
    BY DEF Typed
  <2> QED
    BY <2>1, <2>2, <2>3 DEF BornOK
<1>2. CASE Connected \/ OnConnected \/ OnConnectedPlain \/ Hear \/ AppSend \/ Lose
  <2>1. /\ UNCHANGED <<spawned, heartbeat_thread, connection, pc, born>>
        /\ \/ receiver' = receiver
           \/ receiver # "assign" /\ receiver' \notin {"start", "assign"}
              /\ (receiver' \in Opening => receiver \in Opening)
    BY <1>2 DEF Connected, OnConnected, OnConnectedPlain, Hear, AppSend, Lose, Opening
  <2>2. OneThread'
    BY <2>1, ThreadsKept DEF Live
  <2> QED
    BY <2>1, <2>2, BirthsKept
<1>3. CASE SetRunning
  <2>1. /\ UNCHANGED <<spawned, heartbeat_thread, connection, pc, born>>
        /\ receiver = "set_running" /\ receiver' \in {"start", "up"}
        /\ receiver' = "start" => heartbeat_thread = None
    BY <1>3 DEF SetRunning
  <2>2. OneThread'
    BY <2>1 DEF OneThread, Live, Opening
  <2> QED
    BY <2>1, <2>2, BirthsKept DEF Opening
<1>4. CASE StartThread
  <2>1. /\ spawned' = spawned + 1 /\ spawned \in Nat /\ spawned < connection
        /\ connection \in 0..MaxConnections /\ heartbeat_thread = None
        /\ receiver = "start" /\ receiver' = "assign" /\ UNCHANGED <<heartbeat_thread, connection>>
    BY <1>4 DEF StartThread, OneThread, Opening, Typed
  <2>2. spawned + 1 \in HbThreads
    BY <2>1, Numbers
  <2>3. /\ pc'[spawned + 1] = "begin" /\ born'[spawned + 1] = connection
        /\ \A g \in HbThreads : g # spawned + 1 => pc'[g] = pc[g] /\ born'[g] = born[g]
    BY <1>4, <2>2 DEF StartThread, Typed
  <2>4. \A g \in HbThreads : ~Live(g) /\ g \in Nat
    BY <2>1, Numbers DEF OneThread
  <2>5. OneThread'
    BY <2>1, <2>2, <2>3, <2>4 DEF OneThread, Live, Opening
  <2>6. BornOK'
    BY <2>1, <2>3 DEF BornOK, Opening
  <2> QED
    BY <2>5, <2>6
<1>5. CASE AssignThread
  <2>1. /\ UNCHANGED <<spawned, connection, pc, born>> /\ heartbeat_thread' = spawned
        /\ receiver = "assign" /\ receiver' = "up"
    BY <1>5 DEF AssignThread
  <2>2. OneThread'
    BY <2>1 DEF OneThread, Live, Opening
  <2> QED
    BY <2>1, <2>2, BirthsKept DEF Opening
<1>6. CASE OnDisconnected
  <2>1. /\ UNCHANGED <<spawned, heartbeat_thread, connection, born, receiver>>
        /\ \A g \in HbThreads : (pc'[g] = "unborn" <=> pc[g] = "unborn") /\ (Live(g)' => Live(g))
    BY <1>6 DEF OnDisconnected, Live
  <2> QED
    BY <2>1, ThreadsKept, BirthsKept
<1> QED
  BY <1>1, <1>2, <1>3, <1>4, <1>5, <1>6 DEF Callbacks

\* A step of the loop keeps one thread at most alive: only its own end clears heartbeat_thread.
LEMMA OneThreadBeating ==
  ASSUME Typed, OneThread, BornOK, NEW h \in HbThreads, Beating(h)
  PROVE  OneThread' /\ BornOK'
<1>1. /\ UNCHANGED <<spawned, connection, born, receiver>>
      /\ \A g \in HbThreads : (pc'[g] = "unborn" <=> pc[g] = "unborn") /\ (Live(g)' => Live(g))
      /\ heartbeat_thread' = heartbeat_thread
         \/ (heartbeat_thread' = None /\ Live(h) /\ ~Live(h)')
  BY BeatingMoves DEF Live
<1>2. BornOK'
  BY <1>1, BirthsKept
<1>3. CASE heartbeat_thread' = heartbeat_thread
  BY <1>1, <1>2, <1>3, ThreadsKept
<1>4. CASE heartbeat_thread' = None /\ Live(h) /\ ~Live(h)'
  <2>1. \A g \in HbThreads : ~Live(g)'
    BY <1>1, <1>4 DEF OneThread
  <2>2. OneThread'
    BY <1>1, <1>4, <2>1 DEF OneThread
  <2> QED
    BY <1>2, <2>2
<1> QED
  BY <1>1, <1>3, <1>4

-----------------------------------------------------------------------------
(* What the two sides agree on *)

\* A callback keeps what was agreed on: on_connected starts from the header that was sent.
LEMMA AgreedCallbacks ==
  ASSUME Typed, AgreedOK, Callbacks
  PROVE  AgreedOK'
BY DEF AgreedOK, Callbacks, Open, Connected, OnConnected, OnConnectedPlain, SetRunning, StartThread,
   AssignThread, Hear, AppSend, Lose, OnDisconnected, transport, settings, deadlines, threads,
   history

\* Who has nothing to send will have nothing to send, ...
LEMMA NextCallbacks ==
  ASSUME Typed, OneThread, NextOK, Callbacks
  PROVE  NextOK'
<1> USE DEF transport, settings, deadlines, threads, history
<1>1. CASE Open \/ AppSend
  <2>1. next_outbound_heartbeat' = None <=> next_outbound_heartbeat = None
    BY <1>1, BumpTyped DEF Open, AppSend
  <2> QED
    BY <1>1, <2>1 DEF NextOK, Open, AppSend, Live
<1>2. CASE Connected \/ OnConnectedPlain \/ SetRunning \/ AssignThread \/ Hear \/ Lose
  BY <1>2 DEF NextOK, Connected, OnConnectedPlain, SetRunning, AssignThread, Hear, Lose, Live
<1>3. CASE OnDisconnected
  <2>1. \A g \in HbThreads : (Live(g) /\ pc[g] # "begin")' => Live(g) /\ pc[g] # "begin"
    BY <1>3 DEF OnDisconnected, Live
  <2> QED
    BY <1>3, <2>1 DEF NextOK, OnDisconnected
<1>4. CASE OnConnected
  <2>1. /\ offer \in Nat \X Nat /\ heartbeats' = CalculateHeartbeats(offer, heartbeats)
        /\ UNCHANGED <<pc, spawned, next_outbound_heartbeat>> /\ heartbeats \in Nat \X Nat
    BY <1>4 DEF OnConnected, Typed
  <2>2. heartbeats' \in Nat \X Nat /\ (heartbeats[1] = 0 => heartbeats'[1] = 0)
    BY <2>1, Agreement
  <2>3. IF heartbeats' = Off THEN receiver' = "up" /\ send_sleep' = send_sleep
        ELSE send_sleep' = 2 * heartbeats'[1]
    BY <1>4 DEF OnConnected
  <2> QED
    BY <2>1, <2>2, <2>3 DEF NextOK, Live
<1>5. CASE StartThread
  <2>1. /\ UNCHANGED <<heartbeats, send_sleep, next_outbound_heartbeat>> /\ receiver = "start"
        /\ \A g \in HbThreads : pc'[g] = pc[g] \/ pc'[g] = "begin"
    BY <1>5 DEF StartThread, Typed
  <2> QED
    BY <2>1 DEF NextOK, Live
<1> QED
  BY <1>1, <1>2, <1>3, <1>4, <1>5 DEF Callbacks

\* ... and a loop that begins with something to send knows when.
LEMMA NextBeating ==
  ASSUME Typed, OneThread, NextOK, NEW h \in HbThreads, Beating(h)
  PROVE  NextOK'
<1>1. /\ UNCHANGED <<heartbeats, send_sleep, spawned, receiver>>
      /\ \A g \in HbThreads : g # h => pc'[g] = pc[g]
      /\ pc[h] # "unborn" /\ (Live(h)' => Live(h))
  BY BeatingMoves
<1>2. CASE Begin(h)
  <2>1. /\ next_outbound_heartbeat' # None => next_outbound_heartbeat # None \/ send_sleep # 0
        /\ next_outbound_heartbeat' = None =>
             next_outbound_heartbeat = None /\ send_sleep = 0
    BY <1>2, Numbers DEF Begin, Typed
  <2>2. send_sleep = 0 => heartbeats[1] = 0
    <3>1. spawned # 0 /\ heartbeats[1] \in Nat
      BY <1>1, Numbers DEF OneThread, Typed
    <3> QED
      BY <3>1 DEF NextOK, Off
  <2> QED
    BY <1>1, <2>1, <2>2 DEF NextOK
<1>3. CASE ~Begin(h)
  <2>1. next_outbound_heartbeat' = None <=> next_outbound_heartbeat = None
    BY <1>3, BumpTyped DEF Beating, Loop, LoopEnds, Terminated, Wake, Check, Sleep, SendHeartbeat,
       CheckSilence, Timeout, DisconnectSocket, End, Clear, deadlines
  <2>2. (Live(h) /\ pc[h] # "begin")' => Live(h) /\ pc[h] # "begin"
    BY <1>1, <1>3 DEF Beating, Loop, LoopEnds, Terminated, Wake, Check, Sleep, SendHeartbeat,
       CheckSilence, Timeout, DisconnectSocket, End, Clear, Live
  <2> QED
    BY <1>1, <2>1, <2>2 DEF NextOK, Live
<1> QED
  BY <1>2, <1>3

-----------------------------------------------------------------------------
(* The deadlines of a session *)

\* While a connection is being made no thread was born for it.
LEMMA NoneMine ==
  ASSUME Typed, BornOK, receiver \in Opening, NEW h \in HbThreads, pc[h] # "unborn"
  PROVE  born[h] # connection
<1>1. born[h] < connection /\ born[h] \in Nat /\ connection \in Nat
  BY DEF BornOK, Typed
<1> QED
  BY <1>1

\* A callback keeps received_heartbeat the time of the last frame, the grace counted as one.
LEMMA SessionCallbacks ==
  ASSUME Typed, BornOK, SessionOK, Callbacks, BornOK'
  PROVE  SessionOK'
<1> USE DEF transport, settings, deadlines, threads, history
<1>0. /\ clock \in Nat /\ lastHeard \in Nat /\ since \in Nat /\ receive_sleep \in Nat
      /\ connection \in Nat /\ \A h \in HbThreads : born[h] \in Nat
  BY DEF Typed
<1>1. CASE Open
  <2>1. receiver' = "open"
    BY <1>1 DEF Open
  <2>2. ASSUME NEW h \in HbThreads, pc'[h] # "unborn" PROVE born'[h] # connection'
    <3>1. born'[h] < connection' /\ born'[h] \in Nat
      BY <1>0, <1>1, <2>1, <2>2 DEF BornOK, Opening, Open
    <3> QED
      BY <1>0, <1>1, <3>1 DEF Open
  <2> QED
    BY <1>1, <2>1, <2>2 DEF SessionOK, Open
<1>2. CASE Connected
  <2>1. \A h \in HbThreads : pc[h] # "unborn" => born[h] # connection
    BY <1>2, NoneMine DEF Connected, Opening
  <2> QED
    BY <1>0, <1>2, <2>1 DEF SessionOK, Connected, Opening
<1>3. CASE OnConnected
  <2>1. \A h \in HbThreads : pc[h] # "unborn" => born[h] # connection
    BY <1>3, NoneMine DEF OnConnected, Opening
  <2>2. since = clock /\ lastHeard = clock /\ lastSent = clock
    BY <1>3 DEF SessionOK, OnConnected, Opening
  <2>3. heartbeats' # Off => received_heartbeat' = clock + receive_sleep' /\ receive_sleep' \in Nat
    <3>1. heartbeats' \in Nat \X Nat
      BY <1>3, Agreement DEF OnConnected, Typed
    <3> QED
      BY <1>3, <3>1 DEF OnConnected
  <2>4. receiver' = "set_running" => received_heartbeat' = Heard'
    BY <1>0, <1>3, <2>2, <2>3 DEF OnConnected, Heard
  <2> QED
    BY <1>3, <2>1, <2>2, <2>4 DEF SessionOK, OnConnected, Opening
<1>4. CASE OnConnectedPlain \/ SetRunning
  <2>1. \A h \in HbThreads : pc[h] # "unborn" => born[h] # connection
    BY <1>4, NoneMine DEF OnConnectedPlain, SetRunning, Opening
  <2> QED
    BY <1>4, <2>1 DEF SessionOK, OnConnectedPlain, SetRunning, Opening, Heard
<1>5. CASE StartThread
  <2>1. received_heartbeat = Heard /\ UNCHANGED <<received_heartbeat, lastHeard, since, lastSent,
                                                   clock, now, receive_sleep>>
        /\ receiver' = "assign"
    BY <1>5 DEF SessionOK, StartThread
  <2>2. received_heartbeat' = Heard'
    BY <2>1 DEF Heard
  <2> QED
    BY <2>1, <2>2 DEF SessionOK, Opening
<1>6. CASE AssignThread \/ Lose
  BY <1>6 DEF SessionOK, AssignThread, Lose, Opening, Heard
<1>7. CASE Hear
  <2>1. /\ lastHeard' = clock /\ receiver' = "up" /\ lastHeard <= clock
        /\ UNCHANGED <<clock, since, receive_sleep, lastSent, now, pc, born, connection>>
    BY <1>7 DEF Hear, SessionOK
  <2>2. ASSUME received_heartbeat = Heard PROVE received_heartbeat' = Heard'
    <3>1. received_heartbeat \in Nat /\ received_heartbeat # None
      BY <1>0, <2>2, Numbers DEF Heard
    <3>2. received_heartbeat' = IF clock > received_heartbeat THEN clock ELSE received_heartbeat
      BY <1>7, <3>1 DEF Hear, UpdateHeartbeat
    <3> QED
      BY <1>0, <2>1, <2>2, <3>2 DEF Heard
  <2> QED
    BY <1>0, <2>1, <2>2 DEF SessionOK, Opening
<1>8. CASE AppSend
  BY <1>0, <1>8 DEF SessionOK, AppSend, Opening, Heard
<1>9. CASE OnDisconnected
  <2>1. \A h \in HbThreads : pc'[h] = "unborn" <=> pc[h] = "unborn"
    BY <1>9 DEF OnDisconnected
  <2> QED
    BY <1>9, <2>1 DEF SessionOK, OnDisconnected, Heard
<1> QED
  BY <1>1, <1>2, <1>3, <1>4, <1>5, <1>6, <1>7, <1>8, <1>9 DEF Callbacks

\* A step of the loop keeps it so.
LEMMA SessionBeating ==
  ASSUME Typed, SessionOK, NEW h \in HbThreads, Beating(h)
  PROVE  SessionOK'
<1>1. /\ UNCHANGED <<clock, received_heartbeat, receive_sleep, born, receiver, connection, since,
                     lastHeard>>
      /\ \A g \in HbThreads : (pc'[g] = "unborn" <=> pc[g] = "unborn")
      /\ \A g \in HbThreads : now'[g] \in {now[g], clock}
  BY BeatingMoves
<1>2. lastSent' \in {lastSent, clock}
  BY DEF Beating, Begin, Loop, LoopEnds, Terminated, Wake, Check, Sleep, SendHeartbeat,
     CheckSilence, Timeout, DisconnectSocket, End, Clear, history
<1>3. clock \in Nat
  BY DEF Typed
<1> QED
  BY <1>1, <1>2, <1>3 DEF SessionOK, Heard, Opening

-----------------------------------------------------------------------------
(* The loop of a session *)

\* A thread that does not live, or waits to end, has nothing to keep.
LEMMA NotInLoop ==
  ASSUME NEW h \in HbThreads, pc[h] \notin (LoopLabels \cup {"disconnect_socket"})
  PROVE  Timely(h)
BY DEF LoopLabels, SendingOK, HearingOK, Timely

\* What a thread that is neither moved nor told of anything keeps.
LEMMA LoopStays ==
  ASSUME LoopOK, NEW h \in HbThreads, Mine(h), pc'[h] = pc[h], now'[h] = now[h],
         wakeAt'[h] = wakeAt[h],
         UNCHANGED <<clock, send_sleep, receive_sleep, next_outbound_heartbeat,
                     received_heartbeat, since, lastSent>>
  PROVE  Timely(h)'
BY DEF LoopOK, Timely, Slept, SendingOK, HearingOK, LeftOver, SendBy, NoticeBy

\* A callback leaves the loop of the session in time.
LEMMA LoopCallbacks ==
  ASSUME Typed, OneThread, BornOK, SessionOK, LoopOK, Callbacks, BornOK'
  PROVE  LoopOK'
<1> USE DEF transport, settings, deadlines, threads, history
<1>0. /\ clock \in Nat /\ lastSent \in Nat /\ since \in Nat /\ receive_sleep \in Nat
      /\ send_sleep \in Nat /\ connection \in Nat
      /\ \A h \in HbThreads : born[h] \in Nat /\ now[h] \in Nat /\ wakeAt[h] \in Nat
  BY DEF Typed
<1>1. CASE Open \/ Lose
  <2>1. ASSUME NEW h \in HbThreads PROVE ~Mine(h)'
    <3>1. CASE Lose
      BY <3>1 DEF Lose, Mine
    <3>2. CASE Open
      <4>1. pc'[h] # "unborn" => born'[h] < connection' /\ born'[h] \in Nat
        BY <1>0, <3>2 DEF BornOK, Opening, Open
      <4> QED
        BY <1>0, <3>2, <4>1 DEF Mine, Open
    <3> QED
      BY <1>1, <3>1, <3>2
  <2> QED
    BY <2>1 DEF LoopOK
<1>2. CASE Connected \/ OnConnected \/ OnConnectedPlain \/ SetRunning
  <2>1. UNCHANGED <<pc, born, connection>> /\ receiver \in Opening
    BY <1>2 DEF Connected, OnConnected, OnConnectedPlain, SetRunning, Opening
  <2>2. \A h \in HbThreads : ~Mine(h)'
    BY <2>1, NoneMine DEF Mine
  <2> QED
    BY <2>2 DEF LoopOK
<1>3. CASE StartThread
  <2>1. ASSUME NEW h \in HbThreads, Mine(h)'
        PROVE  pc'[h] = "begin" /\ since' = clock' /\ lastSent' = clock'
    <3>1. since = clock /\ lastSent = clock /\ receiver \in Opening /\ UNCHANGED connection
          /\ UNCHANGED <<clock, since, lastSent>>
      BY <1>3 DEF StartThread, SessionOK, Opening
    <3>2. pc'[h] = "begin" \/ (pc'[h] = pc[h] /\ born'[h] = born[h])
      BY <1>3 DEF StartThread, Typed
    <3> QED
      BY <2>1, <3>1, <3>2, NoneMine DEF Mine
  <2> QED
    BY <2>1 DEF LoopOK, Timely, SendingOK, HearingOK, LoopLabels
<1>4. CASE AssignThread
  <2>1. /\ UNCHANGED <<clock, send_sleep, receive_sleep, next_outbound_heartbeat,
                       received_heartbeat, since, lastSent, pc, now, wakeAt, born, connection,
                       connected>>
    BY <1>4 DEF AssignThread
  <2> QED
    BY <2>1, LoopStays DEF LoopOK, Mine
<1>5. CASE OnDisconnected
  <2>1. /\ UNCHANGED <<clock, send_sleep, receive_sleep, next_outbound_heartbeat,
                       received_heartbeat, since, lastSent, now, wakeAt, born, connection,
                       connected>>
        /\ \A h \in HbThreads : pc'[h] = pc[h] \/ (pc'[h] = "end" /\ pc[h] # "unborn")
    BY <1>5 DEF OnDisconnected
  <2>2. ASSUME NEW h \in HbThreads, Mine(h)', pc'[h] = pc[h]
        PROVE  Timely(h)'
    <3>1. Mine(h)
      BY <2>1, <2>2 DEF Mine
    <3> QED
      BY <2>1, <2>2, <3>1, LoopStays
  <2>3. ASSUME NEW h \in HbThreads, pc'[h] = "end"
        PROVE  Timely(h)'
    BY <2>3 DEF Timely, SendingOK, HearingOK, LoopLabels
  <2> QED
    BY <2>1, <2>2, <2>3 DEF LoopOK
<1>6. CASE Hear
  <2>1. UNCHANGED <<clock, send_sleep, receive_sleep, next_outbound_heartbeat, since, lastSent, pc,
                    now, wakeAt, born, connection, connected>>
    BY <1>6 DEF Hear
  <2>2. receive_sleep # 0 => received_heartbeat \in Nat /\ received_heartbeat' \in Nat
                             /\ received_heartbeat <= received_heartbeat'
    BY <1>0, <1>6 DEF Hear, UpdateHeartbeat, Typed
  <2>3. ASSUME NEW h \in HbThreads, receive_sleep # 0, HearingOK(h) PROVE HearingOK(h)'
    BY <1>0, <2>1, <2>2, <2>3 DEF HearingOK, NoticeBy
  <2> QED
    BY <2>1, <2>3 DEF LoopOK, Timely, Mine, Slept, SendingOK, LeftOver, SendBy
<1>7. CASE AppSend
  <2>1. /\ UNCHANGED <<clock, send_sleep, receive_sleep, received_heartbeat, since, pc, now, wakeAt,
                       born, connection, connected>>
        /\ lastSent' = clock /\ lastSent <= clock
    BY <1>7 DEF AppSend, SessionOK
  <2>2. /\ next_outbound_heartbeat # None => next_outbound_heartbeat' = clock + send_sleep
        /\ next_outbound_heartbeat' = None <=> next_outbound_heartbeat = None
    BY <1>7, BumpTyped DEF AppSend, Bump
  <2>3. ASSUME NEW h \in HbThreads, SendingOK(h) PROVE SendingOK(h)'
    <3>1. pc[h] \in LoopLabels \ {"begin"} => next_outbound_heartbeat # None
      BY <1>0, <2>3, Numbers DEF SendingOK, SendBy
    <3> QED
      BY <1>0, <2>1, <2>2, <2>3, <3>1 DEF SendingOK, SendBy
  <2>4. \A h \in HbThreads : HearingOK(h) => HearingOK(h)'
    BY <2>1 DEF HearingOK, NoticeBy
  <2> QED
    BY <2>1, <2>2, <2>3, <2>4 DEF LoopOK, Timely, Mine, Slept, LeftOver
<1> QED
  BY <1>1, <1>2, <1>3, <1>4, <1>5, <1>6, <1>7 DEF Callbacks

\* A step of the loop leaves the loop of the session in time.
LEMMA LoopBeating ==
  ASSUME Typed, OneThread, SessionOK, LoopOK, NEW h \in HbThreads, Beating(h)
  PROVE  LoopOK'
<1> USE DEF transport, settings, deadlines, threads, history, Goto
<1>0. /\ clock \in Nat /\ lastSent \in Nat /\ since \in Nat /\ lastHeard \in Nat
      /\ receive_sleep \in Nat /\ send_sleep \in Nat /\ now[h] \in Nat /\ wakeAt[h] \in Nat
      /\ receive_sleep # 0 => received_heartbeat \in Nat
      /\ next_outbound_heartbeat # None => next_outbound_heartbeat \in Nat
      /\ pc \in [HbThreads -> ThreadLabels] /\ now \in [HbThreads -> Nat]
      /\ wakeAt \in [HbThreads -> Nat]
  BY DEF Typed
<1>1. /\ UNCHANGED <<clock, send_sleep, receive_sleep, received_heartbeat, born, connection, since>>
      /\ \A g \in HbThreads : g # h => pc'[g] = pc[g] /\ now'[g] = now[g] /\ wakeAt'[g] = wakeAt[g]
      /\ pc[h] # "unborn" /\ (connected' => connected)
  BY BeatingMoves
<1>2. ASSUME NEW g \in HbThreads, g # h, Mine(g)' PROVE Timely(g)'
  <2>1. Mine(g)
    BY <1>1, <1>2 DEF Mine
  <2>2. CASE ~Live(g)
    <3>1. pc'[g] \in {"unborn", "clear", "dead"}
      BY <1>1, <1>2, <2>2 DEF Live
    <3> QED
      BY <3>1 DEF Timely, SendingOK, HearingOK, LoopLabels
  <2>3. CASE Live(g)
    <3>1. ~Live(h)
      BY <1>2, <2>3 DEF OneThread
    <3>2. Clear(h)
      BY <3>1 DEF Live, Beating, Begin, Loop, LoopEnds, Terminated, Wake, Check, Sleep,
         SendHeartbeat, CheckSilence, Timeout, DisconnectSocket, End
    <3> QED
      BY <1>1, <1>2, <2>1, <3>2, LoopStays DEF Clear
  <2> QED
    BY <2>2, <2>3
<1>3. ASSUME Mine(h)' PROVE Timely(h)'
  <2>1. Mine(h) /\ Timely(h) /\ connected /\ connected'
    BY <1>1, <1>3 DEF Mine, LoopOK
  <2>2. received_heartbeat = Heard /\ lastSent <= clock
    BY <2>1 DEF Mine, SessionOK
  <2>3. CASE Begin(h)
    <3>1. /\ pc'[h] = "loop" /\ since = clock /\ lastSent = clock /\ UNCHANGED lastSent
          /\ send_sleep # 0 => next_outbound_heartbeat' = clock + send_sleep
      BY <1>0, <2>1, <2>3 DEF Begin, Timely
    <3>2. SendingOK(h)' \/ send_sleep = 0
      BY <1>0, <1>1, <3>1 DEF SendingOK, SendBy
    <3>3. HearingOK(h)' \/ receive_sleep = 0
      BY <1>0, <1>1, <2>2, <3>1 DEF HearingOK, NoticeBy, Heard
    <3> QED
      BY <1>1, <3>1, <3>2, <3>3 DEF Timely
  <2>4. CASE Loop(h)
    <3>1. PICK w : w = IF NextEvents = {} THEN clock ELSE Min(NextEvents)
      OBVIOUS
    <3>2. /\ pc[h] = "loop" /\ pc'[h] = "wait" /\ now'[h] = clock /\ wakeAt'[h] = w
          /\ UNCHANGED <<next_outbound_heartbeat, lastSent>>
      BY <1>0, <2>4, <3>1 DEF Loop
    <3>3. /\ w \in Nat
          /\ next_outbound_heartbeat # None => w <= next_outbound_heartbeat
          /\ receive_sleep # 0 /\ NoticeBy > clock => w <= NoticeBy
          /\ next_outbound_heartbeat = None /\ ~(NoticeBy > clock) => w <= clock
      BY <3>1, NextWake
    <3>4. ASSUME send_sleep # 0
          PROVE  /\ next_outbound_heartbeat = SendBy /\ next_outbound_heartbeat # None
                 /\ clock <= SendBy
      <4>1. next_outbound_heartbeat = SendBy /\ clock <= SendBy
        BY <2>1, <3>2, <3>4 DEF Timely, SendingOK, LoopLabels
      <4> QED
        BY <1>0, <4>1, Numbers DEF SendBy
    <3>5. SendingOK(h)' \/ send_sleep = 0
      BY <1>0, <1>1, <3>2, <3>3, <3>4 DEF SendingOK, SendBy, LoopLabels
    <3>6. ASSUME receive_sleep # 0, ~LeftOver PROVE w <= NoticeBy + send_sleep /\ clock <= NoticeBy
      <4>1. clock <= NoticeBy /\ NoticeBy \in Nat
        BY <1>0, <2>1, <3>2, <3>6 DEF Timely, HearingOK, NoticeBy
      <4>2. CASE send_sleep # 0
        BY <1>0, <2>2, <3>3, <3>4, <3>6, <4>1, <4>2 DEF SendBy
      <4>3. CASE send_sleep = 0
        BY <1>0, <3>3, <3>6, <4>1, <4>3 DEF LeftOver
      <4> QED
        BY <4>2, <4>3
    <3>7. receive_sleep # 0 /\ ~LeftOver' => HearingOK(h)'
      BY <1>1, <3>2, <3>6 DEF HearingOK, NoticeBy, LeftOver
    <3>8. Slept(h)'
      BY <1>0, <1>1, <3>2 DEF Slept
    <3> QED
      BY <1>1, <3>2, <3>5, <3>7, <3>8 DEF Timely
  <2>5. CASE LoopEnds(h) \/ Terminated(h) \/ End(h) \/ Clear(h)
    <3>1. pc'[h] \in {"end", "clear", "dead"}
      BY <1>0, <2>5 DEF LoopEnds, Terminated, End, Clear
    <3> QED
      BY <3>1 DEF Timely, SendingOK, HearingOK, LoopLabels
  <2>6. CASE Wake(h)
    <3>1. /\ pc[h] = "wait" /\ pc'[h] = "check" /\ now'[h] = clock
          /\ UNCHANGED <<next_outbound_heartbeat, lastSent>>
      BY <1>0, <2>6 DEF Wake
    <3>2. clock <= now[h] + 1 \/ clock <= wakeAt[h] + 1
      BY <2>1, <3>1 DEF Timely, Slept
    <3>3. SendingOK(h)' \/ send_sleep = 0
      BY <1>0, <1>1, <2>1, <3>1, <3>2 DEF Timely, SendingOK, SendBy, LoopLabels
    <3>4. receive_sleep # 0 /\ ~LeftOver' => HearingOK(h)'
      BY <1>0, <1>1, <2>1, <3>1, <3>2 DEF Timely, HearingOK, NoticeBy, LeftOver
    <3> QED
      BY <1>1, <3>1, <3>3, <3>4 DEF Timely
  <2>7. CASE Check(h)
    <3>1. /\ pc[h] = "check" /\ pc'[h] = "send?"
          /\ UNCHANGED <<next_outbound_heartbeat, lastSent, now>>
      BY <1>0, <2>1, <2>7 DEF Check
    <3>2. SendingOK(h)' \/ send_sleep = 0
      BY <1>0, <1>1, <2>1, <3>1 DEF Timely, SendingOK, SendBy, LoopLabels
    <3>3. receive_sleep # 0 /\ ~LeftOver' => HearingOK(h)'
      BY <1>0, <1>1, <2>1, <3>1 DEF Timely, HearingOK, NoticeBy, LeftOver
    <3> QED
      BY <1>1, <2>1, <3>1, <3>2, <3>3 DEF Timely
  <2>8. CASE SendHeartbeat(h)
    <3>1. /\ pc[h] = "send?" /\ pc'[h] = "silence?" /\ UNCHANGED now /\ now[h] = clock
      BY <1>0, <2>1, <2>8 DEF SendHeartbeat, Timely
    <3>2. ASSUME send_sleep # 0
          PROVE  /\ next_outbound_heartbeat = SendBy /\ next_outbound_heartbeat # None
      <4>1. next_outbound_heartbeat = SendBy
        BY <2>1, <3>1, <3>2 DEF Timely, SendingOK, LoopLabels
      <4> QED
        BY <1>0, <4>1, Numbers DEF SendBy
    <3>3. \/ send_sleep # 0 /\ next_outbound_heartbeat' = clock + send_sleep /\ lastSent' = clock
          \/ /\ send_sleep = 0 \/ ~(now[h] > next_outbound_heartbeat)
             /\ UNCHANGED <<next_outbound_heartbeat, lastSent>>
      BY <2>8, <3>2 DEF SendHeartbeat, Bump
    <3>4. SendingOK(h)' \/ send_sleep = 0
      BY <1>0, <1>1, <3>1, <3>2, <3>3 DEF SendingOK, SendBy, LoopLabels
    <3>5. receive_sleep # 0 /\ ~LeftOver' => HearingOK(h)'
      BY <1>0, <1>1, <2>1, <3>1, <3>3 DEF Timely, HearingOK, NoticeBy, LeftOver
    <3> QED
      BY <1>1, <3>1, <3>4, <3>5 DEF Timely
  <2>9. CASE CheckSilence(h)
    <3>1. /\ pc[h] = "silence?" /\ now[h] = clock
          /\ UNCHANGED <<next_outbound_heartbeat, lastSent>>
          /\ \/ pc'[h] = "timeout"
             \/ /\ pc'[h] = "loop"
                /\ receive_sleep = 0 \/ ~(now[h] - received_heartbeat > receive_sleep)
      BY <1>0, <2>1, <2>9 DEF CheckSilence, Timely
    <3>2. SendingOK(h)' \/ send_sleep = 0
      BY <1>0, <1>1, <2>1, <3>1 DEF Timely, SendingOK, SendBy, LoopLabels
    <3>3. receive_sleep = 0 \/ HearingOK(h)'
      BY <1>0, <1>1, <3>1 DEF HearingOK, NoticeBy
    <3> QED
      BY <1>1, <3>1, <3>2, <3>3 DEF Timely
  <2>10. CASE Sleep(h) \/ Timeout(h) \/ DisconnectSocket(h)
    BY <2>1, <2>10 DEF Timely, Sleep, Timeout, DisconnectSocket
  <2> QED
    BY <2>3, <2>4, <2>5, <2>6, <2>7, <2>8, <2>9, <2>10 DEF Beating
<1> QED
  BY <1>2, <1>3 DEF LoopOK

-----------------------------------------------------------------------------
(* The first session *)

\* A callback does not end the loop of the first session.
LEMMA FirstCallbacks ==
  ASSUME Typed, OneThread, FirstOK, Callbacks
  PROVE  FirstOK'
<1> USE DEF transport, settings, deadlines, threads, history
<1>0. /\ connection \in Nat /\ spawned \in Nat /\ owed \in Nat /\ pc \in [HbThreads -> ThreadLabels]
      /\ 1 \in HbThreads
  BY SMTT(20), HeartbeatAssumption DEF Typed, HbThreads
<1>1. CASE Open
  <2>1. /\ connection' = connection + 1 /\ receiver' = "open"
        /\ UNCHANGED <<owed, terminate, connected, spawned, pc, running>>
    BY <1>1 DEF Open
  <2>2. connection = 0 => spawned = 0
    BY <1>0 DEF OneThread
  <2> QED
    BY <1>0, <2>1, <2>2 DEF FirstOK
<1>2. CASE Connected
  BY <1>0, <1>2 DEF FirstOK, Connected, OneThread, Opening
<1>3. CASE OnConnected \/ OnConnectedPlain
  BY <1>0, <1>3 DEF FirstOK, OnConnected, OnConnectedPlain, OneThread, Opening
<1>4. CASE SetRunning
  BY <1>0, <1>4 DEF FirstOK, SetRunning, OneThread, Opening
<1>5. CASE StartThread
  <2>1. /\ spawned' = spawned + 1 /\ pc' = [pc EXCEPT ![spawned + 1] = "begin"]
        /\ receiver = "start" /\ receiver' = "assign"
        /\ UNCHANGED <<owed, terminate, connected, connection, running>>
    BY <1>5 DEF StartThread
  <2>2. connection = 1 => spawned = 0
    BY <1>0, <2>1 DEF OneThread, Opening
  <2> QED
    BY <1>0, <2>1, <2>2 DEF FirstOK, LoopLabels
<1>6. CASE AssignThread
  BY <1>0, <1>6 DEF FirstOK, AssignThread, OneThread
<1>7. CASE Hear \/ AppSend \/ Lose
  BY <1>0, <1>7 DEF FirstOK, Hear, AppSend, Lose
<1>8. CASE OnDisconnected
  BY <1>0, <1>8 DEF FirstOK, OnDisconnected, Terminate
<1> QED
  BY <1>1, <1>2, <1>3, <1>4, <1>5, <1>6, <1>7, <1>8 DEF Callbacks

\* Nor does a step of the loop itself.
LEMMA FirstBeating ==
  ASSUME Typed, OneThread, FirstOK, NEW h \in HbThreads, Beating(h)
  PROVE  FirstOK'
<1> USE DEF transport, settings, deadlines, threads, history, Goto
<1>1. /\ UNCHANGED <<receiver, owed, connection, spawned, offer, heartbeats>> /\ pc[h] # "unborn"
      /\ \A g \in HbThreads : g # h => pc'[g] = pc[g]
      /\ connected' => connected
  BY BeatingMoves
<1>2. /\ connection \in Nat /\ spawned \in Nat /\ h \in Nat /\ h # 0
      /\ pc \in [HbThreads -> ThreadLabels]
  BY Numbers DEF Typed
<1>3. h <= spawned /\ spawned <= connection
  BY <1>1, <1>2 DEF OneThread
<1>4. connection # 0
  BY <1>2, <1>3
<1>5. CASE ~connected'
  <2>1. spawned # 0
    BY <1>2, <1>3
  <2> QED
    BY <1>1, <1>4, <1>5, <2>1 DEF FirstOK
<1>6. CASE connected' /\ connection = 1 /\ receiver # "down"
  <2>1. h = 1 /\ spawned = 1
    BY <1>2, <1>3, <1>6
  <2>2. ~terminate /\ running /\ pc[1] \in (LoopLabels \cup {"timeout"}) \ {"sleep"}
    BY <1>1, <1>6, <2>1 DEF FirstOK
  <2>3. /\ UNCHANGED <<terminate, running>>
        /\ pc'[1] \in {"loop", "wait", "check", "send?", "silence?", "timeout"}
    <3>1. CASE Begin(h) \/ Loop(h)
      BY <1>2, <2>1, <3>1 DEF Begin, Loop
    <3>2. CASE LoopEnds(h) \/ Terminated(h) \/ Sleep(h) \/ DisconnectSocket(h) \/ End(h) \/ Clear(h)
      BY <2>1, <2>2, <3>2 DEF LoopEnds, Terminated, Sleep, DisconnectSocket, End, Clear, LoopLabels
    <3>3. CASE Wake(h) \/ Check(h)
      BY <1>1, <1>2, <1>6, <2>1, <3>3 DEF Wake, Check
    <3>4. CASE SendHeartbeat(h) \/ CheckSilence(h)
      BY <1>2, <2>1, <3>4 DEF SendHeartbeat, CheckSilence
    <3>5. CASE Timeout(h)
      BY <1>6, <3>5 DEF Timeout
    <3> QED
      BY <3>1, <3>2, <3>3, <3>4, <3>5 DEF Beating
  <2>4. pc'[1] \in (LoopLabels \cup {"timeout"}) \ {"sleep"}
    BY <2>3 DEF LoopLabels
  <2> QED
    BY <1>1, <1>4, <2>1, <2>2, <2>3, <2>4 DEF FirstOK
<1>7. CASE ~(connection = 1 /\ receiver # "down")
  BY <1>1, <1>4, <1>7 DEF FirstOK
<1> QED
  BY <1>5, <1>6, <1>7

-----------------------------------------------------------------------------
(* The invariant *)

\* It holds at first: no connection was made yet.
LEMMA HInvInit == Init => HInv
<1> SUFFICES ASSUME Init PROVE HInv
  OBVIOUS
<1>1. Typed
  BY TypedInit
<1>2. OneThread /\ BornOK
  BY Numbers DEF Init, OneThread, BornOK, Live, Opening
<1>3. AgreedOK /\ SessionOK /\ NextOK
  BY DEF Init, AgreedOK, SessionOK, NextOK, Live, Opening
<1>4. LoopOK /\ FirstOK
  BY DEF Init, LoopOK, Mine, FirstOK
<1> QED
  BY <1>1, <1>2, <1>3, <1>4 DEF HInv

\* Time passes only while the loop waits for what it knows: it wakes in time.
LEMMA HInvTick ==
  ASSUME HInv, Tick
  PROVE  HInv'
<1> USE DEF HInv, transport, settings, deadlines, threads, history
<1>1. /\ clock' = clock + 1 /\ clock \in Nat /\ lastHeard \in Nat /\ lastSent \in Nat
      /\ receiver \in {"down", "open", "up"} /\ \A h \in HbThreads : Waits(h)
      /\ UNCHANGED <<connected, receiver, pc, now, wakeAt, born, spawned, connection, since,
                     lastHeard, lastSent, send_sleep, receive_sleep, next_outbound_heartbeat,
                     received_heartbeat>>
      /\ \A h \in HbThreads : now[h] \in Nat /\ wakeAt[h] \in Nat
  BY DEF Tick, Typed
<1>2. Typed'
  BY <1>1 DEF Tick, Typed
<1>3. OneThread' /\ BornOK'
  BY DEF Tick, OneThread, BornOK, Live
<1>4. AgreedOK' /\ NextOK'
  BY DEF Tick, AgreedOK, NextOK, Live
<1>5. SessionOK'
  BY <1>1 DEF SessionOK, Heard, Opening
<1>6. ASSUME NEW h \in HbThreads, Mine(h)' PROVE Timely(h)'
  <2>1. Mine(h) /\ Timely(h)
    BY <1>1, <1>6 DEF Mine, LoopOK
  <2>2. CASE pc[h] = "wait"
    <3>1. clock <= now[h] \/ clock <= wakeAt[h]
      <4>1. ~Due(h)
        BY <1>1, <2>2 DEF Waits
      <4>2. now[h] \in Int /\ wakeAt[h] \in Int /\ clock \in Int
        BY <1>1
      <4>3. Max({now[h], wakeAt[h]}) = IF now[h] >= wakeAt[h] THEN now[h] ELSE wakeAt[h]
        BY <4>2, MaxOfTwo
      <4> QED
        BY <4>1, <4>2, <4>3 DEF Due
    <3>2. Slept(h)'
      BY <1>1, <3>1 DEF Slept
    <3>3. (SendingOK(h) => SendingOK(h)') /\ (HearingOK(h) => HearingOK(h)')
      BY <1>1, <2>2 DEF SendingOK, HearingOK, SendBy, NoticeBy
    <3> QED
      BY <1>1, <2>1, <2>2, <3>2, <3>3 DEF Timely, LeftOver
  <2>3. CASE pc[h] # "wait"
    <3>1. pc'[h] \in {"unborn", "dead"}
      BY <1>1, <2>1, <2>3 DEF Waits, Timely
    <3> QED
      BY <3>1 DEF Timely, SendingOK, HearingOK, LoopLabels
  <2> QED
    BY <2>2, <2>3
<1>7. LoopOK'
  BY <1>6 DEF LoopOK
<1>8. FirstOK'
  BY DEF Tick, FirstOK
<1> QED
  BY <1>2, <1>3, <1>4, <1>5, <1>7, <1>8

\* Every step keeps it.
LEMMA HInvStep ==
  ASSUME HInv, [Next]_vars
  PROVE  HInv'
<1>1. CASE Callbacks
  <2>1. Typed' /\ OneThread' /\ BornOK'
    BY <1>1, TypedCallbacks, OneThreadCallbacks DEF HInv
  <2>2. AgreedOK' /\ NextOK' /\ FirstOK'
    BY <1>1, AgreedCallbacks, NextCallbacks, FirstCallbacks DEF HInv
  <2>3. SessionOK' /\ LoopOK'
    BY <1>1, <2>1, SessionCallbacks, LoopCallbacks DEF HInv
  <2> QED
    BY <2>1, <2>2, <2>3 DEF HInv
<1>2. CASE \E h \in HbThreads : Beating(h)
  <2>1. PICK h \in HbThreads : Beating(h)
    BY <1>2
  <2>2. Typed' /\ OneThread' /\ BornOK'
    BY <2>1, TypedBeating, OneThreadBeating DEF HInv
  <2>3. AgreedOK' /\ NextOK' /\ FirstOK'
    <3>1. UNCHANGED <<receiver, offered, offer, heartbeats>>
      BY <2>1, BeatingMoves DEF HInv
    <3>2. AgreedOK'
      BY <3>1 DEF HInv, AgreedOK
    <3> QED
      BY <2>1, <3>2, NextBeating, FirstBeating DEF HInv
  <2>4. SessionOK' /\ LoopOK'
    BY <2>1, SessionBeating, LoopBeating DEF HInv
  <2> QED
    BY <2>2, <2>3, <2>4 DEF HInv
<1>3. CASE Tick
  BY <1>3, HInvTick
<1>4. CASE UNCHANGED vars
  <2> USE <1>4 DEF vars, transport, settings, deadlines, threads, history
  <2>1. Typed' /\ OneThread' /\ BornOK'
    BY DEF HInv, Typed, OneThread, BornOK, Live
  <2>2. AgreedOK' /\ NextOK' /\ FirstOK'
    BY DEF HInv, AgreedOK, NextOK, FirstOK, Live
  <2>3. SessionOK'
    BY DEF HInv, SessionOK, Heard
  <2>4. \A h \in HbThreads : Mine(h)' => Mine(h)
    BY DEF Mine
  <2>5. LoopOK'
    BY <2>4, LoopStays DEF HInv, LoopOK
  <2> QED
    BY <2>1, <2>2, <2>3, <2>5 DEF HInv
<1> QED
  BY <1>1, <1>2, <1>3, <1>4 DEF Next, Finished

\* It always holds.
LEMMA HInvAlways == Spec => []HInv
<1>1. HInv /\ [Next]_vars => HInv'
  BY HInvStep
<1> QED
  BY <1>1, HInvInit, PTL DEF Spec

-----------------------------------------------------------------------------
(* Theorems *)

\* However fast the application reconnects, there is never more than one loop: OneLoop.
THEOREM LoopsAlone == Spec => []OneLoop
<1>1. HInv => OneLoop
  <2> SUFFICES ASSUME HInv PROVE OneLoop
    OBVIOUS
  <2>1. Looping \subseteq {spawned}
    BY DEF HInv, OneThread, Looping, Live, LoopLabels
  <2>2. IsFiniteSet({spawned}) /\ Cardinality({spawned}) = 1
    BY FS_Singleton
  <2>3. Cardinality(Looping) <= Cardinality({spawned})
    BY <2>1, <2>2, FS_Subset
  <2> QED
    BY <2>2, <2>3 DEF OneLoop
<1> QED
  BY <1>1, HInvAlways, PTL

\* The client and the server agree on the heartbeats, on every connection: BothAgree.
THEOREM HeartbeatsAgreed == Spec => []BothAgree
<1>1. HInv => BothAgree
  <2> SUFFICES ASSUME HInv, SessionUp, offer # None
               PROVE  heartbeats = <<ServerAgreed[2], ServerAgreed[1]>>
    BY DEF BothAgree
  <2>1. heartbeats = CalculateHeartbeats(offer, offered)
    BY DEF HInv, AgreedOK, SessionUp
  <2>2. offer \in Nat \X Nat /\ offered \in Nat \X Nat
    BY DEF HInv, Typed
  <2> QED
    BY <2>1, <2>2, Agreement DEF ServerAgreed
<1> QED
  BY <1>1, HInvAlways, PTL

\* The loop of a session declares a timeout only when nothing came for the time that was
\* agreed on: TimeoutHonest.
THEOREM TimeoutsAreHonest == Spec => TimeoutHonest
<1> DEFINE Honest == \A h \in HbThreads :
                       pc[h] = "silence?" /\ pc'[h] = "timeout" /\ born[h] = connection
                         => clock - lastHeard > receive_sleep
<1>1. HInv /\ [Next]_vars => [Honest]_vars
  <2> SUFFICES ASSUME HInv, Next, NEW h \in HbThreads, pc[h] = "silence?", pc'[h] = "timeout",
                      born[h] = connection
               PROVE  clock - lastHeard > receive_sleep
    BY DEF vars, threads
  <2>1. CheckSilence(h)
    <3>1. pc'[h] # pc[h] /\ pc'[h] # "begin" /\ pc'[h] # "end" /\ pc \in [HbThreads -> ThreadLabels]
      BY DEF HInv, Typed
    <3>2. ~Callbacks
      BY <3>1 DEF Callbacks, Open, Connected, OnConnected, OnConnectedPlain, SetRunning,
         StartThread, AssignThread, Hear, AppSend, Lose, OnDisconnected, threads
    <3>3. ~Tick /\ ~Finished
      BY <3>1 DEF Tick, Finished, vars, threads
    <3>4. Beating(h)
      BY <3>1, <3>2, <3>3, BeatingMoves DEF HInv, Next
    <3> QED
      BY <3>4 DEF Beating, Begin, Loop, LoopEnds, Terminated, Wake, Check, Sleep, SendHeartbeat,
         Timeout, DisconnectSocket, End, Clear
  <2>2. receive_sleep # 0 /\ now[h] - received_heartbeat > receive_sleep
    BY <2>1 DEF CheckSilence, HInv, Typed, Goto
  <2>3. received_heartbeat = Heard /\ now[h] <= clock
    BY DEF HInv, SessionOK
  <2> QED
    BY <2>2, <2>3 DEF HInv, Typed, Heard
<1> QED
  BY <1>1, HInvAlways, PTL DEF Spec, TimeoutHonest

\* The first session that agrees on heartbeats has a loop that beats: FirstBeats.
THEOREM FirstSessionBeats == Spec => []FirstBeats
<1>1. HInv => FirstBeats
  <2> SUFFICES ASSUME HInv, connection = 1, SessionUp, offer # None, heartbeats # Off
               PROVE  running /\ \E h \in HbThreads : pc[h] \in LoopLabels \cup TimeoutLabels
    BY DEF FirstBeats, HeartbeatsRun
  <2>1. running /\ pc[1] \in (LoopLabels \cup {"timeout"}) \ {"sleep"}
    BY DEF HInv, FirstOK, SessionUp
  <2>2. 1 \in HbThreads
    BY HeartbeatAssumption DEF HbThreads
  <2> QED
    BY <2>1, <2>2 DEF TimeoutLabels
<1> QED
  BY <1>1, HInvAlways, PTL

\* A session that a loop was started for never sends nothing for longer than was agreed on, and
\* no loop compares the time with a due time that is None: SentInTime.
THEOREM HeartbeatsGoOut == Spec => []SentInTime
<1>1. HInv => SentInTime
  <2> SUFFICES ASSUME HInv, NEW h \in Looping
               PROVE  /\ SessionUp /\ born[h] = connection /\ send_sleep # 0 =>
                           clock - lastSent <= send_sleep + 2
                      /\ pc[h] = "send?" /\ send_sleep # 0 => next_outbound_heartbeat # None
    BY DEF SentInTime
  <2>1. /\ h \in HbThreads /\ pc[h] \in LoopLabels /\ pc[h] # "unborn"
        /\ clock \in Nat /\ lastSent \in Nat /\ send_sleep \in Nat /\ now[h] \in Nat
        /\ wakeAt[h] \in Nat
    BY DEF Looping, LoopLabels, HInv, Typed
  <2>2. pc[h] = "send?" /\ send_sleep # 0 => next_outbound_heartbeat # None
    BY <2>1 DEF HInv, NextOK, Live
  <2>3. ASSUME SessionUp, born[h] = connection, send_sleep # 0
        PROVE  clock - lastSent <= send_sleep + 2
    <3>1. Timely(h) /\ SendingOK(h)
      BY <2>1, <2>3 DEF HInv, LoopOK, Mine, SessionUp, Timely
    <3>2. CASE pc[h] = "begin"
      BY <2>1, <3>1, <3>2 DEF Timely
    <3>3. CASE pc[h] = "wait"
      BY <2>1, <3>1, <3>3 DEF Timely, SendingOK, Slept, SendBy
    <3>4. CASE pc[h] \in {"loop", "check", "send?", "silence?"}
      BY <2>1, <3>1, <3>4 DEF SendingOK, SendBy
    <3> QED
      BY <2>1, <3>1, <3>2, <3>3, <3>4 DEF LoopLabels, Timely
  <2> QED
    BY <2>2, <2>3
<1> QED
  BY <1>1, HInvAlways, PTL

\* A server that is silent is noticed in the time that was agreed on: SilenceNoticed.
THEOREM SilenceIsNoticed == Spec => []SilenceNoticed
<1>1. HInv => SilenceNoticed
  <2> SUFFICES ASSUME HInv, NEW h \in Looping, SessionUp, born[h] = connection,
                      receive_sleep # 0, ~LeftOver
               PROVE  clock <= Max({lastHeard, since + receive_sleep})
                                 + receive_sleep + send_sleep + 2
    BY DEF SilenceNoticed
  <2>1. /\ h \in HbThreads /\ pc[h] \in LoopLabels /\ pc[h] # "unborn"
        /\ clock \in Nat /\ lastHeard \in Nat /\ since \in Nat /\ send_sleep \in Nat
        /\ receive_sleep \in Nat /\ now[h] \in Nat /\ wakeAt[h] \in Nat
    BY DEF Looping, LoopLabels, HInv, Typed
  <2>2. received_heartbeat = Heard
    BY <2>1 DEF HInv, SessionOK
  <2>3. Max({lastHeard, since + receive_sleep}) = Heard
    BY <2>1, MaxOfTwo DEF Heard
  <2>4. Heard \in Nat /\ Heard >= since
    BY <2>1 DEF Heard
  <2>5. Timely(h) /\ HearingOK(h)
    BY <2>1 DEF HInv, LoopOK, Mine, SessionUp, Timely
  <2>6. clock <= Heard + receive_sleep + send_sleep + 2
    <3>1. CASE pc[h] = "begin"
      BY <2>1, <2>4, <2>5, <3>1 DEF Timely
    <3>2. CASE pc[h] = "wait"
      BY <2>1, <2>2, <2>4, <2>5, <3>2 DEF Timely, HearingOK, Slept, NoticeBy
    <3>3. CASE pc[h] \in {"loop", "check", "send?", "silence?"}
      BY <2>1, <2>2, <2>4, <2>5, <3>3 DEF HearingOK, NoticeBy
    <3> QED
      BY <2>1, <2>5, <3>1, <3>2, <3>3 DEF LoopLabels, Timely
  <2> QED
    BY <2>3, <2>6
<1> QED
  BY <1>1, HInvAlways, PTL
=============================================================================
