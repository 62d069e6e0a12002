-------------------------- MODULE ConnectionAttempts --------------------------
(***************************************************************************)
(* attempt_connection(): the list of hosts a transport is made with, the   *)
(* rounds of attempts over it and the pauses between them.  Transport and  *)
(* WSTransport (stomp/adapter/ws.py) have the same text but for the call   *)
(* that opens the socket; adapter says which of them runs.                 *)
(*                                                                         *)
(* One thread connects.  A thread of an earlier connection may still be in *)
(* disconnect_socket(), which ends the attempts and takes the socket away. *)
(* Which host answers is up to the network.                                *)
(***************************************************************************)
EXTENDS Integers, Sequences, SequencesExt

CONSTANTS
  Remote,     \* names of other hosts than the local one
  Given,      \* lists of <<host, port>> an application may ask for
  Limits,     \* values of reconnect_attempts_max
  Initial, Factor, SleepMax,  \* reconnect_sleep_initial, 1 + .._increase, .._max
  Jitter,     \* reconnect_sleep_jitter, in tenths
  MaxRounds,  \* bound: the rounds the history tells apart
  None        \* Python's None

\* math.pow(1 + reconnect_sleep_increase, n)
Power[n \in Nat] == IF n = 0 THEN 1 ELSE Factor * Power[n - 1]

LOCALHOST_NAMES == {"localhost", "127.0.0.1", "own name"}
Address == (LOCALHOST_NAMES \cup Remote) \X Nat

ASSUME GivenAssumption ==
  /\ Given \subseteq Seq(Address) /\ None \notin Address
  /\ Limits \subseteq Nat \cup {-1}
ASSUME SleepAssumption ==
  /\ Initial \in Nat \ {0} /\ Factor \in Nat \ {0} /\ SleepMax \in Nat /\ Jitter \in 0..10
\* the rounds told apart last until the pauses grow no more
ASSUME RoundsAssumption ==
  /\ MaxRounds \in Nat \ {0}
  /\ Factor = 1 \/ Initial * Power[MaxRounds - 1] >= SleepMax

VARIABLES
  adapter, given, prefer, loopback, limit,  \* the arguments of __init__: never change
  missing,  \* the host whose TLS certificate file does not exist, or None
  running,  \* BaseTransport.running
  socket,   \* Transport.socket: the host it is connected to, or None
  current,  \* current_host_and_port
  connect_count, sleep_exp,  \* local variables of attempt_connection
  at, index,  \* where the thread is, and at which host of the list
  late,     \* where the thread of the earlier connection is
  pause,    \* history: the length of the last pause
  rounds, tried  \* history: pauses so far, hosts tried so far

arguments == <<adapter, given, prefer, loopback, limit, missing>>
history   == <<pause, rounds, tried>>
vars == <<arguments, running, socket, current, connect_count, sleep_exp, at, index, late, history>>

Smaller(a, b) == IF a < b THEN a ELSE b

-----------------------------------------------------------------------------
(* The list of hosts *)

IsLocalhost(h) == h[1] \in LOCALHOST_NAMES

\* those of the hosts that are in a set, in their order
Only(hosts, S) ==
  LET of[n \in 0..Len(hosts)] ==
        IF n = 0 THEN <<>>
        ELSE IF hosts[n] \in S THEN Append(of[n - 1], hosts[n]) ELSE of[n - 1]
  IN of[Len(hosts)]

Local(hosts) == {h \in ToSet(hosts) : IsLocalhost(h)}

\* Mutant of LocalFirst: the sort key the wrong way round
LocalLast(hosts) == Only(hosts, ToSet(hosts) \ Local(hosts)) \o Only(hosts, Local(hosts))

\* sort(key=is_localhost) is stable
LocalFirst(hosts) == Only(hosts, Local(hosts)) \o Only(hosts, ToSet(hosts) \ Local(hosts))

\* the local hosts again, by their loopback address, unless the list has it
Loopbacks(hosts) ==
  LET local == Only(hosts, {h \in Local(hosts) : /\ <<"127.0.0.1", h[2]>> \notin ToSet(hosts)
                                                 /\ <<"localhost", h[2]>> \notin ToSet(hosts)})
  IN [i \in DOMAIN local |-> <<"127.0.0.1", local[i][2]>>]

\* __host_and_ports
Hosts ==
  LET sorted == IF prefer THEN LocalFirst(given) ELSE given
  IN IF loopback THEN Loopbacks(sorted) \o sorted ELSE sorted

Init ==
  /\ adapter \in {"tcp", "websocket"} /\ given \in Given
  /\ prefer \in BOOLEAN /\ loopback \in BOOLEAN /\ limit \in Limits
  /\ missing \in ToSet(given) \cup {None}
  /\ running = TRUE /\ socket = None /\ current = None
  /\ connect_count = 0 /\ sleep_exp = 1
  /\ at = "round" /\ index = 0 /\ late = "before"
  /\ pause = 0 /\ rounds = 0 /\ tried = {}

-----------------------------------------------------------------------------
\* Mutant of MayTry: one attempt too many
MayTryOneMore == connect_count <= limit \/ limit = -1

MayTry == connect_count < limit \/ limit = -1

\* the test of the loop, once per round
Round ==
  /\ at = "round"
  /\ IF running /\ socket = None /\ MayTry THEN at' = "host" /\ index' = 1
     ELSE at' = "end" /\ UNCHANGED index
  /\ UNCHANGED <<arguments, running, socket, current, connect_count, sleep_exp, late, history>>

\* Mutant of Refused: a refusal is not counted
RefusedUncounted ==
  /\ socket' = None /\ UNCHANGED connect_count
  /\ at' = "host" /\ index' = index + 1

\* OSError, AssertionError, WebSocketException: the next host (the count is not
\* kept when nothing limits it)
Refused ==
  /\ socket' = None
  /\ connect_count' = IF limit = -1 THEN connect_count ELSE connect_count + 1
  /\ at' = "host" /\ index' = index + 1

AtHost == at = "host" /\ index <= Len(Hosts)

\* socket.create_connection(): the socket is everybody's before it is set up
TcpOpen ==
  /\ AtHost /\ adapter = "tcp"
  /\ tried' = tried \cup {Hosts[index]}
  /\ \/ Refused
     \/ socket' = Hosts[index] /\ at' = "setup" /\ UNCHANGED <<connect_count, index>>
  /\ UNCHANGED <<arguments, running, current, sleep_exp, late, pause, rounds>>

\* keepalive, TLS, timeout: on a socket that another thread has set to None the
\* calls raise; a certificate that is not there ends the round uncounted
TcpSetup ==
  /\ at = "setup"
  /\ \/ socket = None /\ at' = "raised" /\ UNCHANGED <<socket, current, connect_count, index>>
     \/ socket # None /\ socket # missing /\ Refused /\ UNCHANGED current
     \/ /\ socket # None /\ socket # missing
        /\ current' = Hosts[index] /\ at' = "pause"
        /\ UNCHANGED <<socket, connect_count, index>>
     \/ /\ socket # None /\ socket = missing
        /\ socket' = None /\ at' = "pause"
        /\ UNCHANGED <<current, connect_count, index>>
  /\ UNCHANGED <<arguments, running, sleep_exp, late, history>>

\* websocket.create_connection(): a file that is missing is one more OSError
WsOpen ==
  /\ AtHost /\ adapter = "websocket"
  /\ tried' = tried \cup {Hosts[index]}
  /\ current' = Hosts[index]
  /\ \/ Refused
     \/ /\ Hosts[index] # missing
        /\ socket' = Hosts[index] /\ at' = "pause" /\ UNCHANGED <<connect_count, index>>
  /\ UNCHANGED <<arguments, running, sleep_exp, late, pause, rounds>>

NoMoreHosts ==
  /\ at = "host" /\ index > Len(Hosts)
  /\ at' = "pause"
  /\ UNCHANGED <<arguments, running, socket, current, connect_count, sleep_exp, index, late, history>>

\* Mutant of Duration: the first pause is longer already
DurationAhead(jitter) == (Smaller(SleepMax, Initial * Power[sleep_exp]) * (10 + jitter)) \div 10

Duration(jitter) ==
  (Smaller(SleepMax, (Initial * Power[sleep_exp]) \div Factor) * (10 + jitter)) \div 10

Pause ==
  /\ at = "pause" /\ socket = None
  /\ \E jitter \in 0..Jitter : pause' = Duration(jitter)
  /\ sleep_exp' = IF pause' < SleepMax THEN sleep_exp + 1 ELSE sleep_exp
  /\ rounds' = Smaller(rounds + 1, MaxRounds)
  /\ at' = "asleep"
  /\ UNCHANGED <<arguments, running, socket, current, connect_count, index, late, tried>>

\* the pause is over, or running has become False, or there is none
Again ==
  /\ at = "asleep" \/ (at = "pause" /\ socket # None)
  /\ at' = "round"
  /\ UNCHANGED <<arguments, running, socket, current, connect_count, sleep_exp, index, late, history>>

\* raises ConnectFailedException without a socket
End ==
  /\ at = "end"
  /\ at' = IF socket # None THEN "connected" ELSE "failed"
  /\ UNCHANGED <<arguments, running, socket, current, connect_count, sleep_exp, index, late, history>>

Step == Round \/ TcpOpen \/ TcpSetup \/ WsOpen \/ NoMoreHosts \/ Pause \/ Again \/ End

\* disconnect_socket() of a thread of the earlier connection
Disconnect ==
  /\ late = "before" /\ late' = "closing"
  /\ running' = FALSE
  /\ UNCHANGED <<arguments, socket, current, connect_count, sleep_exp, at, index, history>>
DropSocket ==
  /\ late = "closing" /\ late' = "over"
  /\ socket' = None /\ current' = None
  /\ UNCHANGED <<arguments, running, connect_count, sleep_exp, at, index, history>>

Over == at \in {"connected", "failed", "raised"}
Next == Step \/ Disconnect \/ DropSocket \/ (Over /\ UNCHANGED vars)

\* The thread keeps running, its pauses end, and the network answers or refuses.
Spec == Init /\ [][Next]_vars /\ WF_vars(Step)

-----------------------------------------------------------------------------
(* Properties *)

\* With prefer_localhost a remote host is used only when every local one has
\* been tried in the same round, also by its loopback address if that was asked
\* for; on_connecting is told the host that the socket is connected to.
ConnectedAsPreferred ==
  at = "connected" /\ late = "before" =>
    /\ current = socket
    /\ prefer /\ ~IsLocalhost(socket) =>
         \A h \in ToSet(given) : IsLocalhost(h) =>
           \E i \in 1..(index - 1) :
             /\ Hosts[i][2] = h[2]
             /\ IF loopback THEN Hosts[i][1] \in {"127.0.0.1", "localhost"} ELSE Hosts[i] = h

\* the places of the hosts that a round comes to: over TCP a certificate that is
\* not there ends the round (FileNotFoundError, transport.py:789-792)
Reached == {i \in DOMAIN Hosts : adapter = "tcp" => \A j \in 1..(i - 1) : Hosts[j] # missing}

\* The attempts are counted host by host and the limit is tested round by round:
\* it is passed by less than a round, and nobody gives up before every host has
\* been tried; except that over TCP those behind the first host whose certificate
\* file is missing are never tried.
WholeRounds ==
  /\ limit > 0 => connect_count < limit + Len(Hosts)
  /\ limit > 0 /\ at = "failed" /\ running => \A i \in Reached : Hosts[i] \in tried

\* The n-th pause is Initial * Factor^(n-1), at most SleepMax, up to the jitter:
\* also when a long pause with jitter keeps the exponent where it is.
PausesAsDocumented ==
  at = "asleep" =>
    LET planned == Smaller(SleepMax, Initial * Power[rounds - 1])
    IN /\ pause * 10 <= planned * (10 + Jitter)
       /\ planned * 10 <= pause * (10 + Jitter)

\* Attempts end when they are limited, unless no round ever counts one: there is
\* no host, or the certificate of the first is missing.  They always end when
\* another thread ends the transport.
Endless == limit = -1 \/ Hosts = <<>> \/ (adapter = "tcp" /\ Hosts[1] = missing)
Ends == ~running \/ ~Endless ~> Over
=============================================================================
