# Verification of stomp.py

TLA+ specifications of stomp.py (the Python client for the STOMP messaging protocol under `src/stomp/`),
model-checked with TLC on small instances and, for the core, proved with TLAPS for every instance. Line
numbers below are those of `src/stomp/`.

## The system

stomp.py is a library: an application creates a `StompConnection1x`, calls `connect()`, sends frames from any
of its threads and is called back by *listeners*. Its parts:

| Part | State it keeps | Operations | Talks to |
|---|---|---|---|
| Transport (`transport.py`) | `running`, `connected`, `connection_error`, `socket`, the pending receipts, `notified_on_disconnect`, `__receiver_thread_exited`, two condition variables, the listeners | `start`, `stop`, `attempt_connection`, `wait_for_connection`, `transmit`, `send`, `receive`, `disconnect_socket`, `cleanup`, `notify`, the receiver loop | the socket; every listener, on whichever thread calls `notify` |
| Frame reader (`BaseTransport.__read`, `utils.parse_frame`) | `__recvbuf`, and a local buffer | cuts the byte stream into frames and heartbeats | called by the receiver loop |
| Connection classes (`connect.py`) | none of their own | `connect`, `disconnect`, the context manager | protocol, transport |
| Protocol classes (`protocol.py`) | none of their own | build one frame per call, escape headers, `disconnect` with a receipt | `transport.transmit` |
| Heartbeat listener (`listener.py`) | `running`, `heartbeats`, two deadlines, the thread, an event | `on_connected` negotiates and starts a thread; the thread sends heartbeats and ends a silent connection | called by `notify`; calls `set_connected`, `disconnect_socket`, `stop`, `transmit` |
| Waiting listener, `__exit__` (`listener.py`, `connect.py`) | two flags, two conditions | waits for a receipt and for the disconnection | called by `notify` |
| Header codec (`utils.py`, `protocol.py`) | none | escapes, `convert_frame`, `parse_frame`, `parse_headers` | |
| Multicast adapter (`adapter/multicast.py`) | subscriptions, open transactions | a broker-less protocol and transport over UDP multicast | Transport |
| WebSocket adapter (`adapter/ws.py`) | as Transport | a Transport whose `receive`/`send` go through a websocket | |
| Attempts (`attempt_connection` of both) | the list of hosts, a counter, a back-off | rounds of attempts with pauses between them | the network |
| Registry of listeners (`transport.py`) | a dict of listeners by name | `set_listener`, `remove_listener`; `notify` calls a copy of it | every listener |
| Statistics and test listeners (`listener.py`) | counters, two flags, two conditions | count; `wait_for_message`, `wait_for_heartbeat` | called by `notify` |
| Command line (`__main__.py`) | subscriptions, the open transaction | interactive commands, files of commands | connection |

Three kinds of threads run on one transport object: the application's, one receiver per call of `start()`, and
the heartbeat thread. They share the attributes above, most of them without a lock; `disconnect_socket()` and
`notify("disconnected")` run on the receiver *and* on the heartbeat thread, and a listener's `on_disconnected`
may call `connect()` from either.

What is hard here, and what each part must get right:

- **Waiting.** `stop()` waits for the receiver to end, `wait_for_connection()` for the session. No wake-up may
  be missed, and nobody may wait for ever.
- **Ending a connection.** Server, network, receipt of DISCONNECT, and heartbeat timeout may all end it, at
  the same time. The socket must be closed, and the listeners told: at least once, and not again without
  reason.
- **Connecting again**, which the documentation recommends from `on_disconnected`, while threads of the
  previous connection still run.
- **Failure in the middle**: a callback, `shutdown()` or a send that raises.
- **Reading.** A frame may be cut anywhere by the network and may contain NULs and empty lines; what is
  delivered must be what was sent.
- **Writing.** What a peer reads must be what the application meant, whatever the characters of its headers,
  the version, and the dictionary it used before.
- **Leaving.** A `with` statement ends when its session is over, and does end.
- **Dialling.** Every host must be tried, the preferred ones first, with the documented pauses, and the
  attempts must end when they are limited or the transport is.
- **Telling.** Listeners come and go while they are called, from several threads.
- **Transactions at the prompt** must name all that is done in them.
- **Without a broker** a member must answer for what it delivered, and send all of a transaction or nothing.
- **Heartbeats.** Both ends must agree on the intervals; heartbeats must go out in time; a silent server must
  be noticed and one that speaks must not be dropped.

`PROJECT.json` lists these hazards one by one, each at its line, with the properties that watch it or the
reason why none does.

## The modules

**`Transport`** is the core. A method is a sequence of steps of "the thread *t*": `pc[t]` is the step *t*
takes next and `ret[t]` the step that follows the method it is in, so `disconnect_socket()` is written once
and runs on the heartbeat thread or on a receiver. A step reads or writes the shared attributes once, or holds
one lock: threads may be switched between any two. Condition variables are sets of waiting threads; `notify()`
takes one of them out, `notify_all()` all. A socket is the number of the connection it was made for.

| Code | Actions |
|---|---|
| `connect()`: `start`, `attempt_connection`, CONNECT, `wait_for_connection` | `Connect`, `Start`, `Attempt`, `Dial`, `Verify`, `Spawn`, `SendConnect`, `WaitForConnection`, `WakeFromConnectWait`, `WaitTest` |
| `disconnect(receipt)`, `stop()` | `Disconnect`, `DiscCheck`, `DiscReceipt`, `DiscTransmit`, `DiscSend`, `Stop`, `WakeFromStopWait` |
| `disconnect_socket()` | `DsRunning` ... `DsCheckNotified` |
| `notify("disconnected")` | `NdFlag`, `NdConnected`, `NdListeners`, `NdHeartbeat` |
| the receiver loop, with `receive`, `process_frame`, `notify`, `cleanup` | `ROuter` ... `RReset`, `CleanupClose`, `CleanupNull` |
| the timeout branch of the heartbeat loop | `HbTimeout`, `HbSetConnected` |
| the server and the network (external) | `Answer`, `Lose` |

An application's calls (`Connect`, `Disconnect`) and its callbacks are free. `Reuse` says how it connects
again: not at all; from `on_disconnected`, as `docs/source/api.rst:137-176` shows; or from a thread of its own
once everything of the last connection has come to rest.

`adapter` says which transport it is. The two differ in two places: over TCP a closed socket is not connected
and `shutdown()` wakes the receiver from `recv()`; a websocket keeps the status of its handshake, and its
`shutdown()` closes it under the receiver.

Of the callbacks the application's `on_connected`, `on_disconnected` and `on_receiver_loop_completed` may
raise (`MaxRaises`). A receiver that leaves its `finally` block by the last of these (`RCompletedRaises`) is
at `r_dead`.

Abstractions: `is_connected()` is one read although it tests two attributes (and raises an AttributeError when
the socket becomes `None` between the test and `getsockname()`, `transport.py:570`); that `__read` leaves what
it has gathered in `__recvbuf` when `running` has become `False` (406) is in `FrameReader`; the rounds of
attempts are the one step `Dial`, which connects or gives up (`ConnectionAttempts` has them);
`connection_error = False` and the first test of the loop of attempts are one step; SSL, MESSAGE frames and
listeners that change no state of the transport are left out. `MaxStarts` bounds the sockets and the receivers
as well, and these two bounds never refuse a step.

**`ConnectionContract`** is what an application is promised: a connection opens, its session comes up at most
once, goes down, and `on_disconnected` is called when it is not up, after which it never comes up again; and a
session that went down is told. `Transport` refines it (`Promised`): the stage of a connection is read off
`connected`, the number of CONNECTED frames processed and the calls of `on_disconnected`.

**`FrameReader`** is the receiver's path from bytes to frames: `__read`, the loop that cuts `__recvbuf`,
`parse_frame` and the dispatch on the command. The stream consists of tokens: newlines, carriage returns, NULs
and body bytes one by one, a command and a content-length header as one token each, since the code never looks
at a part of them in a way that matters here. What a server sends is a sequence of *items*, frames or EOLs by
themselves; a body may hold anything, and says its length if it holds a NUL (`Carried`). The lines of a frame
end in LF or in CR LF; with `CrlfEols` the EOLs outside the frames do so too. `Receive(n)` delivers any number
of tokens, so every cut of every stream is explored. `StopRunning` is `disconnect_socket()` of another thread,
at any time; `Reconnect` reuses the transport, whose `__recvbuf` survives. `ProcessRaises` is a listener that
raises, or a frame that cannot be decoded: the receiver ends, and what it had cut and not handled is gone.
(One that raises on a heartbeat ends it with nothing in either buffer, as `StopRunning` does.)

**`HeartbeatListener`** is the heartbeat listener in time: its callbacks and its thread, step by step, against
a discrete clock. A tick is longer than a round of the loop; a thread that sleeps wakes in the tick after the
one it asked for, so that the strict comparisons of the code (`now > next_outbound_heartbeat`) are those of a
clock that moves while the code runs. The clock counts half units so that the factor 1.5 is exact. The
transport is reduced to what the listener sees, freely: connections are lost and made at any time, and the
`on_disconnected` call of one may come after the next one is up, as the runs of `Transport` show it can.

**`ContextManager`** composes `Transport` with `WaitingListener` and `__exit__`. Every step of `Transport` is
a step of `Observed(Next)`, in which the listener's callbacks happen as the transport makes them; the thread
`Manager` calls `disconnect()` only from `Exit`, and then goes through `Disconnected`, `WaitOnReceipt` and
`WaitOnDisconnected`. The waits test their flag under the lock that the callbacks take, so a wait is an action
that has to be enabled and no wake-up can be missed; what can go wrong is that the flag is never set. On
`disconnected` the listener is called with the one of the heartbeats, whose name sorts after it.

**`FrameCodec`** follows a frame from a call to the peer that reads it: the method builds it from its
arguments and the application's dictionary (`merge_headers`), `_escape_headers` of the connection's version,
`convert_frame`, and at the other end `parse_frame`, `parse_headers` and the unescaping. Here texts are
sequences of characters, since the escapes are what the properties are about; names, commands and numbers are
one character. A header's value is none, one or several texts: `None`, a string, a tuple. `shared` tells
whether the frame's dictionary is the application's own. Not all texts can be carried, and `ReadAsMeant` says
which ones it is about (`Carries`): in 1.2 every text; in 1.1 those that do not end in a CR; in 1.0, in a
multicast group and in tuples, where nothing is escaped but everything is unescaped, plain texts only.

**`Multicast`** is the adapter without a broker: members, their threads and receivers, and a network that
loses and reorders datagrams. `transactions` maps a name to a *list object* (`lists`), as Python does:
`commit()` walks the list step by step while others may change it or delete its entry. A commit that cannot
send ends with its transaction still there, because the socket is gone, or because `transmit()` raised with
the socket open (`MaxFails`): then another `commit()` may follow. `Uses` says which transactions a thread
sends in.

**`ConnectionAttempts`** is `attempt_connection()`: the list of hosts that `__init__` makes of the
application's (`Hosts`), a round over it (`Round`, `TcpOpen`, `TcpSetup`, `WsOpen`, `Refused`, `NoMoreHosts`),
and the pause (`Pause`, `Again`). The two adapters differ in when `current_host_and_port` is set and in what a
missing certificate does. Time is left out but for the length of the pauses, which are whole numbers; the
jitter is a number of tenths. A thread of an earlier connection may still be in `disconnect_socket()`
(`Disconnect`, `DropSocket`).

**`Listeners`** is the registry in use. The dict is a sequence of entries in the order of their insertion,
with `None` where one was deleted, as CPython keeps it: that is what the heartbeat thread walks
(`OnHeartbeatTimeout`), with the length it began with, so that a change of size raises (`LoopRaises`), as does
a listener whose callback raises or is missing (`CallbackRaises`): the thread is dead. The receiver walks a
sorted copy per notification (`Notify`, `Call`); a callback that raises ends the frame (`CallRaises`). The one
listener with a behaviour is the `TestListener`, whose conditions are sets of waiting threads as in
`Transport`; message and heartbeat have the same text and differ in `k`.

**`CommandLine`** is the client of `__main__.py`: one action per command that sends a frame or changes its
tables, `Run` and `RunEnds` for files of commands, and the ways the program ends (`Quit`, `FileEnds`, and an
exception: `SendRaises`, `NackRaises`, `StatsRaises`). The broker applies what it is sent in order; a message,
an ACK and a NACK are alike to it, an *operation*. The connection may be lost at any time with a suffix of
what is on its way, and the client notices later.

The `MC*` modules give the constants values for TLC. Definitions whose comment says *mutant of X* are wrong
variants of X that a property must detect; nothing else uses them.

## Runs

| Run | Instance | What it shows |
|---|---|---|
| `session` | 2 application threads that connect (first come) and disconnect, 1 connection, 1 heartbeat timeout, 1 raising callback | types; nobody forgotten in `stop()` (`StopNotForgotten`) or in `wait_for_connection()` (`ConnectNotForgotten`); socket released; `on_disconnected` at least once (`LossIsTold`, unless `on_receiver_loop_completed` raises) and at most once per thread that ends the connection |
| `context` | 1 thread in a `with` statement, 1 heartbeat timeout, fair | when `__exit__` has returned all is over and told; `disconnect()` returns, a wait for the connection ends, a drop is told, the receiver ends, the receipt of its own DISCONNECT ends `__exit__`, the contract with its liveness |
| `reconnect` | 3 connections, each made by the `on_disconnected` of the previous, no heartbeats, both adapters | no two receivers on one socket, the contract's safety for each connection |
| `reader` | streams of up to 2 items, their lines ending in LF or CR LF, with NULs and empty lines in their bodies, all cuts, 2 connections, a callback that raises at any frame | frames are delivered whole, in order, once and as soon as they are complete; heartbeats are not invented |
| `heartbeat` | client (2,1), servers (-), (1,0), (1,1); 2 connections; 9 ticks | one loop, agreement, punctual sends, silence noticed in time, no false timeout, a thread on the first session |
| `codec` | all 4 classes, both settings of `auto_content_length`, all methods, header values of up to 2 characters of 5, two calls with one dictionary | the peer reads what was meant |
| `multicast` | 2 members, one with 2 threads, 1 transaction, 2 messages, 1 raising listener, 1 frame of a commit that fails | receipts only for what was delivered; nothing of a transaction before its commit; no message twice, but for those that a failed commit had sent; a commit that returns has sent all, in order |
| `attempts` | lists of up to 2 of 4 local and remote hosts, limits -1, 0, 1 and 3, both adapters, a missing certificate, a late `disconnect_socket()` | local hosts first, also by their loopback address; nobody gives up before every host up to the first with a missing certificate has been tried; the documented pauses; an end |
| `listeners` | 2 names, 2 listeners, 2 changes of the registry, 2 frames, 1 timeout, 2 waiting threads | everybody hears once and in order; no frame since the last wait slept through, none taken twice; a timeout told once unless the registry changed or a callback raised at that moment |
| `cli` | 2 destinations, 2 subscriptions, 2 transactions, 2 operations, 1 nested file, protocols 1.0 and 1.2, loss at any time | the client's tables are the broker's; transactions whole or not at all; what is committed arrives |
| `documented_reconnect` | heartbeats and reconnection from the callback | **violated**: two receivers read one socket |
| `exit_hangs` | 1 thread, fair | **violated**: `__exit__` waits for the receipt of a DISCONNECT that nobody will answer |

The violated properties state what a docstring, a comment or the documentation says; `PROJECT.json` quotes it
under `findings`.

**Premises.** Some runs hold only under a premise the code does not enforce: `session`, `context` and
`reconnect` never have heartbeats *and* a second connection; in `context` one thread disconnects (with two,
`DisconnectReturns` and what follows from it fail); `reader` assumes that the receiver takes an EOL before the
next arrives (`SlowReader = FALSE`), that EOLs outside the frames are LF (`CrlfEols = FALSE`), and no new
connection after the client ended one itself or one of its callbacks raised (`ReuseStopped = FALSE`); `codec`
speaks of texts that the version can carry; in `multicast` no two threads use the same transaction and nobody
calls `connect()` twice; `cli` does not use `sendreply` in a transaction (`Replies = FALSE`).
`ReceiptEndsContext` excepts a callback that raises and a heartbeat timeout, `LossIsTold` an
`on_receiver_loop_completed` that raises, `DeliveredOnce` what a `commit()` had sent when it failed, `Ends` a
round that counts nothing, `WholeRounds` the hosts behind the first one whose certificate is missing (over
TCP), `TimeoutTold` a registry that changes during the walk and a callback that raises or is missing,
`HeardOnce` a frame at which a listener raises. `session` and `context` are about TCP. `SentInTime`,
`SilenceNoticed` and `TimeoutHonest` speak of the loop that was started for the session; one left over from an
earlier connection honours none of them. `SilenceNoticed` also excepts a session that sends no heartbeats
after one that did (`LeftOver`).

**Known counterexamples.** What lies beyond those premises was checked too. Two cases have runs of their own:
`documented_reconnect`; `exit_hangs`, a connection that goes before `__exit__`. Most of the others appear when the
constant named is changed; the rest are behaviours of the models, or of the code, that no checked property
forbids.

Connections:

- `Transport`, the instance of `session`: `ToldOnce` fails, although CHANGELOG.md:67 has a "Fix for double
  disconnect notifications causing issues with reconnection" (and 115 another). After a heartbeat timeout
  `disconnect_socket()` tests `notified_on_disconnect` (613) and sets it only inside `notify()` (221); the receiver,
  which the shutdown has woken, tests it in between (360), and both call `on_disconnected`. `ToldOncePerThread`
  bounds how often this happens.
- `Transport`, 2 threads in `Disconnectors`, fair: `StopReturns` and `DisconnectReturns` fail, although `stop()` "Performs
  a clean shutdown by waiting for the receiver thread to exit" (116-117) and "The connection is only dropped when
  the server sends back a response to that receipt" (`docs/source/api.rst:129`). The second DISCONNECT overwrites
  `__disconnect_receipt` (262); the receipt of the first matches nothing (213) and sets it to `None` (215), so the
  second's matches nothing either. Both receipts are there, nobody ends the socket, and who had begun to wait in
  `stop()` stays there for as long as the server keeps the connection.
- `Transport`, `Reuse = "joined"` with a heartbeat timeout: `LossIsTold` fails. The receiver resets
  `notified_on_disconnect` (364) between the heartbeat thread's test (613) and its assignment (221), and the
  end of the next connection is not told. `connected` stays as it was, a third connection is up before it is
  dialled, and `ImplementsSafety` fails too.
- `Transport`, `Reuse = "callback"`, fair: `WaitReturns` fails. The receiver wakes the waiters (363) after
  `on_disconnected` has returned (361), and the one `notify()` of the new session (137) wakes one of two.
- `Transport`, `Reuse = "callback"`, with `disconnect(receipt)`: `OneReader` fails without heartbeats too. The
  receiver calls `on_disconnected` from `disconnect_socket()` (213-214), `start()` sets `running` again, and
  when the callback has returned the loop goes on, on the new socket beside the new receiver.
- `Transport`, any instance: `stop()` may return while the receiver is still in its loop, because it only
  waits while `is_connected()` (120), in spite of its docstring (116-117).
- `Transport`, any instance: an `on_receiver_loop_completed` that raises (359) leaves the `finally` block.
  Nobody is told of the end (360-361), who waits for the connection is not woken (362-363), and
  `notified_on_disconnect` is not reset (364).
- The code, not the model: the socket may become `None` between the test of `is_connected()` and
  `getsockname()` (570). The AttributeError ends whatever called it.
- `ContextManager` with a heartbeat timeout: `ReceiptEndsContext` fails when the heartbeat thread sets the
  socket to `None` while the receiver is in `disconnect_socket()` for the receipt: `shutdown` of `None`
  raises, no listener hears of the receipt, and `__exit__` waits for ever.
- `Transport`, 1 raising callback, fair: `WaitReturns` fails. An `on_disconnected` that raises on the receiver
  skips the `notify_all()` of 362-363.
- `Transport`, `Adapters = {"websocket"}` with a heartbeat timeout, fair: `ReceiverEnds` and `WaitReturns`
  fail. The shutdown does not wake the receiver, which stays in `recv_data()` until the server sends or goes.
- `Listeners`: a registry that grows or shrinks during the walk of `listener.py:309`, a listener whose
  `on_heartbeat_timeout()` raises, and one that has none (AttributeError; `notify()` would have skipped it):
  the heartbeat thread dies (`LoopRaises`, `CallbackRaises`), the listeners after that are not told,
  `heartbeat_thread` stays set, and no later session has heartbeats.
- `Listeners`, two threads in `wait_for_message()` or `wait_for_heartbeat()` and two frames before either
  runs: the flag does not count, the first thread takes both, and the second goes back to sleep with two
  frames counted and one wait returned. `WaitersServed` speaks of the frames since the last wait returned.
- `HeartbeatListener`, `HeartbeatsRun` (which `FirstBeats` restricts to the first connection): a connection
  lost before its CONNECTED sets `heartbeat_terminate_event` (203) with no loop to clear it (312), and the
  loop of the next session ends at its first wait, although "if the heartbeats are not 0, we start up the
  heartbeat loop accordingly" (171-173).
- `HeartbeatListener`, client (8,1), servers (1,0) and then (1,1): without `~LeftOver`, `SilenceNoticed`
  fails. `next_outbound_heartbeat` is never reset; a session that sends no heartbeats after one that did waits
  for the due time left over (263-277), and the silence of its server is noticed that much later.
- `ConnectionAttempts` over TCP: a certificate file that does not exist ends the round
  (`transport.py:789-792`), in every round, so the hosts behind its host are never tried, whatever the limit;
  over WebSocket they are.
- `ConnectionAttempts`: without hosts, or with the certificate of the first host missing, no attempt is
  counted and they never end, whatever the limit. The counter counts hosts, so `reconnect_attempts_max=3` is
  one round over three hosts. Two local names with one port put `127.0.0.1` into the list twice.
  `disconnect()` of another thread does not end the attempts: without a connection it sends nothing and
  touches neither `running` nor the socket.

Frames:

- `FrameReader`, `SlowReader = TRUE`: `NothingHeldBack` fails. Two EOLs that reach the receiver in one chunk
  before a frame stay in the buffer; `PREAMBLE_END_RE` matches them at 0 (`utils.py:195`), the preamble is
  empty and the frame is dropped, although the leading newlines are to be skipped (207).
- `FrameReader`, `ReuseStopped = TRUE`: `DeliveredAsSent` fails. `__recvbuf` is cleared only when the
  connection is lost while `running` is `True` (343-348); after a connection the client ended itself, or one
  whose receiver died of a listener that raised or of a body it could not decode (333-342), half a frame
  becomes the head of the next stream.
- `FrameReader`, `CrlfEols = TRUE`: `CrlfHandled` and `NothingHeldBack` fail, although CHANGELOG.md:62 says "Add support
  for \r\n EOL handling". `is_eol_default` knows one-byte EOLs only, and
  `StompConnection12.is_eol` (`connect.py:214`) is passed to nobody. A CR LF by itself is no heartbeat and is
  not dropped after a frame; two of them are an empty preamble, and the next frame is dropped.
- `FrameCodec` with `Transport`: the receipt id of a DISCONNECT is remembered escaped (`transport.py:262`) and
  compared with an unescaped one (213). One with a colon or a backslash never matches, and the socket stays
  open until the server closes it.
- `FrameCodec` without `Carried`: a CR at the end of a value in 1.1, tuples and names, and values in 1.0 and
  in multicast that look like escapes do not come back as they were meant.
- `Multicast` with a shared transaction: a `commit()` may walk a list whose entry an `abort()` has deleted
  (`TypeOK`), then raises; and what another thread appends during the commit leaves with it (`OnlyCommitted`).
- `Multicast`, a `commit()` whose `transmit()` raises with the socket open: it has sent its first frames and
  the transaction stays. The next `commit()` sends them again (the messages `again` that `DeliveredOnce`
  excepts), an `abort()` does not take them back.

The command line client:

- `Replies = TRUE`: `Atomically` fails. `sendreply` never names the transaction, although "any messages sent
  or acknowledged during a transaction will be handled atomically" (`__main__.py:449-451`).
- `stats off` without a listener (KeyError) and `nack` on a 1.0 connection (AttributeError) end the program
  (`StatsRaises`, `NackRaises`); so does every frame sent after a lost connection.
- `quit` in a file does not leave: what `onecmd()` returns is lost (493). After `--file` the program ends
  without `disconnect()`. `sendrec` does not wait for the receipt it asks for, in spite of its help (321).

**Bounds.** The races of `Transport` are between one application thread, the receiver and the heartbeat
thread; the second application thread adds the overwritten `__disconnect_receipt`, and threads are otherwise
symmetric. One of them connects, so there is one waiter for a connection; two compete only with reuse from the
callback (second counterexample above). One timeout is what a heartbeat thread can do to a connection, because
`running` is then `False`. Two connections are needed for anything that survives a reconnection, three for a
callback inside a callback. Two items and two connections give the reader every boundary there is: inside an
item, between items, between connections; bodies of three bytes suffice to put a NUL before, inside and after
a blank line. Nine ticks are three receive intervals of the session that comes up last in time to have its
grace, its frame and its silence. Two characters make every pair of escapes adjacent, and a backslash before
each letter; two calls show what the first leaves in the dictionary. Two messages are a batch with a middle,
where a commit may fail; one transaction is enough since they share nothing but the socket. The lists of hosts
have every order of a local, a loopback and a remote name; the third round has the longest pause. Two changes
of the registry are a replacement, a removal with a return, or two arrivals, each between any two calls of a
walk over two listeners; two waiting threads and two frames are one overtaking the other. Two subscriptions
and two transactions show the reuse of an id; two operations are a transaction with a middle.

**Fairness** (`FairSpec`): each thread keeps running (weak fairness per thread: the operating system schedules
it, and `notify` has taken it out of the wait set), and a server that is still there answers CONNECT and
DISCONNECT. Calls of the application, heartbeat timeouts and losses have none. `CHECK_DEADLOCK FALSE` is said
where a thread may really be stuck (a receiver that waits inside its own callback, or for a server that never
speaks, `__exit__`, a thread on a TestListener) or where everybody is done (`multicast`). In
`ConnectionAttempts` the one thread keeps running: its pauses end and the network answers or refuses;
`disconnect_socket()` of the other thread need not happen. In `CommandLine` only the broker is fair (it
handles what it has received); nobody has to type anything.

## Proofs

`TransportProofs` proves, for both adapters, any number of threads, connections, timeouts and raising
callbacks and every kind of reuse:

- `TypeCorrect`: `Spec => []TypeOK`. `TypeOK` is not inductive: `RRecv` reads the frames of the socket a
  receiver is on, and `RClear` drops the head of the frames it holds. `IInv` adds where a receiver may return
  to (`ReturnsOK`, `CleanupReturns`), that it reads a socket (`ReadsASocket`) and that it holds a frame
  (`HoldsFrame`) while it handles a receipt, also while it is in a method called from there.
- `StopWaitersSafe`: `Spec => []StopNotForgotten`, by induction with no more than the types: a waiter is added
  only under the lock and with the flag down, and the one step that raises the flag empties the set.
- `ConnectWaitersSafe`: unless `on_disconnected` connects again, nobody waits for a session that is up or
  refused. The difficulty is that `set_connected(True)` wakes *one* waiter. The invariant `CInv` adds to
  `IInv` that at most one thread is inside `connect()` (`OneConnects`), that whoever is in the wait set is at
  its wait (`WaitersWait`), and that only threads in `connect()` are: so one `notify()` is enough. With reuse
  from the callback there are two waiters, and the second counterexample above applies.
- `ReadersAlone`: no two receivers read one socket, of an application that does not connect from its callback,
  or that does and never ends a connection itself (`Quiet`: no `disconnect()`, no heartbeat timeout; otherwise
  `documented_reconnect` applies). `ReadersInv` says who has the *right* to run a receiver, one thread at most
  (`Holds`): the thread in `connect()` until it starts one; that receiver until its loop is over and it has
  told the listeners, or until its own callback has started the next. `Placed` says where a thread may be.
- `ContractKeptAgain`: what `reconnect` checks. If on_disconnected connects again and the application is
  `Quiet`, every step is a step of `ConnectionContract` or a stutter, for any number of connections, users and
  raising callbacks, over both adapters. `ChainInv` adds to `ReadersInv` what the thread with the right knows
  (`KnowsOK`): its connection is the last one, told of by nobody, and without a socket once the loop is over;
  when it dials the next one, the last session is down. Nobody has heard of the connections to come
  (`Unheard`), and no other thread changes any of this.

It also proves what becomes of a connection of an application that connects once (`Reuse = "no"`), with any
number of threads that connect and disconnect, heartbeat timeouts and raising callbacks, over both adapters:
`SocketReleasedOnce`, `ToldOncePerThreadOnce`, `LossIsToldOnce` (unless `on_receiver_loop_completed` raises),
and `ContractKeptOnce`: every step of `Transport` is a step of `ConnectionContract` or a stutter. Its
invariant `SInv` has four parts.

- There is one connection: one socket and one receiver at most (`OneConnection`).
- Application threads are where `connect()` and `disconnect()` may bring them, and only the one that connects
  has anything to do before the session (`AppInv`).
- The server's frames come in the order of a handshake: one CONNECTED, which the receiver handles before a
  receipt (`OneHandshake`).
- The end (`EndInv`). The receiver and the heartbeat thread may be in `disconnect_socket()` and in
  `notify("disconnected")` at once. It says who may be where; that a thread past a test it made leaves behind
  what the other one will find (`Released`: whoever forgets the socket has closed it, and the receiver does at
  the latest); and who has told the listeners and who is going to, `notified_on_disconnect` being set by
  nobody else (`Told`).

With reuse the first three fail: from the callback, since the nested connection is lost while the outer
callback is in progress and the flag still set; from a thread of its own with a heartbeat timeout, as the
first counterexample shows. `ContractKeptAgain` is what is left of them.

`ListenersProofs` proves, for any number of threads, frames, listeners and changes of a registry that a dict
does not compact:

- `WaitersAreServed`: not all who wait on a TestListener sleep when a frame has come since the last wait
  returned, and each wait that returns has a frame of its own. `WaitersServed` is inductive with the types of
  the flags, counters and waiters, with the flag being up exactly when such a frame has come, and with the
  receiver telling only of frames it knows: a frame raises the flag and wakes one waiter, who is either the
  one to take it or is overtaken by one that does; a thread goes to sleep only with the flag down.
- `AllHearOnce`: who is registered all the time hears of every notification of a frame once and in order
  (`HeardOnce`). The receiver's calls so far come before those to come, in the order of the notifications and
  of the names (`InOrder`), and whoever is kept has heard or is among those to come (`Covered`).
- `TimeoutsAreTold`: a heartbeat timeout is told once to whoever stays, and the thread dies of it only if the
  registry changed or a callback raised (`TimeoutTold`). The heartbeat thread has told those up to its index
  in the dict and none beyond (`WalkOK`), and a registry nobody touched has the size it had.

`HInv` is both, with the names of the dict being different (`DictOK`). That `notify()` has a sorted copy to
walk, with every entry in it once, is the lemma `Sortable`.

`ContextProofs` proves `WithMeansOver`: when `__exit__` has returned, the session is over, the listeners have
been told and the socket is released (`ExitMeansOver`), for an application that connects once, any number of
threads that disconnect beside the manager, timeouts and raising callbacks. It rests on the order of the
steps: whoever calls the listeners has taken the socket away before (`OverOK`), `connect()` brings no second
one, and the flag `__exit__` returns on is set by a call of the listeners (`HeardOK`); the rest is `SInv`,
which `ContextRefines` carries over, since the manager only narrows what the threads of `Transport` do.

`MulticastProofs` proves `ReceiptsAreDeliveries` without any premise: a receipt follows a datagram that its
sender has delivered to itself or that a receiver has. When no two threads of a member share a transaction
(`Unshared`, what `Uses` says of the run), it proves that a thread inside `commit()` still has the transaction
and its list (`ListsAreOwned`, which `TypeOK` states), that nothing of a transaction leaves before its commit
(`OnlyCommitsAreSent`), that nothing is delivered twice but what a failed commit had sent
(`NothingComesTwice`), and that a commit which returns has sent all, in order (`CommitsAreWhole`). None of
them is inductive. `MInv` says who owns a list object: it is in one entry of one member's table, holds what
was sent in its transaction and was not sent otherwise (`KeptApart`, `KeptUnsent`); the list that `commit()`
walks is the one it looked up, with what it has sent the beginning (`ListsOK`, `CommitsOK`); what a receiver
holds came from a commit or from outside of a transaction (`FromCommits`), and it has it once, unless it is in
`again` (`OncePerMember`); a message's number is new (`NewOK`).

`HeartbeatProofs` proves all six properties of `HeartbeatListener` for every setting of the heartbeats, any
number of connections and any time: `LoopsAlone`, `HeartbeatsAgreed`, `HeartbeatsGoOut`, `SilenceIsNoticed`,
`FirstSessionBeats`, and `TimeoutsAreHonest`. Its invariant `HInv`:

- one thread lives at most, the last one, and `heartbeat_thread` is it or about to be (`OneThread`);
- while a connection is being made, no thread was born for it (`BornOK`);
- the heartbeats are what the two headers agree on (`AgreedOK`);
- `received_heartbeat` is the last time a frame came, the grace of the session counted as one (`SessionOK`);
- who has no due time has nothing to send, now and later (`NextOK`);
- at every step of the session's own loop the clock is not past what the loop waits for by more than a tick
  (`LoopOK`): a deadline is passed while the thread waits, and only by the tick in which it wakes;
- nobody has ended the loop of the first session while it is up (`FirstOK`).

Only `Tick` moves the clock, and only when every thread waits: the arithmetic of the two deadlines is in
`NextWake`, the lemma about `Loop`'s choice of the time to sleep until. Looking for `LoopOK` showed that
`SilenceNoticed` needs `~LeftOver`.

`CommandLineProofs` proves `TransactionsAreAtomic`: unless `sendreply` is used in a transaction (`~Replies`),
the broker has handled all or none of what a transaction was given (`Atomically`), for any commands, names and
limits, and whenever the connection is lost. The broker learns of a transaction from frames that arrive in
order, and of which a loss keeps a prefix. So `AtomicInv` speaks of prefixes: whatever a transaction was given
is at the broker or on the wire before its COMMIT (`Commits`), and for the open transaction before the end of
the wire (`Open`). `Numbers`, `Operations` and `Endings` say that ids are not used twice, and that COMMIT,
ABORT and the open transaction exclude one another.

It also proves `TablesInStep`: while the connection is up, the client's tables are what the broker will have
when it has handled what is on its way, and no id is that of two subscriptions (`InStep`). What the broker
will have is a fold over the wire. A step adds a frame at its end, where the fold goes one step further, or
the broker handles the first one, which leaves the rest of the fold as it was; both are lemmas, by induction
over the number of frames. `StepInv` adds that the ids in either table, and those on the way, are below the
next one (`OwnIds`).

`ReaderProofs` proves the three properties of `FrameReader` for every sequence of items, with any bodies, cut
in any way, and any number of connections: `FramesAsSent`, `HeartbeatsAreHonest` and `NothingIsHeldBack`.
Their premises are those of the run, `~CrlfEols`, `~SlowReader` and `~ReuseStopped`; without them the first
three counterexamples under *Frames* apply. `RInv` gives the reader a place in the stream (`At`): what its
buffers hold is a window of the stream that begins with the next frame, or in the EOLs before it (`Place`,
`Held`), and unless the buffer is being cut that frame is not complete yet (`Short`); the frames before are
those delivered and those cut, and the EOLs before account for the heartbeats (`Said`). What the code does
with the window is in the lemmas: it finds the empty line that ends the head, after LF or CR LF (`HeadIs`,
`PreambleEnds`); it finds the last NUL of the frame if it is there (`EndFound`), whatever NULs, empty lines
and headers the body pretends to have; it reads the command and the body that were sent (`CommandIs`,
`BodyIs`) and drops the EOLs that follow (`BeyondIs`). A cut then moves the place behind the frame (`CutOne`),
and a chunk or a heartbeat moves its other end (`ChunkRead`, `HeartbeatRead`). When the connection has ended
only what was delivered matters.

`AttemptsProofs` proves, for any lists of hosts, limits and settings of the back-off, over both adapters:

- `LocalsArePreferred` and `RoundsAreWhole`. `RoundInv` says how far the round is (`Positions`), that what
  stands before the current host in `Hosts` was tried (`Tried`), that the socket is that host's unless another
  thread interferes (`Sockets`), and how far beyond the limit a round may count (`Counted`). What `Hosts` is,
  the local ones of the application's list first and their loopback addresses before them, is the lemma
  `LocalsFirst`.
- `PausesDocumented`: the n-th pause is the documented one, up to the jitter. The exponent is the number of
  pauses until a pause reaches the maximum, and after that it may stay behind (`SleepInv`). `MaxRounds` is the
  number of rounds the model tells apart; `RoundsAssumption` has the pauses grown to the maximum by then, so
  that nothing is missing.

The assumptions are those of the modules on their constants: kinds of threads and sorts of hosts are distinct,
bounds are naturals, `None` is no kind of frame and no number, a stream consists of items that a server may
send (`StreamsAssumption`: only a body with a length has NULs), a dict has at most five entries
(`ListenersAssumption`), and the `RoundsAssumption` above. Proofs have one lemma per group of actions and one
step per action; the temporal step is the last.

Where a definition folds, filters or sorts, what it computes is proved by induction over a number: the set of
the numbers of which the claim holds has no least exception (`OneByOne`), since the library's theorems that
take an operator cannot be used. `FlattenSeq`, `FoldLeft` and `Only` are unfolded to the recursive functions
they are made of.

Only model-checked: liveness (out of the prover's reach), that is `Ends`, `CommitsArrive` and the promises of
the run `context` but the first, and `ReadAsMeant`. That one compares texts that are escaped, split and
unescaped by folds of one another's results; it would need the induction above for each function of the codec
and for their compositions, and its run has every pair of characters that meet in an escape.

## Not modelled

`PROJECT.json` lists every part with its status. Left out for good: logging, colours, what `PrintingListener`
and the client print, SSL parameters and keepalive options (calls that succeed or raise), packaging. Left out
although it has control of its own:

- a callback that calls `stop()` or `disconnect()`: on the receiver thread it waits for that thread;
- a second `connect()` of a multicast member, or one of a connection that is up, which makes a second
  receiver;
- socket timeouts, which make a `recv()` that times out a lost connection (`transport.py:634`); the default is
  none;
- the counters of `StatsListener` that several threads increment without a lock (`listener.py:428`);
- datagrams longer than 1024 bytes (`multicast.py:58`), which are cut.

## Plan

Done: `Transport` with its contract, `FrameReader`, `HeartbeatListener`, `ContextManager`, `FrameCodec`,
`Multicast`, `ConnectionAttempts`, `Listeners`, `CommandLine`; the proofs listed above. What is left, in this
order:

1. A callback that stops the connection, and a second `connect()` of a multicast member.
2. Proofs: the contract of an application that connects again from a thread of its own (`Reuse = "joined"`)
   without heartbeats and raising callbacks; `ReadAsMeant`, one function of the codec at a time.
