----------------------------- MODULE FrameReader -----------------------------
(***************************************************************************)
(* How a receiver turns the bytes of a connection into frames:             *)
(* BaseTransport.__read and the body of __receiver_loop                    *)
(* (stomp/transport.py), and parse_frame (stomp/utils.py).                 *)
(*                                                                         *)
(* The stream is a sequence of tokens.  Newlines, carriage returns, NULs   *)
(* and body bytes are one byte each; the command and the content-length    *)
(* header of a frame are one token each, since the code never looks at a   *)
(* part of them.  The network cuts the stream into chunks in every         *)
(* possible way.                                                           *)
(*                                                                         *)
(* A line of a frame may end in LF or in CR LF.  An EOL by itself is an LF *)
(* to the reader (is_eol_default): no caller passes another is_eol_fc.     *)
(***************************************************************************)
EXTENDS Integers, Sequences, SequencesExt

CONSTANTS
  Streams,         \* what a server may send on a connection: sequences of items
  MaxConnections,  \* bound
  CrlfEols,        \* whether a server that ends lines in CR LF sends such EOLs by themselves too
  SlowReader,      \* whether two EOLs may wait for the receiver at once
  ReuseStopped     \* whether the application connects again after a connection that was not lost

VARIABLES
  running,     \* BaseTransport.running
  recvbuf,     \* BaseTransport.__recvbuf
  fastbuf,     \* the local buffer of __read
  result,      \* the frames __read has cut from __recvbuf
  pc,          \* "loop", "recv", "split", "frames", or "ended"
  wire,        \* tokens on their way from the server
  connection,  \* which connection this is
  items,       \* what the server sends on it
  delivered,   \* frames given to process_frame on this connection
  heartbeats,  \* heartbeats given to it
  stopped      \* history: the connections that another thread of the client ended, or that
               \* ended when a frame could not be handled

server == <<connection, items>>
given  == <<delivered, heartbeats>>
vars   == <<running, recvbuf, fastbuf, result, pc, wire, server, given, stopped>>

Tokens == [kind : {"LF", "CR", "NUL", "byte", "command", "content-length"}, v : Nat]
Token(kind, v) == [kind |-> kind, v |-> v]
LF  == Token("LF", 0)
CR  == Token("CR", 0)
NUL == Token("NUL", 0)
Byte == Token("byte", 0)
Command(n) == Token("command", n)
ContentLength(n) == Token("content-length", n)

\* Items a server sends: a frame, with or without content-length, its lines
\* ending in LF or CR LF, and followed by any number of EOLs; or a heartbeat,
\* which is an EOL by itself.
Items == [frame : BOOLEAN, body : Seq(Tokens), sized : BOOLEAN, crlf : BOOLEAN, eols : Nat]
Item(frame, body, sized, crlf, eols) ==
  [frame |-> frame, body |-> body, sized |-> sized, crlf |-> crlf, eols |-> eols]
Heartbeat(crlf) == Item(FALSE, <<>>, FALSE, crlf, 1)

\* A body may hold anything, also what looks like a command or a header, but a
\* server that sends NULs in it says how long it is.
Carried(item) == item.frame /\ ~item.sized => ~Contains(item.body, NUL)

ASSUME FrameReaderAssumption ==
  /\ MaxConnections \in Nat \ {0}
  /\ CrlfEols \in BOOLEAN /\ SlowReader \in BOOLEAN /\ ReuseStopped \in BOOLEAN
ASSUME StreamsAssumption ==
  \A stream \in Streams :
    stream \in Seq(Items) /\ \A i \in DOMAIN stream : Carried(stream[i])

Ids(c, i) == 100 * c + i  \* the i-th item of connection c
LineEnd(crlf) == IF crlf THEN <<CR, LF>> ELSE <<LF>>
Lfs(n) == [i \in 1..n |-> LF]
Eols(item) ==
  IF CrlfEols /\ item.crlf THEN [i \in 1..(2 * item.eols) |-> IF i % 2 = 1 THEN CR ELSE LF]
  ELSE Lfs(item.eols)
HeadLines(id, item) ==
  <<Command(id)>> \o LineEnd(item.crlf)
    \o (IF item.sized THEN <<ContentLength(Len(item.body))>> \o LineEnd(item.crlf) ELSE <<>>)
    \o LineEnd(item.crlf)
Encode(id, item) ==
  IF item.frame THEN HeadLines(id, item) \o item.body \o <<NUL>> \o Eols(item) ELSE Eols(item)
EncodeAll(c, stream) == FlattenSeq([i \in DOMAIN stream |-> Encode(Ids(c, i), stream[i])])

Init ==
  /\ running = TRUE /\ recvbuf = <<>> /\ fastbuf = <<>> /\ result = <<>>
  /\ pc = "loop" /\ connection = 1 /\ stopped = {}
  /\ items \in Streams /\ wire = EncodeAll(1, items)
  /\ delivered = <<>> /\ heartbeats = 0

-----------------------------------------------------------------------------
IndexOf(s, token) == SelectInSeq(s, LAMBDA x : x = token)  \* 0: not there
From(s, i) == SubSeq(s, i, Len(s))

IsCrlf(s, i) == i < Len(s) /\ s[i] = CR /\ s[i + 1] = LF

\* PREAMBLE_END_RE: LF LF, or CR LF CR LF, whichever is first
BlankLines(s) ==
  {i \in 1..(Len(s) - 1) : (s[i] = LF /\ s[i + 1] = LF) \/ (IsCrlf(s, i) /\ IsCrlf(s, i + 2))}
HasPreamble(s) == BlankLines(s) # {}
PreambleEnd(s) == Min(BlankLines(s))
HeadEnd(s) == PreambleEnd(s) + (IF s[PreambleEnd(s)] = LF THEN 1 ELSE 3)
Preamble(s) == IF HasPreamble(s) THEN SubSeq(s, 1, PreambleEnd(s) - 1) ELSE s
Body(s) == IF HasPreamble(s) THEN From(s, HeadEnd(s) + 1) ELSE <<>>

\* how long the content-length makes the frame that s begins; 0: no content-length
Size(s) ==
  LET header == SelectInSeq(Preamble(s), LAMBDA x : x.kind = "content-length")
  IN IF HasPreamble(s) /\ header # 0 THEN HeadEnd(s) + s[header].v ELSE 0

\* Mutants of FrameEnd: a frame ends at its first NUL whatever its length; a
\* frame with NULs waits for one byte more than it has
FrameEndAtNul(buf) == IndexOf(buf, NUL)
FrameEndLate(buf) ==
  LET first == IndexOf(buf, NUL)
      size  == Size(SubSeq(buf, 1, first - 1))
  IN IF first = 0 \/ size < first THEN first
     ELSE IF size + 1 < Len(buf) THEN size + 1 ELSE 0

\* Where the first frame of the buffer ends: at its first NUL, or, when the
\* content-length reaches beyond that, at that length.  0: not there yet.
FrameEnd(buf) ==
  LET first == IndexOf(buf, NUL)
      size  == Size(SubSeq(buf, 1, first - 1))
  IN IF first = 0 \/ size < first THEN first
     ELSE IF size < Len(buf) THEN size + 1 ELSE 0

\* The EOLs that follow a frame are dropped with it.  The branch for EOLs of
\* two bytes is never taken, since is_eol_default knows none.
Beyond(buf, end) ==
  LET rest == From(buf, end + 1)
      text == SelectInSeq(rest, LAMBDA x : x # LF)
  IN IF text = 0 THEN <<>> ELSE From(rest, text)

-----------------------------------------------------------------------------
\* "while self.running", of __read or around it.  When it fails, what __read
\* has gathered is kept in __recvbuf, and the receiver ends.
Loop ==
  /\ pc = "loop"
  /\ IF running THEN pc' = "recv" /\ UNCHANGED <<recvbuf, fastbuf>>
     ELSE pc' = "ended" /\ recvbuf' = recvbuf \o fastbuf /\ fastbuf' = <<>>
  /\ UNCHANGED <<running, result, wire, server, given, stopped>>

\* Mutant of IsHeartbeat: any EOL that arrives by itself
IsHeartbeatAnywhere(chunk) == chunk = <<LF>>
IsHeartbeat(chunk) == chunk = <<LF>> /\ recvbuf = <<>> /\ fastbuf = <<>>

HasNul(chunk) == Contains(chunk, NUL)

\* recv() returns n bytes
Receive(n) ==
  /\ pc = "recv"
  /\ LET chunk == SubSeq(wire, 1, n) IN
     /\ ~SlowReader => ~(recvbuf = <<>> /\ fastbuf = <<>> /\ n > 1 /\ chunk[1] = LF /\ chunk[2] = LF)
     /\ \/ /\ IsHeartbeat(chunk)
           /\ heartbeats' = heartbeats + 1 /\ pc' = "loop" /\ UNCHANGED <<recvbuf, fastbuf>>
        \/ /\ ~IsHeartbeat(chunk) /\ HasNul(chunk)
           /\ recvbuf' = recvbuf \o fastbuf \o chunk /\ fastbuf' = <<>>
           /\ pc' = "split" /\ UNCHANGED heartbeats
        \/ /\ ~IsHeartbeat(chunk) /\ ~HasNul(chunk)
           /\ fastbuf' = fastbuf \o chunk
           /\ pc' = "loop" /\ UNCHANGED <<recvbuf, heartbeats>>
  /\ wire' = From(wire, n + 1)
  /\ UNCHANGED <<running, result, server, delivered, stopped>>

\* Mutant of LoseConnection: keeps the half-received frame
LoseConnectionKeeps ==
  /\ pc = "recv"
  /\ running' = FALSE /\ fastbuf' = <<>> /\ pc' = "ended"
  /\ UNCHANGED <<recvbuf, result, wire, server, given, stopped>>

\* recv() returns nothing or fails: the connection is lost, or was ended by
\* another thread.  A half-received frame is forgotten in the first case only.
LoseConnection ==
  /\ pc = "recv"
  /\ recvbuf' = IF running THEN <<>> ELSE recvbuf
  /\ running' = FALSE /\ fastbuf' = <<>> /\ pc' = "ended"
  /\ UNCHANGED <<result, wire, server, given, stopped>>

\* one round of the loop that cuts frames from the buffer
Split ==
  /\ pc = "split"
  /\ LET end == FrameEnd(recvbuf) IN
     IF end # 0
     THEN /\ result' = Append(result, SubSeq(recvbuf, 1, end - 1))
          /\ recvbuf' = Beyond(recvbuf, end)
          /\ UNCHANGED pc
     ELSE pc' = "frames" /\ UNCHANGED <<result, recvbuf>>
  /\ UNCHANGED <<running, fastbuf, wire, server, given, stopped>>

\* that loop is not entered when running has become False
SkipSplit ==
  /\ pc = "split" /\ result = <<>> /\ ~running
  /\ pc' = "frames"
  /\ UNCHANGED <<running, recvbuf, fastbuf, result, wire, server, given, stopped>>

\* parse_frame and process_frame: the command is the first line that is not
\* empty; a frame without one, or with an unknown one, is dropped
InLineEnd(s, i) == s[i] = LF \/ IsCrlf(s, i)
CommandLine(frame) ==
  LET preamble == Preamble(frame)
      text  == {i \in DOMAIN preamble : ~InLineEnd(preamble, i)}
      after == {i \in Min(text)..Len(preamble) : InLineEnd(preamble, i)}
  IN IF text = {} THEN <<>>
     ELSE SubSeq(preamble, Min(text), (IF after = {} THEN Len(preamble) ELSE Min(after) - 1))
KnownCommand(line) == Len(line) = 1 /\ line[1].kind = "command"
Handled(frame) ==
  IF KnownCommand(CommandLine(frame))
  THEN Append(delivered, [id |-> CommandLine(frame)[1].v, body |-> Body(frame)])
  ELSE delivered

Process ==
  /\ pc = "frames" /\ result # <<>>
  /\ delivered' = Handled(Head(result)) /\ result' = Tail(result)
  /\ UNCHANGED <<running, recvbuf, fastbuf, pc, wire, server, heartbeats, stopped>>

\* A listener raises, or the frame cannot be decoded: the loop ends, with the
\* other frames of this read, while running and __recvbuf stay as they are.
\* (One that raises on a heartbeat ends it with nothing in either buffer, as
\* StopRunning and Loop do.)
ProcessRaises ==
  /\ pc = "frames" /\ result # <<>>
  /\ delivered' \in {delivered, Handled(Head(result))}
  /\ result' = <<>> /\ pc' = "ended" /\ stopped' = stopped \cup {connection}
  /\ UNCHANGED <<running, recvbuf, fastbuf, wire, server, heartbeats>>

ReadAgain ==
  /\ pc = "frames" /\ result = <<>>
  /\ pc' = "loop"
  /\ UNCHANGED <<running, recvbuf, fastbuf, result, wire, server, given, stopped>>

\* another thread runs disconnect_socket()
StopRunning ==
  /\ running
  /\ running' = FALSE /\ stopped' = stopped \cup {connection}
  /\ UNCHANGED <<recvbuf, fastbuf, result, pc, wire, server, given>>

\* start(), on the same transport
Reconnect ==
  /\ pc = "ended" /\ connection < MaxConnections
  /\ ReuseStopped \/ stopped = {}
  /\ connection' = connection + 1
  /\ items' \in Streams /\ wire' = EncodeAll(connection + 1, items')
  /\ running' = TRUE /\ pc' = "loop"
  /\ delivered' = <<>> /\ heartbeats' = 0
  /\ UNCHANGED <<recvbuf, fastbuf, result, stopped>>

\* the application need not connect again
Finished ==
  /\ pc = "ended"
  /\ UNCHANGED vars

Next ==
  \/ Loop \/ \E n \in 1..Len(wire) : Receive(n)
  \/ LoseConnection \/ Split \/ SkipSplit \/ Process \/ ProcessRaises \/ ReadAgain
  \/ StopRunning \/ Reconnect \/ Finished

Spec == Init /\ [][Next]_vars

-----------------------------------------------------------------------------
(* Properties *)

\* the frames the server sends on this connection, as they are to be delivered
Sent ==
  FlattenSeq([i \in DOMAIN items |->
                IF items[i].frame THEN <<[id |-> Ids(connection, i), body |-> items[i].body]>>
                ELSE <<>>])

\* However the stream is cut into chunks, the frames delivered are the first
\* ones sent, whole, in order, none twice: NULs and empty lines in a body, EOLs
\* between frames, and a half-received frame of an earlier connection make no
\* difference (__read, and "Clear out any half-received messages after losing
\* connection", transport.py:346).
DeliveredAsSent == IsPrefix(delivered, Sent)

\* Once all that was sent has been read, all of it has been delivered: the
\* reader never holds back a complete frame until more bytes arrive.
NothingHeldBack ==
  pc = "recv" /\ wire = <<>>
    => Len(delivered) = Len(Sent) /\ recvbuf = <<>> /\ fastbuf = <<>>

\* "Add support for \r\n EOL handling" (CHANGELOG.md:62): no frame is lost
\* because of the EOLs a server sends.  False when those are CR LF: __read takes
\* them neither for heartbeats nor for what follows a frame, two of them stay
\* in the buffer, and parse_frame takes the empty line they make for the end of
\* the next frame's preamble.
CrlfHandled == pc = "recv" /\ wire = <<>> => Len(delivered) = Len(Sent)

\* A newline inside a frame is never taken for a heartbeat: there are at most
\* as many heartbeats as EOLs outside the frames.
HeartbeatsHonest ==
  heartbeats <= Len(FlattenSeq([i \in DOMAIN items |-> Lfs(items[i].eols)]))
=============================================================================
