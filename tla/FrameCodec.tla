------------------------------ MODULE FrameCodec ------------------------------
(***************************************************************************)
(* From the application's call to the frame that a peer reads: the methods *)
(* of the protocol classes (stomp/protocol.py), which build a frame from   *)
(* their arguments and escape its headers, transmit() and convert_frame(), *)
(* and parse_frame() at the other end (stomp/utils.py), where a peer reads  *)
(* it as stomp.py does: the members of a multicast group are such peers.   *)
(*                                                                         *)
(* A text is a sequence of characters.  A name of a header, a command and  *)
(* a number are one character each: the code takes none of them apart.     *)
(* The value of a header is a sequence of texts: none for Python's None,   *)
(* one for a string, several for a tuple.                                  *)
(*                                                                         *)
(* Left out: CONNECT frames, which are not escaped and no stomp.py reads;  *)
(* headers that a method adds only when its optional arguments are given   *)
(* (content_type, transaction), which go the way of the others.            *)
(***************************************************************************)
EXTENDS Integers, Sequences, SequencesExt, TLC

CONSTANTS
  Connections,  \* [version, auto]: the class of the connection, and auto_content_length
  Own,          \* what the application passes as headers={...}
  Arguments,    \* texts it passes as destination, id, transaction or receipt
  Bodies,       \* bodies it sends
  MaxCalls      \* bound: calls with the same headers dictionary

Versions == {"1.0", "1.1", "1.2", "multicast"}
ASSUME CodecAssumption ==
  /\ \A c \in Connections : c.version \in Versions /\ c.auto \in BOOLEAN
  /\ MaxCalls \in Nat \ {0}

VARIABLES
  connection,
  userHeaders,         \* the application's dictionary
  frame,               \* the frame under way: command, headers, body
  shared,              \* whether its headers are the application's dictionary
  wire,                \* what is sent
  read,                \* the frame the peer reads
  pc, calls,
  own,                 \* history: the dictionary as the application filled it
  meant                \* history: the frame as the application means it

history == <<own, meant>>
vars == <<connection, userHeaders, frame, shared, wire, read, pc, calls, history>>

Build(cmd, headers, body) == [cmd |-> cmd, headers |-> headers, body |-> body]
NoFrame == Build("none", <<>>, <<>>)

Init ==
  /\ connection \in Connections /\ own \in Own /\ userHeaders = own
  /\ frame = NoFrame /\ shared = FALSE
  /\ wire = <<>> /\ read = NoFrame /\ meant = NoFrame
  /\ pc = "idle" /\ calls = 0

-----------------------------------------------------------------------------
(* The methods of the protocol classes *)

\* Mutant of MergeHeaders: no new dictionary
MergeInPlace(given) == [headers |-> given, shared |-> TRUE]
\* merge_headers: a new dictionary
MergeHeaders(given) == [headers |-> given, shared |-> FALSE]

Header(name, text) == name :> <<text>>
Fixed == <<"a">>
Number(n) == <<ToString(n)>>
Bytes(body) == FoldSeq(LAMBDA char, n : n + IF char = "wide" THEN 2 ELSE 1, 0, body)

\* Explicit arguments replace what the application's dictionary says.  The
\* content-length counts characters: convert_frame corrects it.
Send(headers, destination, body) ==
  LET addressed == Header("destination", destination) @@ headers
      sized == connection.auto /\ body # <<>> /\ "content-length" \notin DOMAIN headers
  IN Build("SEND",
           IF sized THEN Header("content-length", Number(Len(body))) @@ addressed ELSE addressed,
           body)

Subscribe(headers, id) ==
  Build("SUBSCRIBE",
        Header("destination", Fixed) @@ Header("id", id) @@ Header("ack", <<"auto">>) @@ headers,
        <<>>)

Unsubscribe(headers, id) == Build("UNSUBSCRIBE", Header("id", id) @@ headers, <<>>)

Transaction(cmd, headers, id) == Build(cmd, Header("transaction", id) @@ headers, <<>>)

\* in each version of the protocol another header names the message
Acknowledged(id) ==
  CASE connection.version = "1.0" -> Header("message-id", id)
    [] connection.version = "1.1" -> Header("message-id", id) @@ Header("subscription", Fixed)
    [] OTHER -> Header("id", id)
Ack(id, receipt) == Build("ACK", Acknowledged(id) @@ Header("receipt", receipt), <<>>)
Nack(headers, id) == Build("NACK", headers @@ Acknowledged(id), <<>>)

Disconnect(headers, receipt) == Build("DISCONNECT", Header("receipt", receipt) @@ headers, <<>>)

\* 1.0 has no nack().  The multicast connection keeps subscriptions and
\* transactions to itself, and sends no DISCONNECT: it never gets a CONNECTED.
Methods ==
  CASE connection.version = "1.0" ->
         {"SEND", "SUBSCRIBE", "UNSUBSCRIBE", "BEGIN", "COMMIT", "ABORT", "ACK", "DISCONNECT"}
    [] connection.version = "multicast" -> {"SEND", "ACK", "NACK"}
    [] OTHER ->
         {"SEND", "SUBSCRIBE", "UNSUBSCRIBE", "BEGIN", "COMMIT", "ABORT", "ACK", "NACK", "DISCONNECT"}
Make(method, headers, text, body) ==
  CASE method = "SEND" -> Send(headers, text, body)
    [] method = "SUBSCRIBE" -> Subscribe(headers, text)
    [] method = "UNSUBSCRIBE" -> Unsubscribe(headers, text)
    [] method = "ACK" -> Ack(text, Fixed)
    [] method = "NACK" -> Nack(headers, text)
    [] method = "DISCONNECT" -> Disconnect(headers, text)
    [] OTHER -> Transaction(method, headers, text)

\* what the peer is to read: the first value of each header, and the length of
\* the body in bytes
Meaning(f) ==
  LET names == {name \in DOMAIN f.headers : f.headers[name] # <<>>}
      value(name) == IF name = "content-length" /\ f.body # <<>> THEN Number(Bytes(f.body))
                     ELSE f.headers[name][1]
  IN Build(f.cmd, [name \in {<<n>> : n \in names} |-> value(name[1])], f.body)

Call ==
  /\ pc = "idle" /\ calls < MaxCalls
  /\ calls' = calls + 1
  /\ \E method \in Methods, text \in Arguments, body \in Bodies :
       /\ method # "SEND" => body = <<>>
       /\ frame' = Make(method, MergeHeaders(userHeaders).headers, text, body)
       /\ meant' = Meaning(Make(method, own, text, body))
  /\ shared' = MergeHeaders(userHeaders).shared
  /\ userHeaders' = IF shared' THEN frame'.headers ELSE userHeaders
  /\ pc' = "escape"
  /\ UNCHANGED <<connection, wire, read, own>>

-----------------------------------------------------------------------------
(* Sending *)

Replace(text, char, escape) ==
  FlattenSeq([i \in DOMAIN text |-> IF text[i] = char THEN escape ELSE <<text[i]>>])

Backslash == "\\"
Escape(char) == CASE char = "LF" -> <<Backslash, "n">>
                  [] char = ":"  -> <<Backslash, "c">>
                  [] char = "CR" -> <<Backslash, "r">>
                  [] char = Backslash -> <<Backslash, Backslash>>

\* the replacements of _escape_headers, in their order; 1.0 has none, and the
\* send_frame of the multicast connection calls none
Escapes ==
  CASE connection.version = "1.1" -> << Backslash, "LF", ":" >>
    [] connection.version = "1.2" -> << Backslash, "LF", ":", "CR" >>
    [] OTHER -> << >>
EscapeText(text) ==
  FoldLeft(LAMBDA t, char : Replace(t, char, Escape(char)), text, Escapes)

\* only strings have a replace()
EscapeHeaders ==
  /\ pc = "escape"
  /\ frame' = [frame EXCEPT !.headers =
       [name \in DOMAIN @ |-> IF Len(@[name]) = 1 THEN <<EscapeText(@[name][1])>> ELSE @[name]]]
  /\ userHeaders' = IF shared THEN frame'.headers ELSE userHeaders
  /\ pc' = "convert"
  /\ UNCHANGED <<connection, shared, wire, read, calls, history>>

\* sorted(frame.headers.items())
Sorted == << "ack", "content-length", "destination", "id", "message-id", "receipt",
             "subscription", "transaction", "x" >>
Lines(headers) ==
  LET name(i) == Sorted[i]
      lines(i) == IF name(i) \notin DOMAIN headers THEN << >>
                  ELSE FlattenSeq([j \in DOMAIN headers[name(i)] |->
                                     <<name(i), ":">> \o headers[name(i)][j] \o <<"LF">>])
  IN FlattenSeq([i \in DOMAIN Sorted |-> lines(i)])

\* the content-length of a frame with a body is its length in bytes
Counted(f) ==
  IF f.body # <<>> /\ "content-length" \in DOMAIN f.headers
  THEN [f.headers EXCEPT !["content-length"] = <<Number(Bytes(f.body))>>]
  ELSE f.headers

ConvertFrame ==
  /\ pc = "convert"
  /\ frame' = [frame EXCEPT !.headers = Counted(frame)]
  /\ userHeaders' = IF shared THEN frame'.headers ELSE userHeaders
  /\ wire' = <<frame.cmd, "LF">> \o Lines(frame'.headers) \o <<"LF">> \o frame.body
  /\ pc' = "parse"
  /\ UNCHANGED <<connection, shared, read, calls, history>>

-----------------------------------------------------------------------------
(* Reading *)

\* PREAMBLE_END_RE: the first empty line, whichever way its lines end
Ends(s) ==
  {[start |-> i, end |-> i + 1] : i \in {j \in 1..(Len(s) - 1) : SubSeq(s, j, j + 1) = <<"LF", "LF">>}}
    \cup {[start |-> i, end |-> i + 3] :
            i \in {j \in 1..(Len(s) - 3) : SubSeq(s, j, j + 3) = <<"CR", "LF", "CR", "LF">>}}
PreambleEnd(s) == CHOOSE e \in Ends(s) : \A other \in Ends(s) : e.start <= other.start

\* LINE_END_RE
SplitLines(s) ==
  LET chop(line) == IF line # <<>> /\ Last(line) = "CR" THEN Front(line) ELSE line
      split == FoldLeft(LAMBDA acc, char :
                          IF char = "LF" THEN [done |-> Append(acc.done, chop(acc.line)), line |-> <<>>]
                          ELSE [acc EXCEPT !.line = Append(@, char)],
                        [done |-> <<>>, line |-> <<>>], s)
  IN Append(split.done, split.line)

Unescapes == {[escape |-> Escape(char), char |-> char] : char \in {"LF", ":", "CR", Backslash}}
\* _unescape_header: unknown escapes stay as they are
Unescaped(pair) ==
  LET known == {u \in Unescapes : u.escape = pair}
  IN IF known = {} THEN pair ELSE <<(CHOOSE u \in known : TRUE).char>>
Unescape(text) ==
  LET scan == FoldLeft(LAMBDA acc, char :
                         CASE acc.open -> [done |-> acc.done \o Unescaped(<<Backslash, char>>),
                                           open |-> FALSE]
                           [] ~acc.open /\ char = Backslash -> [acc EXCEPT !.open = TRUE]
                           [] OTHER -> [acc EXCEPT !.done = Append(@, char)],
                       [done |-> <<>>, open |-> FALSE], text)
  IN IF scan.open THEN Append(scan.done, Backslash) ELSE scan.done

\* HEADER_LINE_RE: a name and a value on either side of the first colon
Colon(line) == SelectInSeq(line, LAMBDA char : char = ":")
IsHeader(line) == Colon(line) > 1
Name(line)  == Unescape(SubSeq(line, 1, Colon(line) - 1))
Value(line) == Unescape(SubSeq(line, Colon(line) + 1, Len(line)))

\* parse_headers: the first header of a name wins
ParseHeaders(lines) ==
  LET found == SelectSeq(lines, IsHeader)
      first(name) == SelectInSeq(found, LAMBDA line : Name(line) = name)
  IN [name \in {Name(found[i]) : i \in DOMAIN found} |-> Value(found[first(name)])]

ParseFrame ==
  /\ pc = "parse"
  /\ LET end   == PreambleEnd(wire)
         lines == SplitLines(SubSeq(wire, 1, end.start - 1))
     IN read' = Build(lines[1][1], ParseHeaders(Tail(lines)), SubSeq(wire, end.end + 1, Len(wire)))
  /\ pc' = "idle"
  /\ UNCHANGED <<connection, userHeaders, frame, shared, wire, calls, history>>

Finished == pc = "idle" /\ calls = MaxCalls /\ UNCHANGED vars

Next == Call \/ EscapeHeaders \/ ConvertFrame \/ ParseFrame \/ Finished
Spec == Init /\ [][Next]_vars

-----------------------------------------------------------------------------
(* Properties *)

\* a text that needs no escaping
Plain(text) ==
  /\ ~Contains(text, "LF") /\ (text = <<>> \/ Last(text) # "CR")
  /\ \A i \in 1..(Len(text) - 1) : text[i] = Backslash => text[i + 1] \notin {"n", "c", "r", Backslash}
\* Texts that the protocol's version can carry: all of them in 1.2; in 1.1 a CR
\* is not escaped, and one at the end of a line is read as a part of its end; a
\* version without escapes, and a tuple, can carry plain texts only.
Carries(text) ==
  CASE connection.version = "1.2" -> TRUE
    [] connection.version = "1.1" -> text = <<>> \/ Last(text) # "CR"
    [] OTHER -> Plain(text)
Carried ==
  /\ \A name \in DOMAIN meant.headers : Carries(meant.headers[name])
  /\ \A name \in DOMAIN own : Len(own[name]) > 1 => \A i \in DOMAIN own[name] : Plain(own[name][i])

\* What the peer reads is what the application meant, in every call it makes with
\* the same dictionary: every header with its value (the first one of a tuple,
\* none for None), the explicit arguments in place of those of the dictionary,
\* the body, and a content-length in bytes.
ReadAsMeant == pc = "idle" /\ calls > 0 /\ Carried => read = meant
=============================================================================
