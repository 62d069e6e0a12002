----------------------------- MODULE CommandLine -----------------------------
(***************************************************************************)
(* StompCLI, the command line client (stomp/__main__.py): the table of its *)
(* subscriptions, its transaction and its statistics listener, against a   *)
(* broker that handles the frames it sends in order.                       *)
(*                                                                         *)
(* One thread reads commands, from the prompt or from the lines of a file. *)
(* The connection may be lost at any time: until its receiver notices, the *)
(* client sends into the void; then a command that sends a frame raises,   *)
(* and an exception ends the program.  Commands that only print, or refuse *)
(* their arguments, are left out.                                          *)
(***************************************************************************)
EXTENDS Integers, Sequences, SequencesExt

CONSTANTS
  Names,     \* destinations
  None,      \* Python's None
  Replies,   \* whether sendreply is used in a transaction
  Versions,  \* protocol versions to check
  MaxSubscriptions, MaxOperations,  \* bounds: subscriptions; messages and acknowledgements
  MaxFlight, \* bound: frames on their way
  MaxBegins, \* bound: transactions begun
  MaxDepth   \* bound: files run from files

ASSUME BoundsAssumption ==
  /\ Versions \subseteq {"1.0", "1.1", "1.2"} /\ Replies \in BOOLEAN
  /\ MaxSubscriptions \in Nat /\ MaxOperations \in Nat /\ MaxFlight \in Nat
  /\ MaxBegins \in Nat /\ MaxDepth \in Nat
ASSUME NoneAssumption == None \notin Nat

VARIABLES
  version,         \* nversion: never changes
  subscriptions,   \* __subscriptions: the id of each destination, or None
  subscription_id, \* __subscription_id
  transaction_id,
  stats,           \* whether a listener is set under the name "stats"
  depth,           \* how many do_run() calls the thread is in
  main,            \* where main() is
  link,            \* the connection: up, lost, or known to be lost
  wire,            \* frames on their way to the broker
  broker,          \* its subscriptions, open transactions, what it holds for them, has done
  done, during, begins, commits  \* history: operations; those given in a transaction; COMMITs

tables  == <<subscriptions, subscription_id, transaction_id>>
history == <<done, during, begins, commits>>
vars == <<version, tables, stats, depth, main, link, wire, broker, history>>

Frame(cmd, arg, transaction) == [cmd |-> cmd, arg |-> arg, transaction |-> transaction]
End == Frame("END", None, None)  \* the end of the connection, as the broker sees it

Init ==
  /\ version \in Versions
  /\ subscriptions = [n \in Names |-> None] /\ subscription_id = 1 /\ transaction_id = None
  /\ stats = FALSE
  /\ \/ main = "cmdloop" /\ depth = 0
     \/ main = "file" /\ depth = 1  \* --file
  /\ link = "up" /\ wire = <<>>
  /\ broker = [subs |-> {}, open |-> {}, held |-> {}, handled |-> {}]
  /\ done = 0 /\ during = {} /\ begins = 0 /\ commits = {}

-----------------------------------------------------------------------------
(* External: the broker, and the network *)

\* what a broker does with a frame; an operation is a SEND, an ACK or a NACK
Apply(b, f) ==
  LET held == {h[2] : h \in {x \in b.held : x[1] = f.transaction}}
      rest == {x \in b.held : x[1] # f.transaction}
  IN CASE f.cmd = "SUBSCRIBE"   -> [b EXCEPT !.subs = @ \cup {f.arg}]
       [] f.cmd = "UNSUBSCRIBE" -> [b EXCEPT !.subs = @ \ {f.arg}]
       [] f.cmd = "BEGIN"  -> [b EXCEPT !.open = @ \cup {f.transaction}]
       [] f.cmd = "COMMIT" -> [b EXCEPT !.open = @ \ {f.transaction}, !.held = rest,
                                        !.handled = @ \cup held]
       [] f.cmd = "ABORT"  -> [b EXCEPT !.open = @ \ {f.transaction}, !.held = rest]
       [] f.cmd = "OPERATION" /\ f.transaction = None -> [b EXCEPT !.handled = @ \cup {f.arg}]
       [] f.cmd = "OPERATION" /\ f.transaction # None ->
            [b EXCEPT !.held = @ \cup {<<f.transaction, f.arg>>}]
       [] f.cmd = "END" -> [b EXCEPT !.subs = {}, !.open = {}, !.held = {}]

Handle ==
  /\ wire # <<>>
  /\ broker' = Apply(broker, Head(wire)) /\ wire' = Tail(wire)
  /\ UNCHANGED <<version, tables, stats, depth, main, link, history>>

Lose ==
  /\ link = "up" /\ main # "ended" /\ link' = "lost"
  /\ \E n \in 0..Len(wire) : wire' = Append(SubSeq(wire, 1, n), End)
  /\ UNCHANGED <<version, tables, stats, depth, main, broker, history>>

\* on_disconnected: the transport has no socket any more
OnDisconnected ==
  /\ link = "lost" /\ link' = "known"
  /\ UNCHANGED <<version, tables, stats, depth, main, wire, broker, history>>

-----------------------------------------------------------------------------
(* The commands *)

Reading == main # "ended" /\ (main = "file" => depth > 0)

\* The frame goes out: for good, or nowhere when the connection is lost ...
Transmit(f) ==
  /\ link # "known" /\ Len(wire) < MaxFlight
  /\ wire' = IF link = "up" THEN Append(wire, f) ELSE wire
  /\ UNCHANGED <<version, stats, depth, main, link, broker>>

\* ... or the program ends: with a DISCONNECT from the prompt, and with the
\* process in any case
Leave ==
  /\ main' = "ended"
  /\ wire' = IF link = "up" THEN Append(wire, End) ELSE wire
  /\ UNCHANGED <<version, tables, stats, depth, link, broker, history>>
SendRaises == Reading /\ link # "up" /\ Leave

\* Mutant of Subscribe: uses the same id again
SubscribeSameId(name) ==
  /\ Reading /\ subscriptions[name] = None /\ subscription_id <= MaxSubscriptions
  /\ Transmit(Frame("SUBSCRIBE", <<name, 1>>, None))
  /\ subscriptions' = [subscriptions EXCEPT ![name] = 1]
  /\ UNCHANGED <<subscription_id, transaction_id, history>>

Subscribe(name) ==
  /\ Reading /\ subscriptions[name] = None /\ subscription_id <= MaxSubscriptions
  /\ Transmit(Frame("SUBSCRIBE", <<name, subscription_id>>, None))
  /\ subscriptions' = [subscriptions EXCEPT ![name] = subscription_id]
  /\ subscription_id' = subscription_id + 1
  /\ UNCHANGED <<transaction_id, history>>

Unsubscribe(name) ==
  /\ Reading /\ subscriptions[name] # None
  /\ Transmit(Frame("UNSUBSCRIBE", <<name, subscriptions[name]>>, None))
  /\ subscriptions' = [subscriptions EXCEPT ![name] = None]
  /\ UNCHANGED <<subscription_id, transaction_id, history>>

\* a message or an acknowledgement, in the given transaction
Operation(transaction) ==
  /\ Reading /\ done < MaxOperations /\ done' = done + 1
  /\ Transmit(Frame("OPERATION", done', transaction))
  /\ during' = IF transaction_id = None THEN during ELSE during \cup {<<transaction_id, done'>>}
  /\ UNCHANGED <<tables, begins, commits>>

\* Mutant of SendFile: like sendreply, outside the transaction
SendFileAtOnce == Operation(None)

Send      == Operation(transaction_id)
SendRec   == Operation(transaction_id)
SendFile  == Operation(transaction_id)
\* sendreply never names the transaction
SendReply == (Replies \/ transaction_id = None) /\ Operation(None)
Ack       == Operation(transaction_id)
Nack      == version # "1.0" /\ Operation(transaction_id)

\* AttributeError: a 1.0 connection has no nack
NackRaises == Reading /\ version = "1.0" /\ Leave

Begin ==
  /\ Reading /\ transaction_id = None /\ begins < MaxBegins
  /\ begins' = begins + 1  \* get_uuid(): never the same again
  /\ Transmit(Frame("BEGIN", None, begins'))
  /\ transaction_id' = begins'
  /\ UNCHANGED <<subscriptions, subscription_id, done, during, commits>>

\* Mutant of Commit: sends the frame of do_abort
CommitAborts ==
  /\ Reading /\ transaction_id # None
  /\ Transmit(Frame("ABORT", None, transaction_id))
  /\ transaction_id' = None /\ commits' = commits \cup {transaction_id}
  /\ UNCHANGED <<subscriptions, subscription_id, done, during, begins>>

Commit ==
  /\ Reading /\ transaction_id # None
  /\ Transmit(Frame("COMMIT", None, transaction_id))
  /\ transaction_id' = None /\ commits' = commits \cup {transaction_id}
  /\ UNCHANGED <<subscriptions, subscription_id, done, during, begins>>

Abort ==
  /\ Reading /\ transaction_id # None
  /\ Transmit(Frame("ABORT", None, transaction_id))
  /\ transaction_id' = None
  /\ UNCHANGED <<subscriptions, subscription_id, history>>

StatsOn  == Reading /\ stats' = TRUE
StatsOff == Reading /\ stats /\ stats' = FALSE
Stats ==
  /\ StatsOn \/ StatsOff
  /\ UNCHANGED <<version, tables, depth, main, link, wire, broker, history>>
\* KeyError: "stats off" and no such listener
StatsRaises == Reading /\ ~stats /\ Leave

\* "run": the lines of a file, and then the rest of where it was called; what
\* onecmd() returns is lost: a quit among them only silences the client
Run ==
  /\ Reading /\ depth < MaxDepth /\ depth' = depth + 1
  /\ UNCHANGED <<version, tables, stats, main, link, wire, broker, history>>
RunEnds ==
  /\ main # "ended" /\ depth > 0 /\ depth' = depth - 1
  /\ UNCHANGED <<version, tables, stats, main, link, wire, broker, history>>
Quit == main = "cmdloop" /\ depth = 0 /\ Leave

\* main(): the file of --file has been run
FileEnds == main = "file" /\ depth = 0 /\ Leave

Command ==
  \/ \E name \in Names : Subscribe(name) \/ Unsubscribe(name)
  \/ Send \/ SendRec \/ SendFile \/ SendReply \/ Ack \/ Nack \/ NackRaises
  \/ Begin \/ Commit \/ Abort \/ Stats \/ StatsRaises
  \/ Run \/ RunEnds \/ Quit \/ FileEnds \/ SendRaises

Over == main = "ended" /\ wire = <<>> /\ UNCHANGED vars
Next == Command \/ Handle \/ Lose \/ OnDisconnected \/ Over

\* The broker handles what it has been sent; nobody has to type anything.
Spec == Init /\ [][Next]_vars /\ WF_vars(Handle)

-----------------------------------------------------------------------------
(* Properties *)

\* When it has handled what is on its way, the broker has the subscriptions of
\* the client's table and, open, the client's transaction, if it is in one; and
\* no two subscriptions it knows of, also old ones, share their id.
InStep ==
  LET then == FoldLeft(Apply, broker, wire)
  IN link = "up" /\ main # "ended" =>
       /\ then.subs = {<<n, subscriptions[n]>> : n \in {m \in Names : subscriptions[m] # None}}
       /\ then.open = {transaction_id} \ {None}
       /\ \A s1, s2 \in broker.subs \cup then.subs : s1[2] = s2[2] => s1 = s2

Given(t) == {d[2] : d \in {x \in during : x[1] = t}}

\* "Any messages sent or acknowledged during a transaction will be handled
\* atomically" (__main__.py:449-451): all of them, after its COMMIT, or none.
Atomically ==
  \A t \in 1..begins :
    Given(t) \cap broker.handled # {} => t \in commits /\ Given(t) \subseteq broker.handled

\* What has been committed is handled, also when the client leaves at once,
\* unless the connection is lost.
CommitsArrive ==
  \A t \in 1..MaxBegins : t \in commits ~> Given(t) \subseteq broker.handled \/ link # "up"
=============================================================================
