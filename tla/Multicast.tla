------------------------------ MODULE Multicast ------------------------------
(***************************************************************************)
(* STOMP without a broker: stomp/adapter/multicast.py.  Every connection   *)
(* object is a member of a group that talks in datagrams; a member keeps   *)
(* its own subscriptions and transactions, hands the messages of its       *)
(* destinations to its listeners, and answers a receipt itself.  Left out: *)
(* ack() and nack(), whose datagrams no listener sees.                     *)
(*                                                                         *)
(* Application threads (Threads) call the methods of their member; each    *)
(* member has one receiver thread.  The application calls connect() once   *)
(* for a member: what a second call meets is in README.md.  The network is *)
(* external: it loses and reorders datagrams, and hands each one to every  *)
(* member, the sender included.                                            *)
(***************************************************************************)
EXTENDS Integers, Sequences, SequencesExt, TLC

CONSTANTS
  Members,       \* connection objects
  Threads,       \* application threads
  MemberOf,      \* the member whose methods a thread calls
  Uses,          \* the transactions a thread sends in, None for outside of all
  Transactions, Destinations, Ids, None,
  MaxMessages,   \* bound: calls of send()
  MaxBegins,     \* bound: transactions begun
  MaxRaises,     \* bound: exceptions on the receivers: of on_message, or of sendto()
  MaxFails       \* bound: frames of a commit() whose transmit() raises

ASSUME MulticastAssumption ==
  /\ MemberOf \in [Threads -> Members] /\ Uses \in [Threads -> SUBSET (Transactions \cup {None})]
  /\ MaxMessages \in Nat /\ MaxBegins \in Nat
  /\ MaxRaises \in Nat /\ MaxFails \in Nat
  /\ None \notin Destinations \cup Transactions \cup Nat

VARIABLES
  running,          \* BaseTransport.running
  sockets,          \* "never" made, "open", or closed and "gone"
  subscriptions,    \* MulticastTransport.subscriptions
  lists,            \* the list objects that begin() makes
  transactions,     \* MulticastConnection.transactions: the list of each, by its number
  pc,               \* step of a thread's call
  tx, batch, index, \* the transaction a thread commits, its list, how much of it is sent
  rpc, frame,       \* step of a member's receiver, and the frame it processes
  inbox,            \* datagrams under way to each member
  messages, raises, fails, \* calls that the bounds count
  accepted,         \* history: what send() took for a transaction since it began
  committed,        \* history: messages that a commit() is to send
  sent,             \* history: what a thread's last commit() sent
  again,            \* history: messages that a commit() had sent when it failed
  delivered         \* history: calls of on_message, per member and message

app      == <<subscriptions, lists, transactions, pc, tx, batch, index, messages>>
receiver == <<rpc, frame, raises, delivered>>
history  == <<accepted, committed, sent>>
failures == <<fails, again>>
vars == <<running, sockets, app, receiver, inbox, history, failures>>

Frames == [cmd : {"SEND", "RECEIPT"}, id : 1..MaxMessages,
           tx : Transactions \cup {None}, destination : Destinations \cup {None}]
Frame(cmd, id, t, destination) == [cmd |-> cmd, id |-> id, tx |-> t, destination |-> destination]

Init ==
  /\ running = [m \in Members |-> FALSE] /\ sockets = [m \in Members |-> "never"]
  /\ subscriptions = [m \in Members |-> [i \in Ids |-> None]]
  /\ lists = <<>> /\ transactions = [m \in Members |-> [t \in Transactions |-> None]]
  /\ pc = [t \in Threads |-> "idle"]
  /\ tx = [t \in Threads |-> None] /\ batch = tx /\ index = [t \in Threads |-> 0]
  /\ rpc = [m \in Members |-> "unborn"] /\ frame = [m \in Members |-> None]
  /\ inbox = [m \in Members |-> {}] /\ messages = 0 /\ raises = 0 /\ fails = 0
  /\ accepted = [m \in Members |-> [t \in Transactions |-> <<>>]]
  /\ committed = {} /\ again = {} /\ sent = [t \in Threads |-> <<>>]
  /\ delivered = [m \in Members |-> [id \in 1..MaxMessages |-> 0]]

Idle(t) == pc[t] = "idle"
locals == <<pc, tx, batch, index, sent>>

\* sendto(): the datagram f is on its way to every member that listens
Cast(f) == inbox' = [m \in Members |-> IF rpc[m] \in {"unborn", "done"} THEN inbox[m]
                                       ELSE inbox[m] \cup {f}]
\* self.socket is None before connect() and after disconnect()
CanSend(m) == sockets[m] = "open"

-----------------------------------------------------------------------------
(* connect() and disconnect() *)

Connect(t) ==
  LET m == MemberOf[t]
  IN /\ Idle(t) /\ rpc[m] = "unborn"
     /\ running' = [running EXCEPT ![m] = TRUE] /\ sockets' = [sockets EXCEPT ![m] = "open"]
     /\ rpc' = [rpc EXCEPT ![m] = "recv"]
     /\ UNCHANGED <<app, frame, raises, delivered, inbox, history, failures>>

\* stop() closes both sockets; Transport.stop() does not wait for the receiver,
\* since no CONNECTED ever comes and is_connected() is false
Stop(m) ==
  /\ running' = [running EXCEPT ![m] = FALSE] /\ sockets' = [sockets EXCEPT ![m] = "gone"]
\* For the same reason Protocol12.disconnect() sends nothing.  Before connect()
\* there is no receiver_socket to close: stop() raises.
Disconnect(t) ==
  /\ Idle(t) /\ sockets[MemberOf[t]] # "never" /\ Stop(MemberOf[t])
  /\ UNCHANGED <<app, receiver, inbox, history, failures>>

-----------------------------------------------------------------------------
(* Subscriptions and messages *)

Subscribe(t, id, destination) ==
  /\ Idle(t)
  /\ subscriptions' = [subscriptions EXCEPT ![MemberOf[t]][id] = destination]
  /\ UNCHANGED <<running, sockets, lists, transactions, locals, messages, receiver, inbox,
                 accepted, committed, failures>>

\* a KeyError for an id that is not there
Unsubscribe(t, id) ==
  /\ Idle(t) /\ subscriptions[MemberOf[t]][id] # None
  /\ subscriptions' = [subscriptions EXCEPT ![MemberOf[t]][id] = None]
  /\ UNCHANGED <<running, sockets, lists, transactions, locals, messages, receiver, inbox,
                 accepted, committed, failures>>

\* Mutant of Buffered: the transaction header is not looked at
BufferedNever(f) == FALSE
Buffered(f) == f.tx # None
\* Mutant of Kept: the last frame only
KeptLast(list, f) == <<f>>
Kept(list, f) == Append(list, f)
\* send_frame: a frame with a transaction is kept for its commit(); a call for a
\* transaction that has not begun has its listeners told of the error; every
\* message asks for a receipt
Send(t, transaction, destination) ==
  LET m == MemberOf[t]
      f == Frame("SEND", messages + 1, transaction, destination)
  IN /\ Idle(t) /\ messages < MaxMessages /\ messages' = messages + 1
     /\ \/ /\ ~Buffered(f) /\ UNCHANGED <<lists, accepted>>
           /\ IF CanSend(m) THEN Cast(f) ELSE UNCHANGED inbox
        \/ /\ Buffered(f) /\ UNCHANGED inbox
           /\ IF transactions[m][transaction] = None THEN UNCHANGED <<lists, accepted>>
              ELSE /\ lists' = [lists EXCEPT ![transactions[m][transaction]] = Kept(@, f)]
                   /\ accepted' = [accepted EXCEPT ![m][transaction] = Append(@, f)]
     /\ UNCHANGED <<running, sockets, subscriptions, transactions, locals, receiver, committed,
                    failures>>

-----------------------------------------------------------------------------
(* Transactions *)

\* begin() of a transaction that has begun raises: the connection has no
\* notify() for the on_error that it wants to call
Begin(t, transaction) ==
  LET m == MemberOf[t]
  IN /\ Idle(t) /\ Len(lists) < MaxBegins /\ transactions[m][transaction] = None
     /\ lists' = Append(lists, <<>>)
     /\ transactions' = [transactions EXCEPT ![m][transaction] = Len(lists')]
     /\ UNCHANGED <<running, sockets, subscriptions, locals, messages, receiver, inbox,
                    accepted, committed, failures>>

\* Mutant of Taken: commit() takes the transaction before it sends it
TakenFirst(m, transaction) == transactions' = [transactions EXCEPT ![m][transaction] = None]
Taken(m, transaction) == UNCHANGED transactions
\* commit() of a transaction that has not begun raises, for the same reason
Commit(t, transaction) ==
  LET m == MemberOf[t]
  IN /\ Idle(t) /\ transactions[m][transaction] # None
     /\ pc' = [pc EXCEPT ![t] = "commit"]
     /\ tx' = [tx EXCEPT ![t] = transaction]
     /\ batch' = [batch EXCEPT ![t] = transactions[m][transaction]]
     /\ committed' = committed \cup {f.id : f \in ToSet(accepted[m][transaction])}
     /\ Taken(m, transaction)
     /\ UNCHANGED <<running, sockets, subscriptions, lists, index, sent, messages, receiver,
                    inbox, accepted, failures>>
Leave(t) ==
  /\ pc' = [pc EXCEPT ![t] = "idle"] /\ tx' = [tx EXCEPT ![t] = None]
  /\ batch' = [batch EXCEPT ![t] = None] /\ index' = [index EXCEPT ![t] = 0]
  /\ sent' = [sent EXCEPT ![t] = <<>>]
\* the next frame; one that cannot be sent ends the call, and the transaction
\* stays: the socket is gone, or transmit() raises (sendto(), on_send, encode)
CommitFrame(t) ==
  LET f == lists[batch[t]][index[t] + 1]
  IN /\ pc[t] = "commit" /\ index[t] < Len(lists[batch[t]])
     /\ \/ /\ CanSend(MemberOf[t]) /\ Cast(f) /\ index' = [index EXCEPT ![t] = @ + 1]
           /\ sent' = [sent EXCEPT ![t] = Append(@, f)] /\ UNCHANGED <<pc, tx, batch, failures>>
        \/ ~CanSend(MemberOf[t]) /\ Leave(t) /\ UNCHANGED <<inbox, failures>>
        \/ /\ CanSend(MemberOf[t]) /\ Leave(t) /\ UNCHANGED inbox
           /\ fails < MaxFails /\ fails' = fails + 1
           /\ again' = again \cup {g.id : g \in ToSet(sent[t])}
     /\ UNCHANGED <<running, sockets, subscriptions, lists, transactions, messages, receiver,
                    accepted, committed>>

\* Mutant of Forget: nothing is deleted
ForgetNothing(m, transaction) == UNCHANGED <<transactions, accepted>>
\* del self.transactions[trans]: a KeyError when it is not there
Forget(m, transaction) ==
  /\ transactions' = [transactions EXCEPT ![m][transaction] = None]
  /\ accepted' = [accepted EXCEPT ![m][transaction] = <<>>]
CommitEnd(t) ==
  /\ pc[t] = "commit" /\ index[t] = Len(lists[batch[t]])
  /\ Forget(MemberOf[t], tx[t]) /\ Leave(t)
  /\ UNCHANGED <<running, sockets, subscriptions, lists, messages, receiver, inbox, committed,
                 failures>>
Abort(t, transaction) ==
  /\ Idle(t) /\ transactions[MemberOf[t]][transaction] # None /\ Forget(MemberOf[t], transaction)
  /\ UNCHANGED <<running, sockets, subscriptions, lists, locals, messages, receiver, inbox,
                 committed, failures>>

-----------------------------------------------------------------------------
(* The receiver of a member *)

Goto(m, label) == rpc' = [rpc EXCEPT ![m] = label] /\ UNCHANGED sockets
\* the receiver ends: cleanup() closes the socket that sends
End(m) ==
  /\ rpc' = [rpc EXCEPT ![m] = "done"] /\ sockets' = [sockets EXCEPT ![m] = "gone"]
  /\ inbox' = [inbox EXCEPT ![m] = {}]

\* A recv() that has begun outlives the close() of its socket; one that begins
\* after it fails.  What comes after the end of running is dropped.
RRecv(m) ==
  /\ rpc[m] = "recv"
  /\ \/ sockets[m] # "open" /\ End(m) /\ UNCHANGED frame
     \/ \E f \in inbox[m] :
          /\ running[m] /\ inbox' = [inbox EXCEPT ![m] = @ \ {f}]
          /\ frame' = [frame EXCEPT ![m] = f] /\ Goto(m, "process")
  /\ UNCHANGED <<running, app, raises, delivered, history, failures>>

Subscribed(m, destination) == \E id \in Ids : subscriptions[m][id] = destination
Delivers(m) == frame[m].cmd = "SEND" /\ Subscribed(m, frame[m].destination)
\* Mutant of Answers: a message is answered wherever it comes
AnswersAll(m) == frame[m].cmd = "SEND"
Answers(m) == Delivers(m)
\* process_frame: on_message, and then the receipt; a listener that raises ends
\* the receiver
RProcess(m) ==
  /\ rpc[m] = "process"
  /\ \/ /\ Goto(m, IF Answers(m) THEN "receipt" ELSE "recv")
        /\ frame' = [frame EXCEPT ![m] = IF Answers(m) THEN @ ELSE None]
        /\ delivered' = IF Delivers(m) THEN [delivered EXCEPT ![m][frame[m].id] = @ + 1]
                        ELSE delivered
        /\ UNCHANGED <<raises, inbox>>
     \/ /\ Delivers(m) /\ raises < MaxRaises /\ raises' = raises + 1
        /\ End(m) /\ UNCHANGED <<delivered, frame>>
  /\ UNCHANGED <<running, app, history, failures>>

\* without a socket, or by raising, the send() of the receipt ends the receiver
RReceipt(m) ==
  /\ rpc[m] = "receipt" /\ frame' = [frame EXCEPT ![m] = None]
  /\ \/ /\ CanSend(m) /\ Goto(m, "recv") /\ Cast(Frame("RECEIPT", frame[m].id, None, None))
        /\ UNCHANGED raises
     \/ ~CanSend(m) /\ End(m) /\ UNCHANGED raises
     \/ CanSend(m) /\ End(m) /\ raises < MaxRaises /\ raises' = raises + 1
  /\ UNCHANGED <<running, app, delivered, history, failures>>

Next ==
  \/ \E t \in Threads :
       \/ Connect(t) \/ Disconnect(t) \/ CommitFrame(t) \/ CommitEnd(t)
       \/ \E id \in Ids : Unsubscribe(t, id) \/ \E d \in Destinations : Subscribe(t, id, d)
       \/ \E d \in Destinations, x \in Uses[t] : Send(t, x, d)
       \/ \E x \in Uses[t] \ {None} : Begin(t, x) \/ Commit(t, x) \/ Abort(t, x)
  \/ \E m \in Members : RRecv(m) \/ RProcess(m) \/ RReceipt(m)
Spec == Init /\ [][Next]_vars

-----------------------------------------------------------------------------
(* Properties *)

\* Whoever commits a transaction still has it, and its list, until all is sent.
TypeOK ==
  /\ running \in [Members -> BOOLEAN]
  /\ sockets \in [Members -> {"never", "open", "gone"}]
  /\ subscriptions \in [Members -> [Ids -> Destinations \cup {None}]]
  /\ lists \in Seq(Seq(Frames)) /\ \A m \in Members : inbox[m] \subseteq Frames
  /\ pc \in [Threads -> {"idle", "commit"}]
  /\ rpc \in [Members -> {"unborn", "recv", "process", "receipt", "done"}]
  /\ transactions \in [Members -> [Transactions -> (DOMAIN lists) \cup {None}]]
  /\ \A t \in Threads : pc[t] = "commit" =>
       batch[t] = transactions[MemberOf[t]][tx[t]] /\ index[t] \in 0..Len(lists[batch[t]])

\* The receipt of a message says that the listeners of some member had it
\* (process_frame answers after notify(), and not at all when nobody here
\* subscribes): whatever the network and the members do between.
ReceiptMeansDelivered ==
  \A m \in Members : \A f \in inbox[m] :
    f.cmd = "RECEIPT" => \E other \in Members : delivered[other][f.id] > 0

\* No message of a transaction leaves its member before commit() is called for
\* it: not one that is aborted, nor one that comes too late.
OnlyCommitted ==
  \A m \in Members : \A f \in inbox[m] : f.tx # None /\ f.cmd = "SEND" => f.id \in committed

\* Whatever the threads of a member do in the meantime, no message reaches the
\* listeners of a member twice; but for those that a commit() had sent when
\* transmit() raised, which the next commit() of the transaction sends again.
DeliveredOnce ==
  \A m \in Members : \A id \in 1..MaxMessages : id \notin again => delivered[m][id] <= 1

\* A commit() that returns has sent all that send() took for the transaction,
\* once and in order: for threads that share no transaction.
CommitIsWhole ==
  [][\A t \in Threads :
       pc[t] = "commit" /\ pc'[t] = "idle" /\ transactions'[MemberOf[t]][tx[t]] = None
         => sent[t] = accepted[MemberOf[t]][tx[t]]]_vars
=============================================================================
