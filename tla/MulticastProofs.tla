---------------------------- MODULE MulticastProofs ----------------------------
(***************************************************************************)
(* Theorems about Multicast for every number of members, threads,          *)
(* transactions and messages.  That a receipt means a delivery holds       *)
(* however the threads share their transactions; the rest holds when no    *)
(* two threads of a member share one (Unshared): the lists that send()     *)
(* fills and commit() sends have no lock.                                  *)
(*                                                                         *)
(* What the runs check is not inductive by itself.  MInv adds where a      *)
(* message may be: in the list of its transaction, or under way, or        *)
(* delivered, and never in two of these places.                            *)
(***************************************************************************)
EXTENDS Multicast, SequenceTheorems, TLAPS

\* the frames that send() makes
Messages == {f \in Frames : f.cmd = "SEND"}

Typed ==
  /\ running \in [Members -> BOOLEAN]
  /\ sockets \in [Members -> {"never", "open", "gone"}]
  /\ subscriptions \in [Members -> [Ids -> Destinations \cup {None}]]
  /\ inbox \in [Members -> SUBSET Frames] /\ lists \in Seq(Seq(Messages))
  /\ pc \in [Threads -> {"idle", "commit"}] /\ index \in [Threads -> Nat]
  /\ tx \in [Threads -> Transactions \cup {None}]
  /\ batch \in [Threads -> Nat \cup {None}] /\ sent \in [Threads -> Seq(Messages)]
  /\ rpc \in [Members -> {"unborn", "recv", "process", "receipt", "done"}]
  /\ frame \in [Members -> Frames \cup {None}]
  /\ messages \in 0..MaxMessages /\ raises \in Nat
  /\ delivered \in [Members -> [1..MaxMessages -> Nat]]
  /\ transactions \in [Members -> [Transactions -> (1..Len(lists)) \cup {None}]]
  /\ accepted \in [Members -> [Transactions -> Seq(Messages)]]
\* a thread that commits has a transaction and a list, a receiver that works has a frame
Busy ==
  /\ \A t \in Threads : pc[t] = "commit" => batch[t] \in 1..Len(lists) /\ tx[t] \in Transactions
  /\ \A m \in Members : rpc[m] \in {"process", "receipt"} => frame[m] \in Frames

-----------------------------------------------------------------------------
(* Operators *)

\* Two lists are the lists of one call of send() more.
LEMMA Longer ==
  ASSUME NEW S, NEW ls \in Seq(Seq(S)), NEW k \in 1..Len(ls), NEW f \in S
  PROVE  LET more == [ls EXCEPT ![k] = Append(@, f)]
         IN more \in Seq(Seq(S)) /\ Len(more) = Len(ls)
OBVIOUS

\* A list is added to the lists.
LEMMA OneMore ==
  ASSUME NEW S, NEW ls \in Seq(Seq(S))
  PROVE  Append(ls, <<>>) \in Seq(Seq(S)) /\ Len(Append(ls, <<>>)) = Len(ls) + 1
OBVIOUS

\* A call of on_message is counted for its member and its message, and for no other.
LEMMA OneCallMore ==
  ASSUME NEW D, NEW g \in [Members -> [D -> Nat]], NEW m \in Members, NEW id \in D,
         NEW h, h = [g EXCEPT ![m][id] = @ + 1]
  PROVE  /\ h \in [Members -> [D -> Nat]] /\ h[m][id] = g[m][id] + 1
         /\ \A n \in Members, i \in D : n # m \/ i # id => h[n][i] = g[n][i]
<1> DEFINE row == [g[m] EXCEPT ![id] = @ + 1]
<1>1. row \in [D -> Nat] /\ row[id] = g[m][id] + 1
  OBVIOUS
<1>2. h = [g EXCEPT ![m] = row]
  OBVIOUS
<1> QED
  BY <1>1, <1>2

\* The same of the history that a receiver keeps.
LEMMA CalledOnce ==
  ASSUME Typed, NEW m \in Members, NEW id \in 1..MaxMessages,
         delivered' = [delivered EXCEPT ![m][id] = @ + 1]
  PROVE  /\ delivered' \in [Members -> [1..MaxMessages -> Nat]]
         /\ delivered'[m][id] = delivered[m][id] + 1 /\ delivered[m][id] \in Nat
         /\ \A n \in Members, i \in 1..MaxMessages :
              n # m \/ i # id => delivered'[n][i] = delivered[n][i]
<1> DEFINE D == 1..MaxMessages
<1>1. delivered \in [Members -> [D -> Nat]] /\ id \in D
  BY DEF Typed
<1> HIDE DEF D
<1>2. /\ delivered' \in [Members -> [D -> Nat]] /\ delivered'[m][id] = delivered[m][id] + 1
      /\ \A n \in Members, i \in D : n # m \/ i # id => delivered'[n][i] = delivered[n][i]
  BY <1>1, OneCallMore
<1>3. delivered[m][id] \in Nat
  BY <1>1
<1> QED
  BY <1>2, <1>3 DEF D

\* A frame of the list that a thread commits is a message.
LEMMA NextFrame ==
  ASSUME Typed, Busy, NEW t \in Threads, pc[t] = "commit", index[t] < Len(lists[batch[t]])
  PROVE  lists[batch[t]][index[t] + 1] \in Messages
<1>1. lists[batch[t]] \in Seq(Messages)
  BY DEF Typed, Busy
<1>2. index[t] + 1 \in 1..Len(lists[batch[t]])
  BY <1>1 DEF Typed
<1> QED
  BY <1>1, <1>2

\* A frame that is cast is typed on its way to every member.
LEMMA CastTyped ==
  ASSUME inbox \in [Members -> SUBSET Frames], NEW f \in Frames, Cast(f)
  PROVE  inbox' \in [Members -> SUBSET Frames]
BY DEF Cast

\* The first state is typed.
LEMMA TypedInit == Init => Typed /\ Busy
<1> SUFFICES ASSUME Init PROVE Typed /\ Busy
  OBVIOUS
<1> USE MulticastAssumption DEF Init
<1>1. lists \in Seq(Seq(Messages)) /\ <<>> \in Seq(Messages)
  OBVIOUS
<1>2. sent \in [Threads -> Seq(Messages)]
  BY <1>1
<1>3. accepted \in [Members -> [Transactions -> Seq(Messages)]]
  BY <1>1
<1>4. Busy
  BY DEF Busy
<1> QED
  BY <1>1, <1>2, <1>3, <1>4 DEF Typed

\* Every step of a thread keeps the types.
LEMMA TypedThread ==
  ASSUME Typed, Busy, NEW t \in Threads,
         \/ Connect(t) \/ Disconnect(t) \/ CommitFrame(t) \/ CommitEnd(t)
         \/ \E id \in Ids : Unsubscribe(t, id) \/ \E d \in Destinations : Subscribe(t, id, d)
         \/ \E d \in Destinations, x \in Uses[t] : Send(t, x, d)
         \/ \E x \in Uses[t] \ {None} : Begin(t, x) \/ Commit(t, x) \/ Abort(t, x)
  PROVE  Typed' /\ Busy'
<1> USE MulticastAssumption
<1> DEFINE m == MemberOf[t]
<1>m. m \in Members
  OBVIOUS
<1>1. ASSUME Connect(t) PROVE Typed' /\ Busy'
  BY <1>1, <1>m DEF Typed, Busy, Connect, app, history
<1>2. ASSUME Disconnect(t) PROVE Typed' /\ Busy'
  BY <1>2, <1>m DEF Typed, Busy, Disconnect, Stop, app, receiver, history
<1>3. ASSUME CommitFrame(t) PROVE Typed' /\ Busy'
  <2> DEFINE f == lists[batch[t]][index[t] + 1]
  <2>1. f \in Messages /\ f \in Frames
    BY <1>3, NextFrame DEF CommitFrame, Messages
  <2>2. /\ UNCHANGED <<running, sockets, subscriptions, lists, transactions, messages, receiver,
                       accepted, committed>>
        /\ pc[t] = "commit"
    BY <1>3 DEF CommitFrame
  <2>3. ASSUME Leave(t), UNCHANGED inbox PROVE Typed' /\ Busy'
    BY <2>2, <2>3, EmptySeq DEF Typed, Busy, Leave, receiver
  <2>4. CASE /\ Cast(f) /\ index' = [index EXCEPT ![t] = @ + 1]
             /\ sent' = [sent EXCEPT ![t] = Append(@, f)] /\ UNCHANGED <<pc, tx, batch>>
    <3>1. inbox' \in [Members -> SUBSET Frames]
      BY <2>1, <2>4, CastTyped DEF Typed
    <3>2. sent' \in [Threads -> Seq(Messages)]
      BY <2>1, <2>4, AppendProperties DEF Typed
    <3>3. index' \in [Threads -> Nat]
      BY <2>4 DEF Typed
    <3>4. UNCHANGED <<running, sockets, subscriptions, lists, transactions, messages, rpc, frame,
                      raises, delivered, accepted, pc, tx, batch>>
      BY <2>2, <2>4 DEF receiver
    <3>5. Typed'
      BY <3>1, <3>2, <3>3, <3>4 DEF Typed
    <3> QED
      BY <3>4, <3>5 DEF Busy
  <2> QED
    BY <1>3, <2>3, <2>4 DEF CommitFrame
<1>4. ASSUME CommitEnd(t) PROVE Typed' /\ Busy'
  BY <1>4, <1>m, EmptySeq DEF Typed, Busy, CommitEnd, Forget, Leave, receiver
<1>5. ASSUME NEW id \in Ids, Unsubscribe(t, id) PROVE Typed' /\ Busy'
  BY <1>5, <1>m DEF Typed, Busy, Unsubscribe, locals, receiver
<1>6. ASSUME NEW id \in Ids, NEW d \in Destinations, Subscribe(t, id, d) PROVE Typed' /\ Busy'
  BY <1>6, <1>m DEF Typed, Busy, Subscribe, locals, receiver
<1>7. ASSUME NEW d \in Destinations, NEW x \in Uses[t], Send(t, x, d) PROVE Typed' /\ Busy'
  <2> DEFINE f == Frame("SEND", messages + 1, x, d)
  <2>1. f \in Messages /\ f \in Frames /\ messages' \in 0..MaxMessages
    BY <1>7 DEF Typed, Send, Frame, Messages, Frames
  <2>2. UNCHANGED <<running, sockets, subscriptions, transactions, locals, receiver, committed>>
    BY <1>7 DEF Send
  <2>3. inbox' \in [Members -> SUBSET Frames]
    BY <1>7, <2>1, CastTyped DEF Send, Typed
  <2>4. lists' \in Seq(Seq(Messages)) /\ Len(lists') = Len(lists)
    <3>1. CASE UNCHANGED lists
      BY <3>1 DEF Typed
    <3>2. CASE lists' = [lists EXCEPT ![transactions[m][x]] = Append(@, f)]
               /\ transactions[m][x] # None /\ x \in Transactions
      <4>1. transactions[m][x] \in 1..Len(lists)
        BY <3>2, <1>m DEF Typed
      <4> QED
        BY <2>1, <3>2, <4>1, Longer DEF Typed
    <3> QED
      BY <1>7, <3>1, <3>2 DEF Send, Buffered, Kept, Frame
  <2>5. accepted' \in [Members -> [Transactions -> Seq(Messages)]]
    <3>1. CASE UNCHANGED accepted
      BY <3>1 DEF Typed
    <3>2. CASE accepted' = [accepted EXCEPT ![m][x] = Append(@, f)] /\ x \in Transactions
      <4>1. Append(accepted[m][x], f) \in Seq(Messages)
        BY <2>1, <3>2, <1>m, AppendProperties DEF Typed
      <4> QED
        BY <3>2, <4>1, <1>m DEF Typed
    <3> QED
      BY <1>7, <3>1, <3>2 DEF Send, Buffered, Frame
  <2> QED
    BY <2>1, <2>2, <2>3, <2>4, <2>5 DEF Typed, Busy, locals, receiver
<1>8. ASSUME NEW x \in Uses[t] \ {None}, Begin(t, x) PROVE Typed' /\ Busy'
  <2>1. lists' \in Seq(Seq(Messages)) /\ Len(lists') = Len(lists) + 1 /\ Len(lists) \in Nat
    BY <1>8, OneMore, LenProperties DEF Begin, Typed
  <2>2. transactions' \in [Members -> [Transactions -> (1..Len(lists')) \cup {None}]]
    BY <1>8, <2>1, <1>m DEF Begin, Typed
  <2>3. UNCHANGED <<running, sockets, subscriptions, pc, tx, batch, index, sent, messages, rpc,
                    frame, raises, delivered, inbox, accepted>>
    BY <1>8 DEF Begin, locals, receiver
  <2>4. Typed'
    BY <2>1, <2>2, <2>3 DEF Typed
  <2>5. Busy'
    BY <2>1, <2>3 DEF Busy
  <2> QED
    BY <2>4, <2>5
<1>9. ASSUME NEW x \in Uses[t] \ {None}, Commit(t, x) PROVE Typed' /\ Busy'
  <2>1. x \in Transactions /\ transactions[m][x] \in 1..Len(lists) /\ Len(lists) \in Nat
    BY <1>9, <1>m, LenProperties DEF Commit, Typed
  <2>2. /\ pc' = [pc EXCEPT ![t] = "commit"] /\ tx' = [tx EXCEPT ![t] = x]
        /\ batch' = [batch EXCEPT ![t] = transactions[m][x]]
        /\ UNCHANGED <<running, sockets, subscriptions, lists, transactions, index, sent, messages,
                       rpc, frame, raises, delivered, inbox, accepted>>
    BY <1>9 DEF Commit, Taken, receiver
  <2>6. /\ pc' \in [Threads -> {"idle", "commit"}] /\ tx' \in [Threads -> Transactions \cup {None}]
        /\ batch' \in [Threads -> Nat \cup {None}]
    BY <2>1, <2>2 DEF Typed
  <2>3. Typed'
    BY <2>2, <2>6 DEF Typed
  <2>4. DOMAIN pc = Threads /\ DOMAIN tx = Threads /\ DOMAIN batch = Threads
    BY DEF Typed
  <2>5. ASSUME NEW u \in Threads, pc'[u] = "commit"
        PROVE  batch'[u] \in 1..Len(lists') /\ tx'[u] \in Transactions
    <3>1. CASE u = t
      BY <2>1, <2>2, <2>4, <3>1
    <3>2. CASE u # t
      BY <2>2, <2>4, <2>5, <3>2 DEF Busy
    <3> QED
      BY <3>1, <3>2
  <2> QED
    BY <2>2, <2>3, <2>5 DEF Busy
<1>10. ASSUME NEW x \in Uses[t] \ {None}, Abort(t, x) PROVE Typed' /\ Busy'
  BY <1>10, <1>m, EmptySeq DEF Typed, Busy, Abort, Forget, locals, receiver
<1> QED
  BY <1>1, <1>2, <1>3, <1>4, <1>5, <1>6, <1>7, <1>8, <1>9, <1>10

\* Every step of a receiver keeps the types.
LEMMA TypedReceiver ==
  ASSUME Typed, Busy, NEW m \in Members, RRecv(m) \/ RProcess(m) \/ RReceipt(m)
  PROVE  Typed' /\ Busy'
<1>1. ASSUME RRecv(m) PROVE Typed' /\ Busy'
  <2>1. UNCHANGED <<running, subscriptions, lists, transactions, pc, tx, batch, index, messages,
                    raises, delivered, accepted, sent>>
    BY <1>1 DEF RRecv, app, history
  <2>2. CASE End(m) /\ UNCHANGED frame
    BY <2>1, <2>2 DEF Typed, Busy, End
  <2>3. CASE \E f \in inbox[m] :
               /\ inbox' = [inbox EXCEPT ![m] = @ \ {f}]
               /\ frame' = [frame EXCEPT ![m] = f] /\ Goto(m, "process")
    <3>1. PICK f \in inbox[m] :
               /\ inbox' = [inbox EXCEPT ![m] = @ \ {f}]
               /\ frame' = [frame EXCEPT ![m] = f] /\ Goto(m, "process")
      BY <2>3
    <3>2. f \in Frames
      BY DEF Typed
    <3>3. Typed'
      BY <2>1, <3>1, <3>2 DEF Typed, Goto
    <3> QED
      BY <2>1, <3>1, <3>2 DEF Typed, Busy, Goto
  <2> QED
    BY <1>1, <2>2, <2>3 DEF RRecv
<1>2. ASSUME RProcess(m) PROVE Typed' /\ Busy'
  <2>1. UNCHANGED <<running, subscriptions, lists, transactions, pc, tx, batch, index, messages,
                    accepted, sent>>
    BY <1>2 DEF RProcess, app, history
  <2>2. CASE End(m) /\ UNCHANGED <<delivered, frame>> /\ raises' = raises + 1
    BY <2>1, <2>2 DEF Typed, Busy, End
  <2>3. CASE /\ Goto(m, IF Answers(m) THEN "receipt" ELSE "recv")
             /\ frame' = [frame EXCEPT ![m] = IF Answers(m) THEN @ ELSE None]
             /\ delivered' = IF Delivers(m) THEN [delivered EXCEPT ![m][frame[m].id] = @ + 1]
                             ELSE delivered
             /\ UNCHANGED <<raises, inbox>>
    <3>1. frame[m] \in Frames /\ frame[m].id \in 1..MaxMessages
      BY <1>2 DEF Busy, RProcess, Frames
    <3>2. delivered' \in [Members -> [1..MaxMessages -> Nat]]
      <4>1. CASE UNCHANGED delivered
        BY <4>1 DEF Typed
      <4>2. CASE delivered' = [delivered EXCEPT ![m][frame[m].id] = @ + 1]
        BY <3>1, <4>2, CalledOnce
      <4> QED
        BY <2>3, <4>1, <4>2
    <3>3. /\ frame' \in [Members -> Frames \cup {None}]
          /\ rpc' \in [Members -> {"unborn", "recv", "process", "receipt", "done"}]
          /\ UNCHANGED <<sockets, raises, inbox>>
      BY <2>3, <3>1 DEF Typed, Goto
    <3>4. Typed'
      BY <2>1, <3>2, <3>3 DEF Typed
    <3>5. rpc'[m] = "receipt" => Answers(m)
      BY <2>3 DEF Goto, Typed
    <3>6. Busy'
      BY <2>1, <2>3, <3>1, <3>5 DEF Typed, Busy, Goto
    <3> QED
      BY <3>4, <3>6
  <2> QED
    BY <1>2, <2>2, <2>3 DEF RProcess
<1>3. ASSUME RReceipt(m) PROVE Typed' /\ Busy'
  <2>1. Frame("RECEIPT", frame[m].id, None, None) \in Frames
    BY <1>3 DEF Busy, RReceipt, Frames, Frame
  <2>2. inbox' \in [Members -> SUBSET Frames]
    BY <1>3, <2>1, CastTyped DEF Typed, RReceipt, End
  <2>3. UNCHANGED <<running, subscriptions, lists, transactions, pc, tx, batch, index, messages,
                    delivered, accepted, sent>>
    BY <1>3 DEF RReceipt, app, history
  <2>8. raises' \in Nat
    BY <1>3 DEF RReceipt, Typed
  <2>4. /\ \E l \in {"recv", "done"} : rpc' = [rpc EXCEPT ![m] = l]
        /\ sockets' \in {sockets, [sockets EXCEPT ![m] = "gone"]}
        /\ frame' = [frame EXCEPT ![m] = None]
    BY <1>3 DEF RReceipt, Goto, End
  <2>5. Busy'
    BY <2>3, <2>4 DEF Typed, Busy
  <2>6. /\ rpc' \in [Members -> {"unborn", "recv", "process", "receipt", "done"}]
        /\ sockets' \in [Members -> {"never", "open", "gone"}]
        /\ frame' \in [Members -> Frames \cup {None}]
    BY ZenonT(30), <2>4 DEF Typed
  <2>7. Typed'
    BY <2>2, <2>3, <2>6, <2>8 DEF Typed
  <2> QED
    BY <2>5, <2>7
<1> QED
  BY <1>1, <1>2, <1>3

\* The types hold in every state.
LEMMA TypedAlways == Spec => [](Typed /\ Busy)
<1>1. Typed /\ Busy /\ [Next]_vars => (Typed /\ Busy)'
  <2> SUFFICES ASSUME Typed, Busy, [Next]_vars PROVE Typed' /\ Busy'
    OBVIOUS
  <2>1. CASE UNCHANGED vars
    BY <2>1 DEF Typed, Busy, vars, app, receiver, history
  <2>2. CASE Next
    BY <2>2, TypedThread, TypedReceiver DEF Next
  <2> QED
    BY <2>1, <2>2
<1> QED
  BY <1>1, TypedInit, PTL DEF Spec

-----------------------------------------------------------------------------
(* A receipt means a delivery, however the threads share transactions *)

\* the receiver answers a message that it has delivered
ReceiptsOK ==
  /\ \A m \in Members : rpc[m] = "receipt" => delivered[m][frame[m].id] > 0
  /\ ReceiptMeansDelivered

\* Whatever a thread does, the messages that it sends are no receipts.
LEMMA ReceiptsThread ==
  ASSUME Typed, Busy, ReceiptsOK, NEW t \in Threads,
         \/ Connect(t) \/ Disconnect(t) \/ CommitFrame(t) \/ CommitEnd(t)
         \/ \E id \in Ids : Unsubscribe(t, id) \/ \E d \in Destinations : Subscribe(t, id, d)
         \/ \E d \in Destinations, x \in Uses[t] : Send(t, x, d)
         \/ \E x \in Uses[t] \ {None} : Begin(t, x) \/ Commit(t, x) \/ Abort(t, x)
  PROVE  ReceiptsOK'
<1>1. CASE UNCHANGED <<receiver, inbox>>
  BY <1>1 DEF ReceiptsOK, ReceiptMeansDelivered, receiver
<1>2. CASE Connect(t)
  <2>1. /\ UNCHANGED <<frame, delivered, inbox>>
        /\ \A m \in Members : rpc'[m] = "receipt" => rpc[m] = "receipt"
    BY <1>2 DEF Connect, Typed
  <2> QED
    BY <2>1 DEF ReceiptsOK, ReceiptMeansDelivered
<1>3. ASSUME NEW f \in Messages, Cast(f), UNCHANGED receiver
      PROVE  ReceiptsOK'
  <2>1. \A m \in Members : \A g \in inbox'[m] : g \in inbox[m] \/ g.cmd # "RECEIPT"
    BY <1>3 DEF Cast, Messages
  <2> QED
    BY <1>3, <2>1 DEF ReceiptsOK, ReceiptMeansDelivered, receiver
<1>4. CASE CommitFrame(t)
  <2>1. lists[batch[t]][index[t] + 1] \in Messages /\ UNCHANGED receiver
    BY <1>4, NextFrame DEF CommitFrame
  <2> QED
    BY <1>1, <1>3, <1>4, <2>1 DEF CommitFrame
<1>5. ASSUME NEW d \in Destinations, NEW x \in Uses[t], Send(t, x, d) PROVE ReceiptsOK'
  <2>1. Frame("SEND", messages + 1, x, d) \in Messages /\ UNCHANGED receiver
    BY <1>5, MulticastAssumption DEF Typed, Send, Frame, Messages, Frames
  <2> QED
    BY <1>1, <1>3, <1>5, <2>1 DEF Send
<1> QED
  BY <1>1, <1>2, <1>4, <1>5 DEF Disconnect, CommitEnd, Unsubscribe, Subscribe, Begin, Commit, Abort

\* A member answers what it has delivered, and on_message is called, never called off.
LEMMA ReceiptsReceiver ==
  ASSUME Typed, Busy, ReceiptsOK, NEW m \in Members, RRecv(m) \/ RProcess(m) \/ RReceipt(m)
  PROVE  ReceiptsOK'
<1>1. CASE RRecv(m)
  <2>1. /\ UNCHANGED delivered
        /\ \A n \in Members : inbox'[n] \subseteq inbox[n]
        /\ \A n \in Members : rpc'[n] = "receipt" => rpc[n] = "receipt" /\ n # m
    <3>1. UNCHANGED delivered /\ \A n \in Members : inbox'[n] \subseteq inbox[n]
      <4>1. inbox' = [inbox EXCEPT ![m] = {}] \/ \E f : inbox' = [inbox EXCEPT ![m] = @ \ {f}]
        BY <1>1 DEF RRecv, End
      <4>2. UNCHANGED delivered
        BY <1>1 DEF RRecv
      <4> QED
        BY <4>1, <4>2 DEF Typed
    <3>2. rpc' = [rpc EXCEPT ![m] = "done"] \/ rpc' = [rpc EXCEPT ![m] = "process"]
      BY <1>1 DEF RRecv, End, Goto
    <3> QED
      BY <3>1, <3>2 DEF Typed
  <2>2. \A n \in Members : n # m => frame'[n] = frame[n]
    <3>1. frame' = frame \/ \E f \in inbox[m] : frame' = [frame EXCEPT ![m] = f]
      BY <1>1 DEF RRecv
    <3> QED
      BY <3>1 DEF Typed
  <2> QED
    BY <2>1, <2>2 DEF ReceiptsOK, ReceiptMeansDelivered
<1>2. CASE RProcess(m)
  <2> DEFINE id == frame[m].id
  <2>1. frame[m] \in Frames /\ id \in 1..MaxMessages
    BY <1>2 DEF Busy, RProcess, Frames
  <2>2. \A n \in Members : inbox'[n] \subseteq inbox[n]
    BY <1>2 DEF RProcess, End, Typed
  <2>3. \A n \in Members, i \in 1..MaxMessages : delivered[n][i] > 0 => delivered'[n][i] > 0
    <3>1. CASE UNCHANGED delivered
      BY <3>1
    <3>2. CASE delivered' = [delivered EXCEPT ![m][id] = @ + 1]
      <4> HIDE DEF id
      <4>1. /\ delivered'[m][id] = delivered[m][id] + 1 /\ delivered[m][id] \in Nat
            /\ \A n \in Members, i \in 1..MaxMessages :
                 n # m \/ i # id => delivered'[n][i] = delivered[n][i]
        BY ZenonT(30), <2>1, <3>2, CalledOnce
      <4> QED
        BY <4>1
    <3> QED
      BY <1>2, <3>1, <3>2 DEF RProcess
  <2>4. rpc'[m] = "receipt" => frame'[m] = frame[m] /\ delivered'[m][id] > 0
    <3> SUFFICES ASSUME rpc'[m] = "receipt" PROVE frame'[m] = frame[m] /\ delivered'[m][id] > 0
      OBVIOUS
    <3>1. Answers(m) /\ frame' = [frame EXCEPT ![m] = IF Answers(m) THEN @ ELSE None]
          /\ delivered' = IF Delivers(m) THEN [delivered EXCEPT ![m][id] = @ + 1] ELSE delivered
      BY <1>2 DEF RProcess, Goto, End, Typed
    <3>2. delivered' = [delivered EXCEPT ![m][id] = @ + 1]
      BY <3>1 DEF Answers
    <3>3. delivered'[m][id] = delivered[m][id] + 1 /\ delivered[m][id] \in Nat
      BY <2>1, <3>2, CalledOnce
    <3> QED
      BY <3>1, <3>3 DEF Typed
  <2>5. \A n \in Members : n # m => frame'[n] = frame[n] /\ rpc'[n] = rpc[n]
    BY <1>2 DEF RProcess, Goto, End, Typed
  <2>6. ReceiptMeansDelivered'
    <3> SUFFICES ASSUME NEW n \in Members, NEW f \in inbox'[n], f.cmd = "RECEIPT"
                 PROVE  \E other \in Members : delivered'[other][f.id] > 0
      BY DEF ReceiptMeansDelivered
    <3>1. f \in inbox[n] /\ f.id \in 1..MaxMessages
      BY <2>2 DEF Typed, Frames
    <3> QED
      BY <2>3, <3>1 DEF ReceiptsOK, ReceiptMeansDelivered
  <2>7. ASSUME NEW n \in Members, rpc'[n] = "receipt" PROVE delivered'[n][frame'[n].id] > 0
    <3>1. CASE n = m
      BY <2>4, <2>7, <3>1
    <3>2. CASE n # m
      <4>1. rpc[n] = "receipt" /\ frame'[n] = frame[n] /\ frame[n].id \in 1..MaxMessages
        BY <2>5, <2>7, <3>2 DEF Busy, Frames
      <4> QED
        BY <2>3, <4>1 DEF ReceiptsOK
    <3> QED
      BY <3>1, <3>2
  <2> QED
    BY <2>6, <2>7 DEF ReceiptsOK
<1>3. CASE RReceipt(m)
  <2> DEFINE r == Frame("RECEIPT", frame[m].id, None, None)
  <2>1. delivered[m][frame[m].id] > 0 /\ UNCHANGED delivered
    BY <1>3 DEF RReceipt, ReceiptsOK
  <2>2. \A n \in Members : inbox'[n] \subseteq inbox[n] \cup {r}
    BY <1>3 DEF RReceipt, End, Cast, Typed
  <2>3. \A n \in Members : rpc'[n] = "receipt" => rpc[n] = "receipt" /\ frame'[n] = frame[n]
    BY <1>3 DEF RReceipt, End, Goto, Typed
  <2>4. r.id = frame[m].id
    BY DEF Frame
  <2> QED
    BY <2>1, <2>2, <2>3, <2>4 DEF ReceiptsOK, ReceiptMeansDelivered
<1> QED
  BY <1>1, <1>2, <1>3

\* The receipt of a message says that the listeners of some member had it, whoever
\* shares transactions with whom, and whatever the network loses and reorders.
THEOREM ReceiptsAreDeliveries == Spec => []ReceiptMeansDelivered
<1>1. Init => ReceiptsOK
  BY DEF Init, ReceiptsOK, ReceiptMeansDelivered
<1>2. Typed /\ Busy /\ ReceiptsOK /\ [Next]_vars => ReceiptsOK'
  <2> SUFFICES ASSUME Typed, Busy, ReceiptsOK, [Next]_vars PROVE ReceiptsOK'
    OBVIOUS
  <2>1. CASE UNCHANGED vars
    BY <2>1 DEF ReceiptsOK, ReceiptMeansDelivered, vars, receiver
  <2>2. CASE Next
    BY <2>2, ReceiptsThread, ReceiptsReceiver DEF Next
  <2> QED
    BY <2>1, <2>2
<1>3. ReceiptsOK => ReceiptMeansDelivered
  BY DEF ReceiptsOK
<1> QED
  BY <1>1, <1>2, <1>3, TypedAlways, PTL DEF Spec

-----------------------------------------------------------------------------
(* The inductive invariant of threads that share no transaction *)

\* a transaction of a member is one thread's
Unshared ==
  \A t, u \in Threads : t # u /\ MemberOf[t] = MemberOf[u] => Uses[t] \cap Uses[u] \subseteq {None}

\* a socket is made once, with its receiver
Started == \A m \in Members : sockets[m] # "never" => rpc[m] # "unborn"

\* a transaction that has begun has a list of its own, of the messages send() took for it
ListsOK ==
  \A m \in Members, x \in Transactions :
    IF transactions[m][x] = None THEN accepted[m][x] = <<>>
    ELSE /\ lists[transactions[m][x]] = accepted[m][x]
         /\ \A n \in Members, y \in Transactions :
              transactions[n][y] = transactions[m][x] => n = m /\ y = x

\* whoever commits has the transaction to itself, and has sent the first messages of its list
List(t) == accepted[MemberOf[t]][tx[t]]
CommitOK(t) ==
  /\ tx[t] \in Uses[t] \ {None} /\ batch[t] = transactions[MemberOf[t]][tx[t]] /\ batch[t] # None
  /\ index[t] \in 0..Len(List(t)) /\ Len(sent[t]) = index[t]
  /\ \A i \in 1..Len(List(t)) : List(t)[i].id \in committed
  /\ \A i \in 1..index[t] : sent[t][i] = List(t)[i]
  /\ index[t] > 0 => sockets[MemberOf[t]] # "never"
CommitsOK ==
  \A t \in Threads : IF pc[t] = "commit" THEN CommitOK(t) ELSE index[t] = 0 /\ sent[t] = <<>>

\* what a receiver processes, or will, was committed
FromCommits ==
  /\ OnlyCommitted
  /\ \A m \in Members : rpc[m] = "process" /\ frame[m].cmd = "SEND" /\ frame[m].tx # None =>
       frame[m].id \in committed

\* message id has reached member m, or is on its way to it
UnderWay(m, id) ==
  \/ \E f \in inbox[m] : f.cmd = "SEND" /\ f.id = id
  \/ rpc[m] = "process" /\ frame[m].cmd = "SEND" /\ frame[m].id = id
Arrived(m, id) == UnderWay(m, id) \/ delivered[m][id] > 0
\* it is delivered, or in the receiver, or in the inbox, and there once, unless a
\* commit() that failed has sent it
OncePerMember ==
  \A m \in Members :
    /\ \A f, g \in inbox[m] :
         f.cmd = "SEND" /\ g.cmd = "SEND" /\ f.id = g.id /\ f.id \notin again => f = g
    /\ rpc[m] = "process" /\ frame[m].cmd = "SEND" /\ frame[m].id \notin again =>
         \A f \in inbox[m] : f.cmd = "SEND" => f.id # frame[m].id
    /\ \A id \in 1..MaxMessages : id \notin again =>
         delivered[m][id] <= 1 /\ (delivered[m][id] > 0 => ~UnderWay(m, id))

\* the messages that wait for their commit(): none is in two places, ...
KeptApart ==
  \A m \in Members, x \in Transactions : \A i \in 1..Len(accepted[m][x]) :
    /\ accepted[m][x][i].id <= messages
    /\ \A n \in Members, y \in Transactions : \A j \in 1..Len(accepted[n][y]) :
         accepted[n][y][j].id = accepted[m][x][i].id => n = m /\ y = x /\ j = i
\* ... and one that commit() may still send has reached nobody, unless it is to be sent again
SentAlready(m, x, i) ==
  \/ sockets[m] = "gone"
  \/ \E t \in Threads : MemberOf[t] = m /\ pc[t] = "commit" /\ tx[t] = x /\ i <= index[t]
KeptUnsent ==
  \A m \in Members, x \in Transactions : \A i \in 1..Len(accepted[m][x]) :
    \/ SentAlready(m, x, i) \/ accepted[m][x][i].id \in again
    \/ \A n \in Members : ~Arrived(n, accepted[m][x][i].id)
NewOK == \A m \in Members, id \in 1..MaxMessages : id > messages => ~Arrived(m, id)

Senders   == ListsOK /\ CommitsOK
Receivers == FromCommits /\ OncePerMember
MInv == Typed /\ Busy /\ Started /\ Senders /\ Receivers /\ KeptApart /\ KeptUnsent /\ NewOK

\* nothing arrives in this step, or what is new; a socket that is gone stays gone
NoneArrives == \A m \in Members, id \in 1..MaxMessages : Arrived(m, id)' => Arrived(m, id)
Arrives ==
  \A m \in Members, id \in 1..MaxMessages :
    Arrived(m, id)' => Arrived(m, id) \/ (messages < id /\ id <= messages')
SocketsKept ==
  \A m \in Members : /\ sockets[m] = "gone" => sockets'[m] = "gone"
                     /\ sockets[m] # "never" => sockets'[m] # "never"

-----------------------------------------------------------------------------
(* The receivers: what is under way and what is delivered *)

\* Nothing is received in a step that leaves the receivers alone.
LEMMA ReceiversStay ==
  ASSUME Receivers, UNCHANGED <<inbox, frame, delivered>>, committed \subseteq committed',
         again \subseteq again', \A m \in Members : rpc'[m] = "process" => rpc[m] = "process"
  PROVE  Receivers' /\ NoneArrives
<1>1. FromCommits'
  BY DEF Receivers, FromCommits, OnlyCommitted
<1>2. NoneArrives /\ \A m \in Members, id \in 1..MaxMessages : UnderWay(m, id)' => UnderWay(m, id)
  BY DEF NoneArrives, Arrived, UnderWay
<1>3. OncePerMember'
  BY <1>2 DEF Receivers, OncePerMember
<1> QED
  BY <1>1, <1>2, <1>3 DEF Receivers

\* A message is cast that has reached nobody, or is sent again.
LEMMA MessageCast ==
  ASSUME Typed, Busy, Receivers, NEW f \in Messages, Cast(f), UNCHANGED <<receiver, committed, again>>,
         f.tx # None => f.id \in committed, f.id \in again \/ \A m \in Members : ~Arrived(m, f.id)
  PROVE  /\ Receivers'
         /\ \A m \in Members, id \in 1..MaxMessages : Arrived(m, id)' => Arrived(m, id) \/ id = f.id
<1> USE DEF receiver
<1>1. \A m \in Members : inbox'[m] \subseteq inbox[m] \cup {f}
  BY DEF Cast
<1>2. f.cmd = "SEND" /\ f.id \in 1..MaxMessages
  BY DEF Messages, Frames
<1>3. FromCommits'
  BY <1>1 DEF Receivers, FromCommits, OnlyCommitted
<1>4. \A m \in Members, id \in 1..MaxMessages : UnderWay(m, id)' => UnderWay(m, id) \/ id = f.id
  BY <1>1 DEF UnderWay
<1>5. OncePerMember'
  <2> SUFFICES ASSUME NEW m \in Members
               PROVE  /\ \A g, h \in inbox'[m] :
                           g.cmd = "SEND" /\ h.cmd = "SEND" /\ g.id = h.id /\ g.id \notin again
                             => g = h
                      /\ rpc[m] = "process" /\ frame[m].cmd = "SEND" /\ frame[m].id \notin again =>
                           \A g \in inbox'[m] : g.cmd = "SEND" => g.id # frame[m].id
                      /\ \A id \in 1..MaxMessages : id \notin again =>
                           delivered[m][id] <= 1 /\ (delivered[m][id] > 0 => ~UnderWay(m, id)')
    BY DEF OncePerMember
  <2>1. f.id \notin again =>
          /\ \A g \in inbox[m] : g.cmd = "SEND" => g.id # f.id
          /\ rpc[m] = "process" /\ frame[m].cmd = "SEND" => frame[m].id # f.id
          /\ ~(delivered[m][f.id] > 0)
    BY DEF Arrived, UnderWay
  <2>2. \A g, h \in inbox'[m] :
          g.cmd = "SEND" /\ h.cmd = "SEND" /\ g.id = h.id /\ g.id \notin again => g = h
    BY <1>1, <2>1 DEF Receivers, OncePerMember
  <2>3. rpc[m] = "process" /\ frame[m].cmd = "SEND" /\ frame[m].id \notin again =>
          \A g \in inbox'[m] : g.cmd = "SEND" => g.id # frame[m].id
    BY <1>1, <2>1 DEF Receivers, OncePerMember
  <2>4. ASSUME NEW id \in 1..MaxMessages, id \notin again
        PROVE  delivered[m][id] <= 1 /\ (delivered[m][id] > 0 => ~UnderWay(m, id)')
    <3>1. delivered[m][id] <= 1 /\ (delivered[m][id] > 0 => ~UnderWay(m, id))
      BY <2>4 DEF Receivers, OncePerMember
    <3>2. id = f.id => ~(delivered[m][id] > 0)
      BY <2>1, <2>4
    <3> QED
      BY <1>4, <3>1, <3>2
  <2> QED
    BY <2>2, <2>3, <2>4
<1> QED
  BY <1>3, <1>4, <1>5 DEF Receivers, Arrived

\* A receiver takes a frame from its inbox, or ends.
LEMMA ReceiversRRecv ==
  ASSUME Typed, Busy, Receivers, NEW m \in Members, RRecv(m)
  PROVE  Receivers' /\ NoneArrives
<1>1. /\ UNCHANGED <<delivered, committed, again>>
      /\ m \in DOMAIN rpc /\ m \in DOMAIN frame /\ m \in DOMAIN inbox
  BY DEF RRecv, history, failures, Typed
<1>2. CASE End(m) /\ UNCHANGED frame
  <2>1. \A n \in Members : /\ inbox'[n] \subseteq inbox[n]
                           /\ rpc'[n] = "process" => rpc[n] = "process"
    BY <1>2 DEF End, Typed
  <2>2. FromCommits' /\ NoneArrives
        /\ \A n \in Members, id \in 1..MaxMessages : UnderWay(n, id)' => UnderWay(n, id)
    BY <1>1, <1>2, <2>1 DEF Receivers, FromCommits, OnlyCommitted, NoneArrives, Arrived, UnderWay
  <2>3. OncePerMember'
    BY <1>1, <1>2, <2>1, <2>2 DEF Receivers, OncePerMember
  <2> QED
    BY <2>2, <2>3 DEF Receivers
<1>3. ASSUME NEW f \in inbox[m], inbox' = [inbox EXCEPT ![m] = @ \ {f}],
             frame' = [frame EXCEPT ![m] = f], rpc' = [rpc EXCEPT ![m] = "process"],
             rpc[m] = "recv"
      PROVE  Receivers' /\ NoneArrives
  <2>1. /\ inbox'[m] = inbox[m] \ {f} /\ frame'[m] = f
        /\ \A n \in Members : n # m => /\ inbox'[n] = inbox[n] /\ frame'[n] = frame[n]
                                       /\ rpc'[n] = rpc[n]
    BY <1>3 DEF Typed
  <2>2. FromCommits'
    BY <1>1, <2>1 DEF Receivers, FromCommits, OnlyCommitted
  <2>3. \A n \in Members, id \in 1..MaxMessages : UnderWay(n, id)' => UnderWay(n, id)
    BY <2>1 DEF UnderWay
  <2>4. NoneArrives
    BY <1>1, <2>3 DEF NoneArrives, Arrived
  <2>5. OncePerMember'
    <3> SUFFICES ASSUME NEW n \in Members
                 PROVE  /\ \A g, h \in inbox'[n] :
                             g.cmd = "SEND" /\ h.cmd = "SEND" /\ g.id = h.id /\ g.id \notin again
                               => g = h
                        /\ rpc'[n] = "process" /\ frame'[n].cmd = "SEND" /\ frame'[n].id \notin again =>
                             \A g \in inbox'[n] : g.cmd = "SEND" => g.id # frame'[n].id
                        /\ \A id \in 1..MaxMessages : id \notin again =>
                             delivered'[n][id] <= 1 /\ (delivered'[n][id] > 0 => ~UnderWay(n, id)')
      BY <1>1 DEF OncePerMember
    <3>1. \A id \in 1..MaxMessages : id \notin again =>
            delivered'[n][id] <= 1 /\ (delivered'[n][id] > 0 => ~UnderWay(n, id)')
      BY <1>1, <2>3 DEF Receivers, OncePerMember
    <3>2. CASE n = m
      BY <2>1, <3>1, <3>2 DEF Receivers, OncePerMember
    <3>3. CASE n # m
      BY <2>1, <3>1, <3>3 DEF Receivers, OncePerMember
    <3> QED
      BY <3>2, <3>3
  <2> QED
    BY <2>2, <2>4, <2>5 DEF Receivers
<1> QED
  BY <1>2, <1>3 DEF RRecv, Goto

\* A receiver delivers the frame it has taken, or drops it, or ends with it.
LEMMA ReceiversRProcess ==
  ASSUME Typed, Busy, Receivers, NEW m \in Members, RProcess(m)
  PROVE  Receivers' /\ NoneArrives
<1>0. UNCHANGED <<committed, again>> /\ rpc[m] = "process" /\ frame[m] \in Frames
  BY DEF RProcess, history, failures, Busy
<1>1. PICK id \in 1..MaxMessages : id = frame[m].id
  BY <1>0 DEF Frames
<1>2. /\ rpc'[m] # "process" /\ \A n \in Members : inbox'[n] \subseteq inbox[n]
      /\ \A n \in Members : n # m => frame'[n] = frame[n] /\ rpc'[n] = rpc[n]
  <2>1. \/ rpc' = [rpc EXCEPT ![m] = "done"] \/ rpc' = [rpc EXCEPT ![m] = "receipt"]
        \/ rpc' = [rpc EXCEPT ![m] = "recv"]
    BY DEF RProcess, End, Goto
  <2>2. frame' = frame \/ frame' = [frame EXCEPT ![m] = None]
    <3>1. frame = [frame EXCEPT ![m] = @]
      BY DEF Typed
    <3> QED
      BY <3>1 DEF RProcess
  <2>3. inbox' = inbox \/ inbox' = [inbox EXCEPT ![m] = {}]
    BY DEF RProcess, End
  <2> QED
    BY <2>1, <2>2, <2>3 DEF Typed
<1>3. FromCommits'
  BY <1>0, <1>2 DEF Receivers, FromCommits, OnlyCommitted
<1>4. \A n \in Members, i \in 1..MaxMessages : UnderWay(n, i)' => UnderWay(n, i)
  BY <1>2 DEF UnderWay
<1>5. CASE UNCHANGED delivered
  <2>1. NoneArrives
    BY <1>4, <1>5 DEF NoneArrives, Arrived
  <2>2. OncePerMember'
    BY <1>0, <1>2, <1>4, <1>5 DEF Receivers, OncePerMember
  <2> QED
    BY <1>3, <2>1, <2>2 DEF Receivers
<1>6. CASE delivered' = [delivered EXCEPT ![m][id] = @ + 1] /\ Delivers(m)
  <2>1. /\ delivered'[m][id] = delivered[m][id] + 1 /\ delivered[m][id] \in Nat
        /\ \A n \in Members, i \in 1..MaxMessages :
             n # m \/ i # id => delivered'[n][i] = delivered[n][i]
    BY <1>6, CalledOnce
  <2>2. UnderWay(m, id) /\ frame[m].cmd = "SEND"
    BY <1>0, <1>1, <1>6 DEF UnderWay, Delivers
  <2>3. NoneArrives
    BY <1>4, <2>1, <2>2 DEF NoneArrives, Arrived
  <2>4. id \notin again => ~UnderWay(m, id)' /\ delivered[m][id] = 0
    <3> SUFFICES ASSUME id \notin again PROVE ~UnderWay(m, id)' /\ delivered[m][id] = 0
      OBVIOUS
    <3>1. \A f \in inbox[m] : f.cmd = "SEND" => f.id # id
      BY <1>0, <1>1, <2>2 DEF Receivers, OncePerMember
    <3>2. ~(delivered[m][id] > 0)
      BY <1>0, <1>1, <2>2 DEF Receivers, OncePerMember
    <3>3. ~UnderWay(m, id)'
      BY <1>2, <3>1 DEF UnderWay
    <3> QED
      BY <2>1, <3>2, <3>3
  <2>5. \A n \in Members, i \in 1..MaxMessages : i \notin again =>
          delivered'[n][i] <= 1 /\ (delivered'[n][i] > 0 => ~UnderWay(n, i)')
    <3> SUFFICES ASSUME NEW n \in Members, NEW i \in 1..MaxMessages, i \notin again
                 PROVE  delivered'[n][i] <= 1 /\ (delivered'[n][i] > 0 => ~UnderWay(n, i)')
      OBVIOUS
    <3>1. CASE n = m /\ i = id
      BY <2>1, <2>4, <3>1
    <3>2. CASE n # m \/ i # id
      BY <1>4, <2>1, <3>2 DEF Receivers, OncePerMember
    <3> QED
      BY <3>1, <3>2
  <2>6. OncePerMember'
    BY <1>0, <1>2, <2>5 DEF Receivers, OncePerMember
  <2> QED
    BY <1>3, <2>3, <2>6 DEF Receivers
<1> QED
  BY <1>1, <1>5, <1>6 DEF RProcess

\* A receiver casts a receipt, or ends.
LEMMA ReceiversRReceipt ==
  ASSUME Typed, Busy, Receivers, NEW m \in Members, RReceipt(m)
  PROVE  Receivers' /\ NoneArrives
<1> DEFINE r == Frame("RECEIPT", frame[m].id, None, None)
<1>1. UNCHANGED <<delivered, committed, again>> /\ r.cmd # "SEND"
  BY DEF RReceipt, history, failures, Frame
<1>2. /\ \A n \in Members : inbox'[n] \subseteq inbox[n] \cup {r}
      /\ \A n \in Members : rpc'[n] = "process" => rpc[n] = "process" /\ frame'[n] = frame[n]
  <2>1. \A n \in Members : inbox'[n] \subseteq inbox[n] \cup {r}
    BY DEF RReceipt, End, Cast, Typed
  <2>2. /\ \E l \in {"recv", "done"} : rpc' = [rpc EXCEPT ![m] = l]
        /\ frame' = [frame EXCEPT ![m] = None]
    BY DEF RReceipt, End, Goto
  <2>3. rpc \in [Members -> {"unborn", "recv", "process", "receipt", "done"}]
        /\ frame \in [Members -> Frames \cup {None}]
    BY DEF Typed
  <2>4. \A n \in Members : rpc'[n] = "process" => rpc[n] = "process" /\ frame'[n] = frame[n]
    BY <2>2, <2>3
  <2> QED
    BY <2>1, <2>4
<1>3. FromCommits'
  BY <1>1, <1>2 DEF Receivers, FromCommits, OnlyCommitted
<1>4. \A n \in Members, id \in 1..MaxMessages : UnderWay(n, id)' => UnderWay(n, id)
  BY <1>1, <1>2 DEF UnderWay
<1>5. NoneArrives
  BY <1>1, <1>4 DEF NoneArrives, Arrived
<1>6. OncePerMember'
  <2>1. \A n \in Members : \A f \in inbox'[n] : f.cmd = "SEND" => f \in inbox[n]
    BY <1>1, <1>2
  <2> QED
    BY <1>1, <1>2, <1>4, <2>1 DEF Receivers, OncePerMember
<1> QED
  BY <1>3, <1>5, <1>6 DEF Receivers

-----------------------------------------------------------------------------
(* The senders: the lists of the transactions and the threads that commit them *)

\* What waits for a commit() is a list of messages.
LEMMA KeptTyped ==
  ASSUME Typed, NEW m \in Members, NEW x \in Transactions
  PROVE  /\ accepted[m][x] \in Seq(Messages) /\ Len(accepted[m][x]) \in Nat
         /\ \A i \in 1..Len(accepted[m][x]) : /\ accepted[m][x][i] \in Messages
                                              /\ accepted[m][x][i].id \in 1..MaxMessages
<1>1. accepted[m][x] \in Seq(Messages)
  BY DEF Typed
<1>2. \A f \in Messages : f.id \in 1..MaxMessages
  BY DEF Messages, Frames
<1> QED
  BY <1>1, <1>2

\* The transaction of a thread is not one that another thread of its member commits.
LEMMA NotShared ==
  ASSUME Unshared, CommitsOK, NEW t \in Threads, NEW u \in Threads, u # t, pc[u] = "commit",
         NEW x \in Uses[t] \ {None}
  PROVE  ~(MemberOf[u] = MemberOf[t] /\ tx[u] = x)
BY DEF Unshared, CommitsOK, CommitOK

\* A thread goes on with its commit() while others do what does not concern its transaction.
LEMMA CommitStays ==
  ASSUME NEW t \in Threads, CommitOK(t), SocketsKept, committed \subseteq committed',
         tx'[t] = tx[t], batch'[t] = batch[t], index'[t] = index[t], sent'[t] = sent[t],
         transactions'[MemberOf[t]][tx[t]] = transactions[MemberOf[t]][tx[t]],
         accepted'[MemberOf[t]][tx[t]] = accepted[MemberOf[t]][tx[t]]
  PROVE  CommitOK(t)'
BY MulticastAssumption DEF CommitOK, List, SocketsKept

\* Nothing more waits for a commit(), and what does is where it was.
LEMMA FewerWait ==
  ASSUME Typed, KeptApart, KeptUnsent, NewOK, Arrives, messages' \in Nat, messages <= messages',
         again \subseteq again',
         \A m \in Members, x \in Transactions :
           \/ accepted'[m][x] = <<>>
           \/ /\ accepted'[m][x] = accepted[m][x]
              /\ \A i \in 1..Len(accepted[m][x]) : SentAlready(m, x, i) =>
                   SentAlready(m, x, i)' \/ accepted[m][x][i].id \in again'
  PROVE  KeptApart' /\ KeptUnsent' /\ NewOK'
<1>0. messages \in Nat /\ Len(<<>>) = 0
  BY DEF Typed
<1>1. KeptApart'
  <2> SUFFICES ASSUME NEW m \in Members, NEW x \in Transactions,
                      NEW i \in 1..Len(accepted'[m][x])
               PROVE  /\ accepted'[m][x][i].id <= messages'
                      /\ \A n \in Members, y \in Transactions : \A j \in 1..Len(accepted'[n][y]) :
                           accepted'[n][y][j].id = accepted'[m][x][i].id => n = m /\ y = x /\ j = i
    BY DEF KeptApart
  <2>1. \A n \in Members, y \in Transactions : \A j \in 1..Len(accepted'[n][y]) :
          accepted'[n][y] = accepted[n][y]
    BY <1>0
  <2>2. accepted'[m][x] = accepted[m][x] /\ accepted[m][x][i].id \in 1..MaxMessages
    BY <2>1, KeptTyped
  <2>3. i \in 1..Len(accepted[m][x]) /\ accepted[m][x][i].id <= messages
    BY <2>2 DEF KeptApart
  <2>4. accepted'[m][x][i].id <= messages'
    BY <1>0, <2>2, <2>3
  <2>5. ASSUME NEW n \in Members, NEW y \in Transactions, NEW j \in 1..Len(accepted'[n][y]),
               accepted'[n][y][j].id = accepted'[m][x][i].id
        PROVE  n = m /\ y = x /\ j = i
    <3>1. accepted'[n][y] = accepted[n][y] /\ j \in 1..Len(accepted[n][y])
      BY <2>1
    <3>2. accepted[n][y][j].id = accepted[m][x][i].id
      BY <2>2, <2>5, <3>1
    <3> QED
      BY <2>3, <3>1, <3>2 DEF KeptApart
  <2> QED
    BY <2>4, <2>5
<1>2. KeptUnsent'
  <2> SUFFICES ASSUME NEW m \in Members, NEW x \in Transactions,
                      NEW i \in 1..Len(accepted'[m][x])
               PROVE  \/ SentAlready(m, x, i)' \/ accepted'[m][x][i].id \in again'
                      \/ \A n \in Members : ~Arrived(n, accepted[m][x][i].id)'
    BY DEF KeptUnsent
  <2>1. accepted'[m][x] = accepted[m][x] /\ i \in 1..Len(accepted[m][x])
    BY <1>0
  <2>2. SentAlready(m, x, i) => SentAlready(m, x, i)' \/ accepted[m][x][i].id \in again'
    BY <1>0, <2>1
  <2>3. PICK id \in 1..MaxMessages : id = accepted[m][x][i].id
    BY <2>1, KeptTyped
  <2>4. id <= messages
    BY <2>1, <2>3 DEF KeptApart
  <2>5. SentAlready(m, x, i)' \/ id \in again' \/ \A n \in Members : ~Arrived(n, id)'
    BY <1>0, <2>1, <2>2, <2>3, <2>4 DEF KeptUnsent, Arrives
  <2> QED
    BY <2>1, <2>3, <2>5
<1>3. NewOK'
  BY <1>0 DEF NewOK, Arrives
<1> QED
  BY <1>1, <1>2, <1>3

\* Nobody's lists change in a step that is not about transactions.
LEMMA SendersStay ==
  ASSUME Typed, Senders, KeptApart, KeptUnsent, NewOK, SocketsKept, Arrives,
         messages' \in Nat, messages <= messages', again \subseteq again',
         UNCHANGED <<lists, transactions, pc, tx, batch, index, accepted, sent, committed>>
  PROVE  Senders' /\ KeptApart' /\ KeptUnsent' /\ NewOK'
<1>1. ListsOK'
  BY DEF Senders, ListsOK
<1>2. CommitsOK'
  BY CommitStays DEF Senders, CommitsOK
<1>3. \A m \in Members, x \in Transactions, i \in Nat :
        SentAlready(m, x, i) => SentAlready(m, x, i)'
  BY DEF SentAlready, SocketsKept
<1>4. KeptApart' /\ KeptUnsent' /\ NewOK'
  BY <1>3, FewerWait, KeptTyped
<1> QED
  BY <1>1, <1>2, <1>4 DEF Senders

\* A message for a transaction is kept at the end of its list.
LEMMA KeepOK ==
  ASSUME Unshared, Typed, Senders, KeptApart, KeptUnsent, NewOK, NEW t \in Threads,
         NEW x \in Uses[t] \ {None}, NEW f \in Messages, f.id = messages + 1, Idle(t),
         messages' = messages + 1, NEW m \in Members, m = MemberOf[t], x \in Transactions,
         transactions[m][x] # None, NoneArrives,
         lists' = [lists EXCEPT ![transactions[m][x]] = Append(@, f)],
         accepted' = [accepted EXCEPT ![m][x] = Append(@, f)],
         UNCHANGED <<sockets, transactions, pc, tx, batch, index, sent, committed, again>>
  PROVE  Senders' /\ KeptApart' /\ KeptUnsent' /\ NewOK'
<1>0. messages \in Nat /\ messages' \in Nat
  BY DEF Typed
<1>1. /\ accepted'[m][x] = Append(accepted[m][x], f)
      /\ \A n \in Members, y \in Transactions :
           n # m \/ y # x => accepted'[n][y] = accepted[n][y]
  BY DEF Typed
<1>2. ListsOK'
  <2> SUFFICES ASSUME NEW n \in Members, NEW y \in Transactions
               PROVE  IF transactions[n][y] = None THEN accepted'[n][y] = <<>>
                      ELSE lists'[transactions[n][y]] = accepted'[n][y]
    BY DEF Senders, ListsOK
  <2>1. transactions[m][x] \in DOMAIN lists
    BY DEF Typed
  <2>2. CASE n = m /\ y = x
    BY <1>1, <2>1, <2>2 DEF Senders, ListsOK
  <2>3. CASE n # m \/ y # x
    <3>1. transactions[n][y] # transactions[m][x]
      BY <2>3 DEF Senders, ListsOK
    <3>2. transactions[n][y] # None => transactions[n][y] \in DOMAIN lists
      BY DEF Typed
    <3> QED
      BY <1>1, <2>3, <3>1, <3>2 DEF Senders, ListsOK
  <2> QED
    BY <2>2, <2>3
<1>3. CommitsOK'
  <2> SUFFICES ASSUME NEW u \in Threads, pc[u] = "commit" PROVE CommitOK(u)'
    BY DEF Senders, CommitsOK
  <2>1. u # t /\ CommitOK(u)
    BY DEF Idle, Senders, CommitsOK
  <2>2. ~(MemberOf[u] = m /\ tx[u] = x)
    BY <2>1, NotShared DEF Senders
  <2>3. MemberOf[u] \in Members /\ tx[u] \in Transactions
    BY <2>1, MulticastAssumption DEF CommitOK
  <2>4. accepted'[MemberOf[u]][tx[u]] = accepted[MemberOf[u]][tx[u]]
    BY <1>1, <2>2, <2>3
  <2>5. SocketsKept
    BY DEF SocketsKept
  <2> QED
    BY <2>1, <2>4, <2>5, CommitStays
<1>4. ASSUME NEW n \in Members, NEW y \in Transactions, NEW j \in 1..Len(accepted'[n][y])
      PROVE  \/ j \in 1..Len(accepted[n][y]) /\ accepted'[n][y][j] = accepted[n][y][j]
             \/ n = m /\ y = x /\ j = Len(accepted[m][x]) + 1 /\ accepted'[n][y][j] = f
  <2>1. accepted[m][x] \in Seq(Messages) /\ Len(accepted[m][x]) \in Nat
    BY KeptTyped
  <2>2. CASE n # m \/ y # x
    BY <1>1, <1>4, <2>2
  <2>3. CASE n = m /\ y = x
    BY <1>1, <1>4, <2>1, <2>3, AppendProperties
  <2> QED
    BY <2>2, <2>3
<1>5. \A n \in Members, y \in Transactions : \A j \in 1..Len(accepted[n][y]) :
        accepted[n][y][j].id \in 1..MaxMessages /\ accepted[n][y][j].id <= messages
  BY KeptTyped DEF KeptApart
<1>6. KeptApart'
  <2> SUFFICES ASSUME NEW n \in Members, NEW y \in Transactions,
                      NEW j \in 1..Len(accepted'[n][y])
               PROVE  /\ accepted'[n][y][j].id <= messages'
                      /\ \A o \in Members, z \in Transactions : \A k \in 1..Len(accepted'[o][z]) :
                           accepted'[o][z][k].id = accepted'[n][y][j].id => o = n /\ z = y /\ k = j
    BY DEF KeptApart
  <2>1. accepted'[n][y][j].id <= messages'
    BY <1>0, <1>4, <1>5
  <2>2. ASSUME NEW o \in Members, NEW z \in Transactions, NEW k \in 1..Len(accepted'[o][z]),
               accepted'[o][z][k].id = accepted'[n][y][j].id
        PROVE  o = n /\ z = y /\ k = j
    <3>1. \/ j \in 1..Len(accepted[n][y]) /\ accepted'[n][y][j] = accepted[n][y][j]
          \/ n = m /\ y = x /\ j = Len(accepted[m][x]) + 1 /\ accepted'[n][y][j] = f
      BY <1>4
    <3>2. \/ k \in 1..Len(accepted[o][z]) /\ accepted'[o][z][k] = accepted[o][z][k]
          \/ o = m /\ z = x /\ k = Len(accepted[m][x]) + 1 /\ accepted'[o][z][k] = f
      BY <1>4
    <3>3. f.id # accepted[n][y][j].id \/ ~(j \in 1..Len(accepted[n][y]))
      BY <1>0, <1>5
    <3>4. f.id # accepted[o][z][k].id \/ ~(k \in 1..Len(accepted[o][z]))
      BY <1>0, <1>5
    <3>5. CASE j \in 1..Len(accepted[n][y]) /\ k \in 1..Len(accepted[o][z])
               /\ accepted[o][z][k].id = accepted[n][y][j].id
      BY <3>5 DEF KeptApart
    <3> QED
      BY <2>2, <3>1, <3>2, <3>3, <3>4, <3>5
  <2> QED
    BY <2>1, <2>2
<1>7. KeptUnsent'
  <2> SUFFICES ASSUME NEW n \in Members, NEW y \in Transactions,
                      NEW j \in 1..Len(accepted'[n][y])
               PROVE  \/ SentAlready(n, y, j)' \/ accepted'[n][y][j].id \in again
                      \/ \A o \in Members : ~Arrived(o, accepted[n][y][j].id)'
    BY DEF KeptUnsent
  <2>1. SentAlready(n, y, j) => SentAlready(n, y, j)'
    BY DEF SentAlready
  <2>2. CASE j \in 1..Len(accepted[n][y]) /\ accepted'[n][y][j] = accepted[n][y][j]
    <3>1. PICK id \in 1..MaxMessages : id = accepted[n][y][j].id
      BY <1>5, <2>2
    <3>2. SentAlready(n, y, j)' \/ id \in again \/ \A o \in Members : ~Arrived(o, id)'
      BY <2>1, <2>2, <3>1 DEF KeptUnsent, NoneArrives
    <3> QED
      BY <2>2, <3>1, <3>2
  <2>3. CASE accepted'[n][y][j] = f
    <3>1. PICK id \in 1..MaxMessages : id = f.id
      BY DEF Messages, Frames
    <3>2. \A o \in Members : ~Arrived(o, id)'
      BY <1>0, <3>1 DEF NewOK, NoneArrives
    <3> QED
      BY <2>3, <3>1, <3>2
  <2> QED
    BY <1>4, <2>2, <2>3
<1>8. NewOK'
  BY <1>0 DEF NewOK, NoneArrives
<1> QED
  BY <1>2, <1>3, <1>6, <1>7, <1>8 DEF Senders

\* A transaction begins with an empty list of its own.
LEMMA BeginOK ==
  ASSUME Typed, Senders, KeptApart, KeptUnsent, NewOK, NEW t \in Threads,
         NEW x \in Uses[t] \ {None}, Begin(t, x)
  PROVE  Senders' /\ KeptApart' /\ KeptUnsent' /\ NewOK'
<1> DEFINE m == MemberOf[t]
<1>1. m \in Members /\ x \in Transactions /\ transactions[m][x] = None
  BY MulticastAssumption DEF Begin
<1>2. /\ Len(lists) \in Nat /\ Len(lists') = Len(lists) + 1 /\ lists' = Append(lists, <<>>)
      /\ lists'[Len(lists) + 1] = <<>>
      /\ \A k \in 1..Len(lists) : lists'[k] = lists[k]
  BY OneMore DEF Begin, Typed
<1>3. /\ transactions'[m][x] = Len(lists) + 1
      /\ \A n \in Members, y \in Transactions :
           n # m \/ y # x => transactions'[n][y] = transactions[n][y]
  BY <1>1, <1>2 DEF Begin, Typed
<1>4. \A n \in Members, y \in Transactions :
        transactions[n][y] # None => transactions[n][y] \in 1..Len(lists)
  BY DEF Typed
<1>5. UNCHANGED <<sockets, pc, tx, batch, index, sent, messages, rpc, frame, delivered, inbox,
                  accepted, committed, again>>
  BY DEF Begin, locals, receiver, failures
<1>6. ListsOK'
  <2>1. ASSUME NEW n \in Members, NEW y \in Transactions
        PROVE  IF transactions'[n][y] = None THEN accepted'[n][y] = <<>>
               ELSE lists'[transactions'[n][y]] = accepted'[n][y]
    <3>1. CASE n = m /\ y = x
      BY <1>1, <1>2, <1>3, <1>5, <3>1 DEF Senders, ListsOK
    <3>2. CASE n # m \/ y # x
      BY <1>2, <1>3, <1>4, <1>5, <3>2 DEF Senders, ListsOK
    <3> QED
      BY <3>1, <3>2
  <2>2. ASSUME NEW n \in Members, NEW y \in Transactions, NEW o \in Members,
               NEW z \in Transactions, transactions'[n][y] # None,
               transactions'[o][z] = transactions'[n][y]
        PROVE  o = n /\ z = y
    <3>1. CASE (n # m \/ y # x) /\ (o # m \/ z # x)
      BY <1>3, <2>2, <3>1 DEF Senders, ListsOK
    <3>2. CASE (n # m \/ y # x) /\ o = m /\ z = x
      BY <1>2, <1>3, <1>4, <2>2, <3>2
    <3>3. CASE n = m /\ y = x /\ (o # m \/ z # x)
      BY <1>2, <1>3, <1>4, <2>2, <3>3
    <3> QED
      BY <3>1, <3>2, <3>3
  <2> QED
    BY <2>1, <2>2 DEF ListsOK
<1>7. CommitsOK'
  <2> SUFFICES ASSUME NEW u \in Threads, pc[u] = "commit" PROVE CommitOK(u)'
    BY <1>5 DEF Senders, CommitsOK
  <2>1. CommitOK(u) /\ MemberOf[u] \in Members /\ tx[u] \in Transactions
    BY MulticastAssumption DEF Senders, CommitsOK, CommitOK
  <2>2. transactions'[MemberOf[u]][tx[u]] = transactions[MemberOf[u]][tx[u]]
    BY <1>1, <1>3, <2>1 DEF CommitOK
  <2>3. SocketsKept
    BY <1>5 DEF SocketsKept
  <2> QED
    BY <1>5, <2>1, <2>2, <2>3, CommitStays
<1>8. \A n \in Members, y \in Transactions, i \in Nat :
        SentAlready(n, y, i) => SentAlready(n, y, i)'
  BY <1>5 DEF SentAlready
<1>9. Arrives
  <2>1. NoneArrives
    BY <1>5 DEF NoneArrives, Arrived, UnderWay
  <2> QED
    BY <2>1 DEF NoneArrives, Arrives
<1>10. messages \in Nat
  BY DEF Typed
<1> QED
  BY <1>5, <1>6, <1>7, <1>8, <1>9, <1>10, FewerWait, KeptTyped DEF Senders

\* commit() begins with nothing sent.
LEMMA CommitBegins ==
  ASSUME Typed, Senders, KeptApart, KeptUnsent, NewOK, NEW t \in Threads,
         NEW x \in Uses[t] \ {None}, Commit(t, x)
  PROVE  Senders' /\ KeptApart' /\ KeptUnsent' /\ NewOK'
<1> DEFINE m == MemberOf[t]
<1>1. m \in Members /\ x \in Transactions /\ transactions[m][x] # None /\ pc[t] = "idle"
  BY MulticastAssumption DEF Commit, Idle
<1>2. /\ pc'[t] = "commit" /\ tx'[t] = x /\ batch'[t] = transactions[m][x]
      /\ \A u \in Threads : u # t => pc'[u] = pc[u] /\ tx'[u] = tx[u] /\ batch'[u] = batch[u]
  BY DEF Commit, Typed
<1>3. /\ committed' = committed \cup {f.id : f \in ToSet(accepted[m][x])}
      /\ UNCHANGED <<sockets, lists, transactions, index, sent, messages, rpc, frame, delivered,
                     inbox, accepted, again>>
  BY DEF Commit, Taken, receiver, failures
<1>4. ListsOK'
  BY <1>3 DEF Senders, ListsOK
<1>5. CommitsOK'
  <2>1. ASSUME NEW u \in Threads, u # t
        PROVE  IF pc'[u] = "commit" THEN CommitOK(u)' ELSE index'[u] = 0 /\ sent'[u] = <<>>
    <3>1. SocketsKept
      BY <1>3 DEF SocketsKept
    <3> QED
      BY <1>2, <1>3, <2>1, <3>1, CommitStays DEF Senders, CommitsOK
  <2>2. CommitOK(t)'
    <3>1. accepted[m][x] \in Seq(Messages) /\ Len(accepted[m][x]) \in Nat
      BY <1>1, KeptTyped
    <3>2. \A i \in 1..Len(accepted[m][x]) : accepted[m][x][i].id \in committed'
      BY <1>3, <3>1 DEF ToSet
    <3>3. index[t] = 0 /\ sent[t] = <<>> /\ Len(<<>>) = 0
      BY <1>1 DEF Senders, CommitsOK
    <3> QED
      BY <1>1, <1>2, <1>3, <3>1, <3>2, <3>3 DEF CommitOK, List
  <2> QED
    BY <1>2, <2>1, <2>2 DEF CommitsOK
<1>6. Arrives
  <2>1. NoneArrives
    BY <1>3 DEF NoneArrives, Arrived, UnderWay
  <2> QED
    BY <2>1 DEF NoneArrives, Arrives
<1>7. \A n \in Members, y \in Transactions, i \in Nat :
        SentAlready(n, y, i) => SentAlready(n, y, i)'
  <2>1. \A u \in Threads : pc[u] = "commit" => u # t
    BY <1>1
  <2> QED
    BY <1>2, <1>3, <2>1 DEF SentAlready
<1>8. messages \in Nat
  BY DEF Typed
<1> QED
  BY <1>3, <1>4, <1>5, <1>6, <1>7, <1>8, FewerWait, KeptTyped DEF Senders

\* The thread that commits finds the messages of its transaction in the list it holds.
LEMMA ListHeld ==
  ASSUME Typed, Senders, NEW t \in Threads, pc[t] = "commit"
  PROVE  /\ MemberOf[t] \in Members /\ tx[t] \in Transactions /\ CommitOK(t)
         /\ lists[batch[t]] = List(t) /\ List(t) \in Seq(Messages) /\ Len(List(t)) \in Nat
<1>1. CommitOK(t)
  BY DEF Senders, CommitsOK
<1>2. MemberOf[t] \in Members /\ tx[t] \in Transactions
  BY <1>1, MulticastAssumption DEF CommitOK
<1>3. lists[batch[t]] = List(t)
  BY <1>1, <1>2 DEF CommitOK, List, Senders, ListsOK
<1>4. List(t) \in Seq(Messages) /\ Len(List(t)) \in Nat
  BY <1>2, KeptTyped DEF List
<1> QED
  BY <1>1, <1>2, <1>3, <1>4

\* commit() ends because a message cannot be sent: for good, or what it has sent is sent again.
LEMMA CommitFails ==
  ASSUME Typed, Senders, KeptApart, KeptUnsent, NewOK, NEW t \in Threads, pc[t] = "commit",
         ~CanSend(MemberOf[t]) \/ again' = again \cup {g.id : g \in ToSet(sent[t])}, Leave(t),
         again \subseteq again',
         UNCHANGED <<sockets, lists, transactions, messages, rpc, frame, delivered, inbox, accepted,
                     committed>>
  PROVE  Senders' /\ KeptApart' /\ KeptUnsent' /\ NewOK'
<1>1. /\ pc'[t] = "idle" /\ index'[t] = 0 /\ sent'[t] = <<>>
      /\ \A u \in Threads : u # t => /\ pc'[u] = pc[u] /\ tx'[u] = tx[u] /\ batch'[u] = batch[u]
                                     /\ index'[u] = index[u] /\ sent'[u] = sent[u]
  BY DEF Leave, Typed
<1>2. SocketsKept /\ ListsOK'
  BY DEF SocketsKept, Senders, ListsOK
<1>3. CommitsOK'
  <2>1. ASSUME NEW u \in Threads
        PROVE  IF pc'[u] = "commit" THEN CommitOK(u)' ELSE index'[u] = 0 /\ sent'[u] = <<>>
    <3>1. CASE u = t
      BY <1>1, <3>1
    <3>2. CASE u # t
      BY <1>1, <1>2, <3>2, CommitStays DEF Senders, CommitsOK
    <3> QED
      BY <3>1, <3>2
  <2> QED
    BY <2>1 DEF CommitsOK
<1>4. Arrives
  <2>1. NoneArrives
    BY DEF NoneArrives, Arrived, UnderWay
  <2> QED
    BY <2>1 DEF NoneArrives, Arrives
<1>5. ASSUME NEW m \in Members, NEW x \in Transactions, NEW i \in 1..Len(accepted[m][x]),
             SentAlready(m, x, i)
      PROVE  SentAlready(m, x, i)' \/ accepted[m][x][i].id \in again'
  <2>1. CASE sockets[m] = "gone"
    BY <2>1 DEF SentAlready
  <2>2. CASE MemberOf[t] = m /\ tx[t] = x /\ i <= index[t] /\ ~CanSend(MemberOf[t])
    <3>1. index[t] > 0
      BY <2>2, KeptTyped DEF Typed
    <3>2. sockets[m] # "never" /\ sockets[m] # "open"
      BY <2>2, <3>1, ListHeld DEF CommitOK, CanSend
    <3> QED
      BY <3>2 DEF SentAlready, Typed
  <2>4. CASE /\ MemberOf[t] = m /\ tx[t] = x /\ i <= index[t]
             /\ again' = again \cup {g.id : g \in ToSet(sent[t])}
    <3>1. CommitOK(t) /\ i \in 1..index[t] /\ sent[t] \in Seq(Messages)
      BY <2>4, ListHeld, KeptTyped DEF Typed
    <3>2. sent[t][i] = accepted[m][x][i] /\ i \in 1..Len(sent[t])
      BY <2>4, <3>1 DEF CommitOK, List
    <3>3. sent[t][i] \in ToSet(sent[t])
      BY <3>1, <3>2 DEF ToSet
    <3> QED
      BY <2>4, <3>2, <3>3
  <2>3. ASSUME NEW u \in Threads, u # t, MemberOf[u] = m, pc[u] = "commit", tx[u] = x,
               i <= index[u]
        PROVE  SentAlready(m, x, i)'
    BY <1>1, <2>3 DEF SentAlready
  <2> QED
    BY <1>5, <2>1, <2>2, <2>3, <2>4 DEF SentAlready
<1>6. messages \in Nat
  BY DEF Typed
<1>7. KeptApart' /\ KeptUnsent' /\ NewOK'
  BY <1>4, <1>5, <1>6, FewerWait
<1> QED
  BY <1>2, <1>3, <1>7 DEF Senders

\* What commit() sends next has reached nobody, unless an earlier one has sent it and failed.
LEMMA NextReachedNobody ==
  ASSUME Unshared, Typed, Senders, KeptApart, KeptUnsent, NEW t \in Threads, pc[t] = "commit",
         index[t] < Len(List(t)), CanSend(MemberOf[t])
  PROVE  \/ List(t)[index[t] + 1].id \in again
         \/ \A n \in Members : ~Arrived(n, List(t)[index[t] + 1].id)
<1> DEFINE i == index[t] + 1
<1>1. /\ MemberOf[t] \in Members /\ tx[t] \in Transactions /\ CommitOK(t)
      /\ Len(List(t)) \in Nat /\ index[t] \in Nat
  BY ListHeld DEF Typed
<1>2. ~SentAlready(MemberOf[t], tx[t], i)
  <2> SUFFICES ASSUME NEW u \in Threads, MemberOf[u] = MemberOf[t], pc[u] = "commit",
                      tx[u] = tx[t], i <= index[u]
               PROVE  FALSE
    BY DEF SentAlready, CanSend
  <2>1. u # t
    BY <1>1
  <2> QED
    BY <1>1, <2>1, NotShared DEF CommitOK, Senders
<1>3. i \in 1..Len(accepted[MemberOf[t]][tx[t]])
  BY <1>1 DEF List
<1> QED
  BY <1>1, <1>2, <1>3 DEF KeptUnsent, List

\* A message waits for one commit(), and at one place of its list.
LEMMA Apart ==
  ASSUME KeptApart, NEW m \in Members, NEW x \in Transactions, NEW i \in 1..Len(accepted[m][x]),
         NEW n \in Members, NEW y \in Transactions, NEW j \in 1..Len(accepted[n][y]),
         accepted[n][y][j].id = accepted[m][x][i].id
  PROVE  n = m /\ y = x /\ j = i
BY DEF KeptApart

\* commit() sends the next message of its list.
LEMMA CommitSends ==
  ASSUME Unshared, Typed, Senders, KeptApart, KeptUnsent, NewOK, NEW t \in Threads,
         pc[t] = "commit", index[t] < Len(List(t)), CanSend(MemberOf[t]),
         index' = [index EXCEPT ![t] = @ + 1],
         sent' = [sent EXCEPT ![t] = Append(@, List(t)[index[t] + 1])],
         UNCHANGED <<sockets, lists, transactions, pc, tx, batch, messages, accepted, committed, again>>,
         \A m \in Members, id \in 1..MaxMessages :
           Arrived(m, id)' => Arrived(m, id) \/ id = List(t)[index[t] + 1].id
  PROVE  Senders' /\ KeptApart' /\ KeptUnsent' /\ NewOK'
<1> DEFINE m == MemberOf[t]
           f == List(t)[index[t] + 1]
<1>1. /\ m \in Members /\ tx[t] \in Transactions /\ CommitOK(t)
      /\ Len(List(t)) \in Nat /\ index[t] \in Nat /\ List(t) \in Seq(Messages)
      /\ sent[t] \in Seq(Messages)
  BY ListHeld DEF Typed
<1>2. /\ index'[t] = index[t] + 1 /\ sent'[t] = Append(sent[t], f)
      /\ \A u \in Threads : u # t => index'[u] = index[u] /\ sent'[u] = sent[u]
  BY DEF Typed
<1>3. SocketsKept /\ ListsOK'
  BY DEF SocketsKept, Senders, ListsOK
<1>4. f = accepted[m][tx[t]][index[t] + 1] /\ f \in Messages /\ index[t] + 1 \in 1..Len(List(t))
  BY <1>1 DEF List
<1>5. CommitsOK'
  <2>1. CommitOK(t)'
    <3>1. /\ Len(sent'[t]) = index[t] + 1 /\ sent'[t][index[t] + 1] = f
          /\ \A i \in 1..index[t] : sent'[t][i] = sent[t][i]
      <4>1. Len(sent[t]) = index[t]
        BY <1>1 DEF CommitOK
      <4>2. sent[t] \in Seq(Messages) /\ f \in Messages
        BY <1>1, <1>4
      <4> HIDE DEF f
      <4>3. /\ Len(Append(sent[t], f)) = Len(sent[t]) + 1
            /\ Append(sent[t], f)[Len(sent[t]) + 1] = f
            /\ \A i \in 1..Len(sent[t]) : Append(sent[t], f)[i] = sent[t][i]
        BY <4>2, AppendProperties
      <4> QED
        BY <1>2, <4>1, <4>3
    <3>2. \A i \in 1..index'[t] : sent'[t][i] = List(t)[i]
      BY <1>1, <1>2, <3>1 DEF CommitOK
    <3>3. List(t)' = List(t)
      BY DEF List
    <3>4. sockets[m] # "never"
      BY DEF CanSend
    <3>5. /\ batch[t] # None /\ batch[t] = transactions[m][tx[t]]
          /\ tx[t] \in Uses[t] \ {None} /\ \A i \in 1..Len(List(t)) : List(t)[i].id \in committed
      BY <1>1 DEF CommitOK
    <3>6. index'[t] \in 0..Len(List(t)) /\ Len(sent'[t]) = index'[t]
      <4>1. index'[t] = index[t] + 1 /\ index[t] + 1 \in 1..Len(List(t)) /\ index[t] \in Nat
        BY <1>1, <1>2, <1>4
      <4>2. Len(sent'[t]) = index[t] + 1
        BY <3>1
      <4> HIDE DEF f, m
      <4> QED
        BY <4>1, <4>2
    <3> QED
      BY <3>2, <3>3, <3>4, <3>5, <3>6 DEF CommitOK
  <2>2. ASSUME NEW u \in Threads, u # t
        PROVE  IF pc'[u] = "commit" THEN CommitOK(u)' ELSE index'[u] = 0 /\ sent'[u] = <<>>
    BY <1>2, <1>3, <2>2, CommitStays DEF Senders, CommitsOK
  <2> QED
    BY <2>1, <2>2 DEF CommitsOK
<1>6. KeptApart'
  BY DEF KeptApart
<1>7. f.id \in 1..MaxMessages /\ f.id <= messages
  <2>1. PICK x \in Transactions : x = tx[t] /\ f = accepted[m][x][index[t] + 1]
    BY <1>1, <1>4
  <2>2. index[t] + 1 \in 1..Len(accepted[m][x])
    BY <1>4, <2>1 DEF List
  <2> HIDE DEF f
  <2> QED BY <1>1, <2>1, <2>2, KeptTyped DEF KeptApart
<1>8. KeptUnsent'
  <2> SUFFICES ASSUME NEW n \in Members, NEW y \in Transactions, NEW j \in 1..Len(accepted[n][y])
               PROVE  \/ SentAlready(n, y, j)' \/ accepted[n][y][j].id \in again
                      \/ \A o \in Members : ~Arrived(o, accepted[n][y][j].id)'
    BY DEF KeptUnsent
  <2>1. PICK id \in 1..MaxMessages : id = accepted[n][y][j].id
    BY KeptTyped
  <2>2. SentAlready(n, y, j) => SentAlready(n, y, j)'
    <3>1. ASSUME NEW u \in Threads, MemberOf[u] = n, pc[u] = "commit", tx[u] = y, j <= index[u]
          PROVE  j <= index'[u]
      BY <1>1, <1>2, <3>1, KeptTyped DEF Typed
    <3> QED
      BY <3>1 DEF SentAlready
  <2>3. CASE id = f.id
    <3>1. n = m /\ y = tx[t] /\ j = index[t] + 1
      <4>1. PICK o \in Members, x \in Transactions : o = m /\ x = tx[t]
        BY <1>1
      <4>2. PICK i \in 1..Len(accepted[o][x]) : i = index[t] + 1
        BY <1>4, <4>1 DEF List
      <4>3. accepted[n][y][j].id = accepted[o][x][i].id
        BY <1>4, <2>1, <2>3, <4>1, <4>2
      <4>4. n = o /\ y = x /\ j = i
        BY <4>3, Apart
      <4> QED
        BY <4>1, <4>2, <4>4
    <3>2. j <= index'[t]
      BY <1>1, <1>2, <3>1
    <3> QED
      BY <3>1, <3>2 DEF SentAlready
  <2>4. CASE id # f.id
    <3>1. SentAlready(n, y, j)' \/ id \in again \/ \A o \in Members : ~Arrived(o, id)'
      BY <2>1, <2>2, <2>4 DEF KeptUnsent
    <3> QED
      BY <2>1, <3>1
  <2> QED
    BY <2>3, <2>4
<1>9. NewOK'
  <2>1. messages \in Nat
    BY DEF Typed
  <2> QED
    BY <1>7, <2>1 DEF NewOK
<1> QED
  BY <1>3, <1>5, <1>6, <1>8, <1>9 DEF Senders

\* A transaction is forgotten by the thread that it belongs to, at the end of commit() or
\* in abort(); the thread rests.
LEMMA ForgetOK ==
  ASSUME Unshared, Typed, Senders, KeptApart, KeptUnsent, NewOK, NEW t \in Threads,
         NEW x \in Uses[t] \ {None}, Forget(MemberOf[t], x),
         pc'[t] = "idle" /\ index'[t] = 0 /\ sent'[t] = <<>>,
         \A u \in Threads : u # t => /\ pc'[u] = pc[u] /\ tx'[u] = tx[u] /\ batch'[u] = batch[u]
                                     /\ index'[u] = index[u] /\ sent'[u] = sent[u],
         pc[t] = "commit" => tx[t] = x,
         UNCHANGED <<sockets, lists, messages, rpc, frame, delivered, inbox, committed, again>>
  PROVE  Senders' /\ KeptApart' /\ KeptUnsent' /\ NewOK'
<1> DEFINE m == MemberOf[t]
<1>1. m \in Members /\ x \in Transactions
  BY MulticastAssumption
<1>2. /\ transactions'[m][x] = None /\ accepted'[m][x] = <<>>
      /\ \A n \in Members, y \in Transactions :
           n # m \/ y # x => /\ transactions'[n][y] = transactions[n][y]
                             /\ accepted'[n][y] = accepted[n][y]
  BY <1>1 DEF Forget, Typed
<1>3. ListsOK'
  <2>1. ASSUME NEW n \in Members, NEW y \in Transactions
        PROVE  IF transactions'[n][y] = None THEN accepted'[n][y] = <<>>
               ELSE lists[transactions'[n][y]] = accepted'[n][y]
    BY <1>2 DEF Senders, ListsOK
  <2>2. ASSUME NEW n \in Members, NEW y \in Transactions, NEW o \in Members,
               NEW z \in Transactions, transactions'[n][y] # None,
               transactions'[o][z] = transactions'[n][y]
        PROVE  o = n /\ z = y
    BY <1>2, <2>2 DEF Senders, ListsOK
  <2> QED
    BY <2>1, <2>2 DEF ListsOK
<1>4. CommitsOK'
  <2>1. ASSUME NEW u \in Threads, u # t
        PROVE  IF pc'[u] = "commit" THEN CommitOK(u)' ELSE index'[u] = 0 /\ sent'[u] = <<>>
    <3>1. CASE pc[u] = "commit"
      <4>1. ~(MemberOf[u] = m /\ tx[u] = x)
        BY <2>1, <3>1, NotShared DEF Senders
      <4>2. MemberOf[u] \in Members /\ tx[u] \in Transactions /\ CommitOK(u)
        BY <3>1, ListHeld
      <4>3. SocketsKept
        BY DEF SocketsKept
      <4>4. CommitOK(u)'
        BY <1>2, <2>1, <4>1, <4>2, <4>3, CommitStays
      <4> QED
        BY <2>1, <3>1, <4>4
    <3>2. CASE pc[u] # "commit"
      BY <2>1, <3>2 DEF Senders, CommitsOK
    <3> QED
      BY <3>1, <3>2
  <2> QED
    BY <2>1 DEF CommitsOK
<1>5. Arrives
  <2>1. NoneArrives
    BY DEF NoneArrives, Arrived, UnderWay
  <2> QED
    BY <2>1 DEF NoneArrives, Arrives
<1>6. ASSUME NEW n \in Members, NEW y \in Transactions, n # m \/ y # x, NEW i \in Nat,
             SentAlready(n, y, i)
      PROVE  SentAlready(n, y, i)'
  BY <1>6 DEF SentAlready
<1>7. messages \in Nat
  BY DEF Typed
<1>8. KeptApart' /\ KeptUnsent' /\ NewOK'
  <2>1. \A n \in Members, y \in Transactions :
          \/ accepted'[n][y] = <<>>
          \/ /\ accepted'[n][y] = accepted[n][y]
             /\ \A i \in 1..Len(accepted[n][y]) : SentAlready(n, y, i) => SentAlready(n, y, i)'
    BY <1>2, <1>6, KeptTyped
  <2> QED
    BY <1>5, <1>7, <2>1, FewerWait
<1> QED
  BY <1>3, <1>4, <1>8 DEF Senders

-----------------------------------------------------------------------------
(* Every step keeps the invariant *)

\* The first state has nothing under way and nothing to commit.
LEMMA MInvInit == Init => MInv
<1> SUFFICES ASSUME Init PROVE MInv
  OBVIOUS
<1> USE DEF Init
<1>1. Typed /\ Busy
  BY TypedInit
<1>2. Started /\ ListsOK /\ CommitsOK
  BY DEF Started, ListsOK, CommitsOK
<1>3. \A m \in Members, id \in 1..MaxMessages : ~Arrived(m, id) /\ ~UnderWay(m, id)
  BY DEF Arrived, UnderWay
<1>4. FromCommits /\ OncePerMember
  BY <1>3 DEF FromCommits, OnlyCommitted, OncePerMember
<1>5. \A m \in Members, x \in Transactions : Len(accepted[m][x]) = 0
  OBVIOUS
<1>6. KeptApart /\ KeptUnsent
  BY <1>5 DEF KeptApart, KeptUnsent
<1>7. NewOK
  BY <1>3 DEF NewOK
<1> QED
  BY <1>1, <1>2, <1>4, <1>6, <1>7 DEF MInv, Senders, Receivers

\* A socket comes with a receiver, and neither comes back.
LEMMA StartedNext ==
  ASSUME Typed, Started, Next
  PROVE  Started' /\ SocketsKept
<1>1. ASSUME NEW t \in Threads, Connect(t) PROVE Started' /\ SocketsKept
  <2>1. MemberOf[t] \in Members
    BY MulticastAssumption
  <2>2. /\ sockets[MemberOf[t]] = "never" /\ sockets' = [sockets EXCEPT ![MemberOf[t]] = "open"]
        /\ rpc' = [rpc EXCEPT ![MemberOf[t]] = "recv"]
    BY <1>1, <2>1 DEF Connect, Started
  <2> QED
    BY <2>1, <2>2 DEF Started, SocketsKept, Typed
<1>2. ASSUME NEW t \in Threads, Disconnect(t) PROVE Started' /\ SocketsKept
  BY <1>2, MulticastAssumption DEF Disconnect, Stop, receiver, Started, SocketsKept, Typed
<1>3. ASSUME NEW m \in Members, RRecv(m) \/ RProcess(m) \/ RReceipt(m)
      PROVE  Started' /\ SocketsKept
  <2>1. sockets' = sockets \/ sockets' = [sockets EXCEPT ![m] = "gone"]
    BY <1>3 DEF RRecv, RProcess, RReceipt, Goto, End
  <2>2. \E l \in {"recv", "process", "receipt", "done"} : rpc' = [rpc EXCEPT ![m] = l]
    BY <1>3 DEF RRecv, RProcess, RReceipt, Goto, End
  <2> QED
    BY <2>1, <2>2 DEF Started, SocketsKept, Typed
<1>4. CASE UNCHANGED <<sockets, rpc>>
  BY <1>4 DEF Started, SocketsKept
<1> QED
  BY ZenonT(30), <1>1, <1>2, <1>3, <1>4
  DEF Next, CommitFrame, CommitEnd, Unsubscribe, Subscribe, Send, Begin, Commit, Abort, receiver

\* What does not concern messages under way and transactions keeps the rest.
LEMMA NothingSent ==
  ASSUME MInv, SocketsKept, Receivers' /\ NoneArrives, messages' \in Nat, messages <= messages',
         UNCHANGED <<lists, transactions, pc, tx, batch, index, accepted, sent, committed, again>>
  PROVE  Senders' /\ Receivers' /\ KeptApart' /\ KeptUnsent' /\ NewOK'
<1>1. Arrives
  BY DEF NoneArrives, Arrives
<1> QED
  BY <1>1, SendersStay DEF MInv

\* A message is kept for its commit(), cast, or nothing comes of it.
LEMMA SendOK ==
  ASSUME Unshared, MInv, SocketsKept, NEW t \in Threads, NEW d \in Destinations, NEW x \in Uses[t],
         Send(t, x, d)
  PROVE  Senders' /\ Receivers' /\ KeptApart' /\ KeptUnsent' /\ NewOK'
<1> DEFINE m == MemberOf[t]
           f == Frame("SEND", messages + 1, x, d)
<1>1. /\ m \in Members /\ x \in Transactions \cup {None}
      /\ messages' = messages + 1 /\ messages \in Nat /\ messages + 1 \in 1..MaxMessages
      /\ UNCHANGED <<sockets, transactions, pc, tx, batch, index, sent, rpc, frame, delivered,
                     committed, again>>
      /\ Idle(t) /\ UNCHANGED receiver
  BY MulticastAssumption DEF MInv, Typed, Send, locals, receiver, failures
<1>2. f \in Messages /\ f.id = messages + 1 /\ f.tx = x
  BY <1>1 DEF Messages, Frames, Frame
<1>3. CASE UNCHANGED <<lists, accepted, inbox>>
  <2>1. Receivers' /\ NoneArrives
    BY <1>1, <1>3, ReceiversStay DEF MInv
  <2> QED
    BY <1>1, <1>3, <2>1, NothingSent
<1>4. CASE x = None /\ Cast(f) /\ UNCHANGED <<lists, accepted>>
  <2>1. \A n \in Members : ~Arrived(n, f.id)
    BY <1>1, <1>2 DEF MInv, NewOK
  <2>2. /\ Receivers'
        /\ \A n \in Members, id \in 1..MaxMessages : Arrived(n, id)' => Arrived(n, id) \/ id = f.id
    BY <1>1, <1>2, <1>4, <2>1, MessageCast DEF MInv
  <2>3. Arrives
    BY <1>1, <1>2, <2>2 DEF Arrives
  <2> QED
    BY <1>1, <1>4, <2>2, <2>3, SendersStay DEF MInv
<1>5. CASE /\ x # None /\ transactions[m][x] # None /\ UNCHANGED inbox
           /\ lists' = [lists EXCEPT ![transactions[m][x]] = Append(@, f)]
           /\ accepted' = [accepted EXCEPT ![m][x] = Append(@, f)]
  <2>1. Receivers' /\ NoneArrives
    BY <1>1, <1>5, ReceiversStay DEF MInv
  <2> HIDE DEF f
  <2>2. Senders' /\ KeptApart' /\ KeptUnsent' /\ NewOK'
    BY <1>1, <1>2, <1>5, <2>1, KeepOK DEF MInv
  <2> QED
    BY <2>1, <2>2
<1> QED
  BY <1>2, <1>3, <1>4, <1>5 DEF Send, Buffered, Kept

\* commit() sends the next message, or ends because it cannot.
LEMMA CommitFrameOK ==
  ASSUME Unshared, MInv, NEW t \in Threads, CommitFrame(t)
  PROVE  Senders' /\ Receivers' /\ KeptApart' /\ KeptUnsent' /\ NewOK'
<1> USE DEF MInv
<1>1. /\ pc[t] = "commit"
      /\ UNCHANGED <<sockets, lists, transactions, messages, accepted, committed>>
      /\ UNCHANGED receiver /\ UNCHANGED <<rpc, frame, delivered>>
  BY DEF CommitFrame, receiver
<1>2. /\ lists[batch[t]] = List(t) /\ CommitOK(t) /\ index[t] \in Nat /\ index[t] < Len(List(t))
      /\ Len(List(t)) \in Nat
  BY <1>1, ListHeld DEF CommitFrame, Typed
<1>3. ASSUME Leave(t), UNCHANGED inbox,
             \/ ~CanSend(MemberOf[t]) /\ UNCHANGED again
             \/ again' = again \cup {g.id : g \in ToSet(sent[t])}
      PROVE  Senders' /\ Receivers' /\ KeptApart' /\ KeptUnsent' /\ NewOK'
  <2>1. again \subseteq again'
    BY <1>3
  <2>2. Receivers'
    BY <1>1, <1>3, <2>1, ReceiversStay
  <2>3. ~CanSend(MemberOf[t]) \/ again' = again \cup {g.id : g \in ToSet(sent[t])}
    BY <1>3
  <2> QED
    BY <1>1, <1>3, <2>1, <2>2, <2>3, CommitFails
<1>4. CASE /\ CanSend(MemberOf[t]) /\ Cast(lists[batch[t]][index[t] + 1])
           /\ index' = [index EXCEPT ![t] = @ + 1]
           /\ sent' = [sent EXCEPT ![t] = Append(@, lists[batch[t]][index[t] + 1])]
           /\ UNCHANGED <<pc, tx, batch, failures>>
  <2>1. PICK f \in Messages : f = List(t)[index[t] + 1]
    BY <1>1, <1>2, NextFrame DEF CommitFrame
  <2>2. /\ Cast(f) /\ index' = [index EXCEPT ![t] = @ + 1]
        /\ sent' = [sent EXCEPT ![t] = Append(@, f)] /\ UNCHANGED <<pc, tx, batch, again>>
    BY <1>2, <1>4, <2>1 DEF failures
  <2>3. f.id \in again \/ \A n \in Members : ~Arrived(n, f.id)
    BY <1>1, <1>2, <1>4, <2>1, NextReachedNobody
  <2>4. f.id \in committed
    BY <1>2, <2>1 DEF CommitOK
  <2>5. /\ Receivers'
        /\ \A n \in Members, id \in 1..MaxMessages : Arrived(n, id)' => Arrived(n, id) \/ id = f.id
    BY <1>1, <2>2, <2>3, <2>4, MessageCast
  <2>6. Senders' /\ KeptApart' /\ KeptUnsent' /\ NewOK'
    BY <1>1, <1>2, <1>4, <2>1, <2>2, <2>5, CommitSends
  <2> QED
    BY <2>5, <2>6
<1> QED
  BY <1>3, <1>4 DEF CommitFrame, failures

\* Every step keeps the invariant.
LEMMA MInvNext ==
  ASSUME Unshared, MInv, Next
  PROVE  MInv'
<1>1. Typed' /\ Busy'
  BY TypedThread, TypedReceiver DEF MInv, Next
<1>2. Started' /\ SocketsKept
  BY StartedNext DEF MInv
<1>3. messages \in Nat /\ messages' \in Nat
  BY <1>1 DEF MInv, Typed
<1> DEFINE Rest == Senders /\ Receivers /\ KeptApart /\ KeptUnsent /\ NewOK
<1>4. ASSUME NEW t \in Threads, Connect(t) PROVE Rest'
  <2>1. /\ UNCHANGED <<inbox, frame, delivered, committed, again>>
        /\ \A m \in Members : rpc'[m] = "process" => rpc[m] = "process"
        /\ UNCHANGED <<lists, transactions, pc, tx, batch, index, messages, accepted, sent>>
    BY <1>4, MulticastAssumption DEF Connect, app, history, failures, MInv, Typed
  <2>2. Receivers' /\ NoneArrives
    BY <2>1, ReceiversStay DEF MInv
  <2> QED
    BY <1>2, <1>3, <2>1, <2>2, NothingSent
<1>5. ASSUME UNCHANGED <<inbox, rpc, frame, delivered, lists, transactions, pc, tx, batch, index,
                         messages, accepted, sent, committed, again>>
      PROVE  Rest'
  <2>1. Receivers' /\ NoneArrives
    BY <1>5, ReceiversStay DEF MInv
  <2>2. messages <= messages'
    BY <1>3, <1>5
  <2>3. UNCHANGED <<lists, transactions, pc, tx, batch, index, accepted, sent, committed, again>>
    BY <1>5
  <2> QED
    BY <1>2, <1>3, <2>1, <2>2, <2>3, NothingSent
<1>6. ASSUME NEW t \in Threads,
             \/ Disconnect(t) \/ \E id \in Ids : Unsubscribe(t, id)
             \/ \E id \in Ids, d \in Destinations : Subscribe(t, id, d)
      PROVE  Rest'
  BY <1>5, <1>6 DEF Disconnect, Unsubscribe, Subscribe, app, history, locals, receiver, failures
<1>7. ASSUME NEW t \in Threads, NEW d \in Destinations, NEW x \in Uses[t], Send(t, x, d) PROVE Rest'
  BY <1>2, <1>7, SendOK
<1>8. ASSUME NEW t \in Threads, CommitFrame(t) PROVE Rest'
  BY <1>8, CommitFrameOK
<1>9. ASSUME NEW t \in Threads, CommitEnd(t) PROVE Rest'
  <2>1. /\ pc[t] = "commit" /\ Forget(MemberOf[t], tx[t]) /\ Leave(t)
        /\ UNCHANGED <<sockets, lists, messages, rpc, frame, delivered, inbox, committed, again>>
    BY <1>9 DEF CommitEnd, receiver, failures
  <2>2. tx[t] \in Uses[t] \ {None}
    BY <2>1 DEF MInv, Senders, CommitsOK, CommitOK
  <2>3. /\ pc'[t] = "idle" /\ index'[t] = 0 /\ sent'[t] = <<>>
        /\ \A u \in Threads : u # t => /\ pc'[u] = pc[u] /\ tx'[u] = tx[u] /\ batch'[u] = batch[u]
                                       /\ index'[u] = index[u] /\ sent'[u] = sent[u]
    BY <2>1 DEF Leave, MInv, Typed
  <2>4. Receivers'
    BY <2>1, ReceiversStay DEF MInv
  <2> QED
    BY <2>1, <2>2, <2>3, <2>4, ForgetOK DEF MInv
<1>10. ASSUME NEW t \in Threads, NEW x \in Uses[t] \ {None}, Begin(t, x) PROVE Rest'
  <2>1. Receivers'
    BY <1>10, ReceiversStay DEF Begin, receiver, failures, MInv
  <2> QED
    BY <1>10, <2>1, BeginOK DEF MInv
<1>11. ASSUME NEW t \in Threads, NEW x \in Uses[t] \ {None}, Commit(t, x) PROVE Rest'
  <2>1. Receivers'
    BY <1>11, ReceiversStay DEF Commit, receiver, failures, MInv
  <2> QED
    BY <1>11, <2>1, CommitBegins DEF MInv
<1>12. ASSUME NEW t \in Threads, NEW x \in Uses[t] \ {None}, Abort(t, x) PROVE Rest'
  <2>1. /\ pc[t] = "idle" /\ Forget(MemberOf[t], x)
        /\ UNCHANGED <<sockets, lists, messages, rpc, frame, delivered, inbox, committed, again,
                       pc, tx, batch, index, sent>>
    BY <1>12 DEF Abort, Idle, locals, receiver, failures
  <2>2. index[t] = 0 /\ sent[t] = <<>>
    BY <2>1 DEF MInv, Senders, CommitsOK
  <2>3. Receivers'
    BY <2>1, ReceiversStay DEF MInv
  <2> QED
    BY <2>1, <2>2, <2>3, ForgetOK DEF MInv
<1>13. ASSUME NEW m \in Members, RRecv(m) \/ RProcess(m) \/ RReceipt(m) PROVE Rest'
  <2>1. UNCHANGED <<lists, transactions, pc, tx, batch, index, messages, accepted, sent, committed,
                    again>>
    BY <1>13 DEF RRecv, RProcess, RReceipt, app, history, failures
  <2>2. Receivers' /\ NoneArrives
    BY <1>13, ReceiversRRecv, ReceiversRProcess, ReceiversRReceipt DEF MInv
  <2> QED
    BY <1>2, <1>3, <2>1, <2>2, NothingSent
<1>14. Rest'
  BY <1>4, <1>6, <1>7, <1>8, <1>9, <1>10, <1>11, <1>12, <1>13 DEF Next
<1> QED
  BY <1>1, <1>2, <1>14 DEF MInv

\* The invariant holds in every state when no two threads of a member share a transaction.
LEMMA MInvAlways == Unshared /\ Spec => []MInv
<1>1. Unshared /\ MInv /\ [Next]_vars => MInv'
  <2> SUFFICES ASSUME Unshared, MInv, [Next]_vars PROVE MInv'
    OBVIOUS
  <2>1. CASE UNCHANGED vars
    <3>1. UNCHANGED <<running, sockets, subscriptions, lists, transactions, pc, tx, batch, index,
                      rpc, frame, inbox, messages, raises, accepted, committed, sent, delivered,
                      again>>
      BY <2>1 DEF vars, app, receiver, history, failures
    <3>2. Typed' /\ Busy' /\ Started' /\ SocketsKept
      BY <3>1 DEF MInv, Typed, Busy, Started, SocketsKept
    <3>3. Receivers' /\ NoneArrives
      BY <3>1, ReceiversStay DEF MInv
    <3> QED
      BY <3>1, <3>2, <3>3, NothingSent DEF MInv, Typed
  <2>2. CASE Next
    BY <2>2, MInvNext
  <2> QED
    BY <2>1, <2>2
<1>2. Unshared => []Unshared
  <2>1. Unshared => Unshared'
    BY DEF Unshared
  <2> QED
    BY <2>1, PTL
<1> QED
  BY <1>1, <1>2, MInvInit, PTL DEF Spec

-----------------------------------------------------------------------------
(* The theorems *)

\* Whoever commits a transaction still has it, and its list, until all is sent, when no other
\* thread of the member uses the transaction.
THEOREM ListsAreOwned == Unshared /\ Spec => []TypeOK
<1>1. MInv => TypeOK
  <2> SUFFICES ASSUME MInv PROVE TypeOK
    OBVIOUS
  <2>1. lists \in Seq(Seq(Frames))
    <3>1. Messages \subseteq Frames
      BY DEF Messages
    <3>2. Seq(Messages) \subseteq Seq(Frames)
      BY <3>1
    <3> QED
      BY <3>2 DEF MInv, Typed
  <2>2. transactions \in [Members -> [Transactions -> (DOMAIN lists) \cup {None}]]
    <3>1. DOMAIN lists = 1..Len(lists)
      BY LenProperties DEF MInv, Typed
    <3> QED
      BY <3>1 DEF MInv, Typed
  <2>3. ASSUME NEW t \in Threads, pc[t] = "commit"
        PROVE  batch[t] = transactions[MemberOf[t]][tx[t]] /\ index[t] \in 0..Len(lists[batch[t]])
    BY <2>3, ListHeld DEF CommitOK, MInv
  <2> QED
    BY <2>1, <2>2, <2>3 DEF TypeOK, MInv, Typed
<1> QED
  BY <1>1, MInvAlways, PTL

\* No message of a transaction leaves its member before commit() is called for it, when no
\* other thread of the member uses the transaction.
THEOREM OnlyCommitsAreSent == Unshared /\ Spec => []OnlyCommitted
<1>1. MInv => OnlyCommitted
  BY DEF MInv, Receivers, FromCommits
<1> QED
  BY <1>1, MInvAlways, PTL

\* No message reaches the listeners of a member twice, however many transactions the members
\* begin, commit and abort, when no two threads of a member share one; but for those that a
\* commit() had sent when transmit() raised, with the socket open.
THEOREM NothingComesTwice == Unshared /\ Spec => []DeliveredOnce
<1>1. MInv => DeliveredOnce
  BY DEF MInv, Receivers, OncePerMember, DeliveredOnce
<1> QED
  BY <1>1, MInvAlways, PTL

\* A commit() that returns has sent all that send() took for the transaction, once and in order.
THEOREM CommitsAreWhole == Unshared /\ Spec => CommitIsWhole
<1>1. ASSUME MInv, Next, NEW t \in Threads, pc[t] = "commit", pc'[t] = "idle",
             transactions'[MemberOf[t]][tx[t]] = None
      PROVE  sent[t] = accepted[MemberOf[t]][tx[t]]
  <2>1. Typed
    BY <1>1 DEF MInv
  <2>2. /\ MemberOf[t] \in Members /\ tx[t] \in Transactions /\ CommitOK(t)
        /\ lists[batch[t]] = List(t) /\ List(t) \in Seq(Messages) /\ Len(List(t)) \in Nat
    BY <1>1, ListHeld DEF MInv
  <2>3. CommitFrame(t) \/ CommitEnd(t)
    <3>1. ASSUME NEW u \in Threads,
                 \/ CommitFrame(u) \/ CommitEnd(u) \/ \E x \in Uses[u] : Commit(u, x)
          PROVE  u = t
      BY <1>1, <2>1, <3>1 DEF CommitFrame, CommitEnd, Commit, Leave, Idle, Typed
    <3>2. \A x : ~Commit(t, x)
      BY <1>1 DEF Commit, Idle
    <3>3. pc' # pc
      BY <1>1
    <3> QED
      BY ZenonT(30), <1>1, <3>1, <3>2, <3>3
      DEF Next, Connect, Disconnect, Unsubscribe, Subscribe, Send, Begin, Abort, RRecv, RProcess,
          RReceipt, app, locals
  <2>4. ~CommitFrame(t)
    <3>1. transactions[MemberOf[t]][tx[t]] # None
      BY <2>2 DEF CommitOK
    <3> QED
      BY <1>1, <3>1 DEF CommitFrame
  <2>5. index[t] = Len(List(t)) /\ Len(sent[t]) = Len(List(t)) /\ sent[t] \in Seq(Messages)
    BY <2>1, <2>2, <2>3, <2>4 DEF CommitEnd, CommitOK, Typed
  <2>6. \A i \in 1..Len(sent[t]) : sent[t][i] = List(t)[i]
    BY <2>2, <2>5 DEF CommitOK
  <2> QED
    BY <2>2, <2>5, <2>6, SeqEqual DEF List
<1>2. MInv /\ [Next]_vars =>
        [\A t \in Threads :
           pc[t] = "commit" /\ pc'[t] = "idle" /\ transactions'[MemberOf[t]][tx[t]] = None
             => sent[t] = accepted[MemberOf[t]][tx[t]]]_vars
  BY <1>1
<1> QED
  BY <1>2, MInvAlways, PTL DEF Spec, CommitIsWhole
=============================================================================
