-------------------------- MODULE CommandLineProofs --------------------------
(***************************************************************************)
(* What is given in a transaction of the command line client is handled    *)
(* atomically: a theorem about every sequence of commands in which         *)
(* sendreply is not used in a transaction, and every moment at which the   *)
(* connection may be lost.  And the client's tables are the broker's, when *)
(* it has handled what is on its way, whatever the commands.               *)
(*                                                                         *)
(* The broker learns of a transaction from frames that arrive in order,    *)
(* and of which a lost connection keeps a prefix.  The argument is what    *)
(* the prefix up to a COMMIT holds: everything the transaction was given   *)
(* is before it, or at the broker already.  What the broker will have done *)
(* is a fold over the frames on their way: it is shown, by induction over  *)
(* them, that a frame sent is the last step of the fold, and that the      *)
(* broker's handling of one is its first.                                  *)
(***************************************************************************)
EXTENDS CommandLine, SequenceTheorems, WellFoundedInduction, TLAPS

Transactions == 1..begins
AnyFrame ==
  [cmd : {"SUBSCRIBE", "UNSUBSCRIBE"}, arg : Names \X Nat, transaction : {None}]
    \cup [cmd : {"BEGIN", "COMMIT", "ABORT"}, arg : {None}, transaction : Nat]
    \cup [cmd : {"OPERATION"}, arg : Nat, transaction : {None} \cup Nat]
    \cup [cmd : {"END"}, arg : {None}, transaction : {None}]
Brokers == [subs : SUBSET (Names \X Nat), open : SUBSET Nat, held : SUBSET (Nat \X Nat),
            handled : SUBSET Nat]

Typed ==
  /\ wire \in Seq(AnyFrame)
  /\ broker \in Brokers
  /\ subscriptions \in [Names -> Nat \cup {None}] /\ subscription_id \in Nat
  /\ begins \in Nat /\ done \in Nat /\ transaction_id \in {None} \cup {begins}
  /\ during \in SUBSET (Nat \X Nat) /\ commits \subseteq 1..begins

\* an operation is given once, in one transaction, and the broker knows no other
Numbers ==
  /\ \A t, o \in Nat : <<t, o>> \in during => t \in Transactions /\ o \in 1..done
  /\ \A t, u, o \in Nat : <<t, o>> \in during /\ <<u, o>> \in during => t = u
  /\ broker.held \subseteq during /\ broker.handled \subseteq 1..done

\* what the frames on their way say is true
Operations ==
  \A i \in 1..Len(wire) : wire[i].cmd = "OPERATION" =>
    /\ wire[i].arg \in 1..done
    /\ wire[i].transaction # None => <<wire[i].transaction, wire[i].arg>> \in during
    /\ wire[i].transaction = None => \A t \in Nat : <<t, wire[i].arg>> \notin during
Endings ==
  /\ transaction_id # None => transaction_id \in Nat \ {0} /\ transaction_id \notin commits
  /\ \A i \in 1..Len(wire) :
       /\ wire[i].cmd = "COMMIT" => wire[i].transaction \in commits
       /\ wire[i].cmd = "ABORT" =>
            /\ wire[i].transaction \in 1..begins \ commits
            /\ wire[i].transaction # transaction_id
       /\ wire[i].cmd = "END" => i = Len(wire) /\ (link # "up" \/ main = "ended")

\* operation o of transaction t is at the broker, or before frame k
Before(t, o, k) ==
  \/ <<t, o>> \in broker.held
  \/ \E j \in 1..Len(wire) : j < k /\ wire[j] = Frame("OPERATION", o, t)
\* a COMMIT comes after all that its transaction was given, ...
Commits ==
  \A t, o \in Nat, k \in 1..Len(wire) :
    <<t, o>> \in during /\ wire[k].cmd = "COMMIT" /\ wire[k].transaction = t =>
      Before(t, o, k) \/ Given(t) \subseteq broker.handled
\* ... and so would the COMMIT of the transaction that is open
Open ==
  link = "up" /\ main # "ended" =>
    \A t, o \in Nat : t = transaction_id /\ <<t, o>> \in during => Before(t, o, Len(wire) + 1)

AtomicInv == Typed /\ Numbers /\ Operations /\ Endings /\ Commits /\ Open /\ Atomically
-----------------------------------------------------------------------------
(* Facts about the state *)

\* What the types say of the parts of the state the steps below move.
LEMMA TypeFacts ==
  ASSUME Typed
  PROVE  /\ Len(wire) \in Nat /\ (wire # <<>> => Len(wire) >= 1)
         /\ \A i \in 1..Len(wire) : wire[i] \in AnyFrame
         /\ broker.held \subseteq Nat \X Nat /\ broker.handled \subseteq Nat
BY LenProperties, EmptySeq DEF Typed, Brokers
\* An operation is given in a transaction when the history says so.
LEMMA GivenIs ==
  ASSUME Typed, NEW t \in Nat
  PROVE  \A o : o \in Given(t) <=> <<t, o>> \in during
<1>1. \A x \in during : x = <<x[1], x[2]>> /\ x[2] \in Nat
  BY DEF Typed
<1>2. \A o : o \in Given(t) => <<t, o>> \in during
  BY <1>1 DEF Given
<1>3. ASSUME NEW o, <<t, o>> \in during PROVE o \in Given(t)
  <2>1. PICK x : x = <<t, o>>
    OBVIOUS
  <2>2. x \in during /\ x[1] = t /\ x[2] = o
    BY <1>3, <2>1
  <2> QED
    BY <2>2 DEF Given
<1> QED
  BY <1>2, <1>3

-----------------------------------------------------------------------------
(* The frame a command sends *)

\* frame f is the last on its way, or the connection is lost and it is not
Sent(f) ==
  /\ UNCHANGED <<link, main, broker>> /\ link # "known"
  /\ wire' \in Seq(AnyFrame) /\ Len(wire) \in Nat /\ Len(wire') \in Nat
  /\ \A i \in 1..Len(wire) : i \in 1..Len(wire') /\ wire'[i] = wire[i]
  /\ \A i \in 1..Len(wire') :
       i \in 1..Len(wire) \/ (i = Len(wire) + 1 /\ wire'[i] = f /\ link = "up")
  /\ IF link = "up" THEN Len(wire') = Len(wire) + 1 /\ wire'[Len(wire) + 1] = f
     ELSE wire' = wire

\* That is what a command does that sends a frame.
LEMMA TransmitSends ==
  ASSUME Typed, NEW f \in AnyFrame, Transmit(f)
  PROVE  Sent(f)
<1>1. Len(wire) \in Nat /\ wire \in Seq(AnyFrame)
  BY TypeFacts DEF Typed
<1>2. /\ Append(wire, f) \in Seq(AnyFrame) /\ Len(Append(wire, f)) = Len(wire) + 1
      /\ \A i \in 1..Len(wire) : Append(wire, f)[i] = wire[i]
      /\ Append(wire, f)[Len(wire) + 1] = f
  BY <1>1, AppendProperties
<1> QED
  BY <1>1, <1>2 DEF Transmit, Sent

\* What was before a frame is still before it, ...
LEMMA BeforeKept ==
  ASSUME NEW f, Sent(f), NEW t, NEW o, NEW k
  PROVE  Before(t, o, k) => Before(t, o, k)'
BY DEF Sent, Before
\* ... what was before the end is, ...
LEMMA StillBefore ==
  ASSUME NEW f, Sent(f), NEW t, NEW o
  PROVE  Before(t, o, Len(wire) + 1) => Before(t, o, Len(wire) + 1)'
BY DEF Sent, Before
\* ... and the frames that were on their way say nothing new.
LEMMA OldFrames ==
  ASSUME NEW f, Sent(f), NEW i \in 1..Len(wire'), f.cmd # wire'[i].cmd \/ link # "up"
  PROVE  i \in 1..Len(wire) /\ wire'[i] = wire[i]
BY DEF Sent

\* A frame that neither does nor ends anything, sent by a command that does
\* nothing else to the transaction.
LEMMA QuietKeeps ==
  ASSUME AtomicInv, NEW f \in AnyFrame, f.cmd \in {"SUBSCRIBE", "UNSUBSCRIBE"}, Transmit(f),
         main # "ended", UNCHANGED <<transaction_id, history>>,
         subscriptions' \in [Names -> Nat \cup {None}], subscription_id' \in Nat
  PROVE  AtomicInv'
<1> USE DEF AtomicInv
<1>1. Sent(f) /\ UNCHANGED <<transaction_id, done, during, begins, commits>>
  BY TransmitSends DEF history
<1>2. \A i \in 1..Len(wire') :
        wire'[i].cmd \in {"COMMIT", "ABORT", "OPERATION", "END"} =>
          i \in 1..Len(wire) /\ wire'[i] = wire[i]
  BY <1>1 DEF Sent
<1>3. Typed' /\ Numbers' /\ Atomically'
  BY <1>1 DEF Sent, Typed, Numbers, Transactions, Atomically, Given
<1>4. Operations'
  BY <1>1, <1>2 DEF Sent, Operations
<1>5. Endings'
  BY <1>1, <1>2, TypeFacts DEF Sent, Endings
<1>6. Commits'
  <2> SUFFICES ASSUME NEW t \in Nat, NEW o \in Nat, NEW k \in 1..Len(wire'),
                      <<t, o>> \in during', wire'[k].cmd = "COMMIT", wire'[k].transaction = t
               PROVE  (Before(t, o, k) \/ Given(t) \subseteq broker.handled)'
    BY DEF Commits
  <2>1. Before(t, o, k) \/ Given(t) \subseteq broker.handled
    BY <1>1, <1>2 DEF Commits
  <2>2. Given(t)' = Given(t) /\ UNCHANGED broker
    BY <1>1 DEF Given, Sent
  <2> QED
    BY <1>1, <2>1, <2>2, BeforeKept
<1>7. Open'
  BY <1>1, StillBefore DEF Sent, Open
<1> QED
  BY <1>3, <1>4, <1>5, <1>6, <1>7

\* A message or an acknowledgement is behind what is on its way, and the
\* transaction it is given in has not ended.
LEMMA OperationKeeps ==
  ASSUME AtomicInv, Operation(transaction_id)
  PROVE  AtomicInv'
<1> USE DEF AtomicInv
<1> DEFINE f == Frame("OPERATION", done + 1, transaction_id)
<1>1. /\ done' = done + 1 /\ main # "ended"
      /\ UNCHANGED <<transaction_id, begins, commits, subscriptions, subscription_id>>
      /\ during' = IF transaction_id = None THEN during
                   ELSE during \cup {<<transaction_id, done + 1>>}
  BY DEF Operation, Reading, tables
<1>2. f \in AnyFrame /\ done + 1 \in Nat /\ (transaction_id # None => transaction_id \in Nat \ {0})
  BY DEF Typed, AnyFrame, Frame, Endings
<1>3. Sent(f)
  BY <1>1, <1>2, TransmitSends DEF Operation
<1>4. /\ f.cmd = "OPERATION" /\ f.arg = done + 1 /\ f.transaction = transaction_id
      /\ \A t, o \in Nat :
           <<t, o>> \in during' <=> <<t, o>> \in during \/ (t = transaction_id /\ o = done + 1)
  BY <1>1, <1>2, NoneAssumption DEF Frame
<1>5. Typed'
  BY <1>1, <1>2, <1>3 DEF Typed, Sent
<1>6. Numbers'
  <2>1. \A t, o \in Nat : <<t, o>> \in during' => t \in Transactions' /\ o \in 1..done'
    BY <1>1, <1>2, <1>4 DEF Typed, Numbers, Transactions
  <2>2. \A t, u, o \in Nat : <<t, o>> \in during' /\ <<u, o>> \in during' => t = u
    BY <1>2, <1>4 DEF Typed, Numbers
  <2>3. broker'.held \subseteq during' /\ broker'.handled \subseteq 1..done'
    BY <1>1, <1>3 DEF Typed, Numbers, Sent
  <2> QED
    BY <2>1, <2>2, <2>3 DEF Numbers
<1>7. Operations'
  <2> SUFFICES ASSUME NEW i \in 1..Len(wire'), wire'[i].cmd = "OPERATION"
               PROVE  /\ wire'[i].arg \in 1..done'
                      /\ wire'[i].transaction # None =>
                           <<wire'[i].transaction, wire'[i].arg>> \in during'
                      /\ wire'[i].transaction = None =>
                           \A t \in Nat : <<t, wire'[i].arg>> \notin during'
    BY DEF Operations
  <2>1. CASE wire'[i] = f
    BY <1>1, <1>2, <1>4, <2>1 DEF Typed, Numbers
  <2>2. CASE i \in 1..Len(wire) /\ wire'[i] = wire[i]
    <3>1. /\ wire'[i].arg \in 1..done /\ done \in Nat
          /\ wire'[i].transaction # None => <<wire'[i].transaction, wire'[i].arg>> \in during
          /\ wire'[i].transaction = None => \A t \in Nat : <<t, wire'[i].arg>> \notin during
      BY <2>2 DEF Operations, Typed
    <3> QED
      BY <1>1, <1>4, <3>1
  <2> QED
    BY <1>3, <2>1, <2>2 DEF Sent
<1>8. Endings'
  <2>1. \A i \in 1..Len(wire') :
          wire'[i].cmd # "OPERATION" => i \in 1..Len(wire) /\ wire'[i] = wire[i]
    BY <1>3, <1>4 DEF Sent
  <2> QED
    BY <1>1, <1>3, <2>1 DEF Sent, Endings
<1>9. ASSUME NEW t \in Nat, t # transaction_id PROVE Given(t)' = Given(t)
  BY <1>1, <1>9 DEF Given
<1>10. Atomically'
  <2> SUFFICES ASSUME NEW t \in 1..begins, (Given(t) \cap broker.handled # {})'
               PROVE  (t \in commits /\ Given(t) \subseteq broker.handled)'
    BY <1>1 DEF Atomically
  <2>1. t \in Nat /\ UNCHANGED <<broker, commits>>
    BY <1>1, <1>3 DEF Sent, Typed
  <2>2. CASE t = transaction_id
    <3>1. PICK o : o \in Given(t)' /\ o \in broker.handled
      BY <2>1
    <3>2. o \in Given(t)
      BY <1>1, <1>2, <2>1, <3>1 DEF Given, Typed, Numbers
    <3>3. t \in commits
      BY <3>1, <3>2 DEF Atomically
    <3> QED
      BY <1>2, <2>2, <3>3, NoneAssumption DEF Endings
  <2>3. CASE t # transaction_id
    BY <1>9, <2>1, <2>3 DEF Atomically
  <2> QED
    BY <2>2, <2>3
<1>11. Commits'
  <2> SUFFICES ASSUME NEW t \in Nat, NEW o \in Nat, NEW k \in 1..Len(wire'),
                      <<t, o>> \in during', wire'[k].cmd = "COMMIT", wire'[k].transaction = t
               PROVE  (Before(t, o, k) \/ Given(t) \subseteq broker.handled)'
    BY DEF Commits
  <2>1. k \in 1..Len(wire) /\ wire'[k] = wire[k] /\ broker' = broker
    BY <1>3, <1>4 DEF Sent
  <2>2. t \in commits /\ t # transaction_id
    BY <1>2, <2>1, NoneAssumption DEF Endings
  <2>3. Before(t, o, k) \/ Given(t) \subseteq broker.handled
    BY <1>4, <2>1, <2>2 DEF Commits
  <2> QED
    BY <1>3, <1>9, <2>1, <2>2, <2>3, BeforeKept
<1>12. Open'
  <2> SUFFICES ASSUME link = "up", NEW t \in Nat, NEW o \in Nat, t = transaction_id,
                      <<t, o>> \in during'
               PROVE  Before(t, o, Len(wire) + 1)'
    BY <1>1, <1>3 DEF Open, Sent
  <2>1. CASE <<t, o>> \in during
    BY <1>1, <1>3, <2>1, StillBefore DEF Open
  <2>2. CASE o = done + 1
    BY <1>3, <2>2 DEF Sent, Before
  <2> QED
    BY <1>4, <2>1, <2>2
<1> QED
  BY <1>5, <1>6, <1>7, <1>8, <1>10, <1>11, <1>12

\* A transaction that begins has a number nobody has heard of.
LEMMA BeginKeeps ==
  ASSUME AtomicInv, Begin
  PROVE  AtomicInv'
<1> USE DEF AtomicInv
<1> DEFINE f == Frame("BEGIN", None, begins + 1)
<1>1. /\ begins' = begins + 1 /\ transaction_id' = begins + 1 /\ main # "ended"
      /\ UNCHANGED <<subscriptions, subscription_id, done, during, commits>>
  BY DEF Begin, Reading
<1>2. f \in AnyFrame /\ begins \in Nat
  BY DEF Typed, AnyFrame, Frame
<1>3. Sent(f) /\ f.cmd = "BEGIN"
  BY <1>1, <1>2, TransmitSends DEF Begin, Frame
<1>4. \A i \in 1..Len(wire') :
        wire'[i].cmd \in {"COMMIT", "ABORT", "OPERATION", "END"} =>
          i \in 1..Len(wire) /\ wire'[i] = wire[i]
  BY <1>3 DEF Sent
<1>5. \A t \in Nat : t \in 1..begins' => t \in 1..begins \/ t = begins + 1
  BY <1>1, <1>2
<1>6. \A o \in Nat : <<begins + 1, o>> \notin during
  BY <1>2 DEF Numbers, Transactions
<1>7. Typed' /\ Numbers'
  <2>1. begins' \in Nat /\ \A t \in 1..begins : t \in 1..begins'
    BY <1>1, <1>2
  <2>2. Typed'
    BY <1>1, <1>3, <2>1 DEF Sent, Typed
  <2>3. Numbers'
    BY <1>1, <1>3, <2>1 DEF Sent, Numbers, Transactions
  <2> QED
    BY <2>2, <2>3
<1>8. Operations'
  BY <1>1, <1>3, <1>4 DEF Sent, Operations
<1>9. Endings'
  <2>1. begins' \in Nat \ {0} /\ begins' \notin commits'
    BY <1>1, <1>2 DEF Typed
  <2>2. \A x \in 1..begins : x \in 1..begins' /\ x # begins'
    BY <1>1, <1>2
  <2>3. ASSUME NEW i \in 1..Len(wire')
        PROVE  /\ wire'[i].cmd = "COMMIT" => wire'[i].transaction \in commits'
               /\ wire'[i].cmd = "ABORT" =>
                    /\ wire'[i].transaction \in 1..begins' \ commits'
                    /\ wire'[i].transaction # transaction_id'
               /\ wire'[i].cmd = "END" => i = Len(wire') /\ (link # "up" \/ main = "ended")
    BY <1>1, <1>3, <1>4, <2>2 DEF Sent, Endings
  <2> QED
    BY <1>1, <1>3, <2>1, <2>3 DEF Sent, Endings
<1>10. \A t : Given(t)' = Given(t)
  BY <1>1 DEF Given
<1>11. Atomically'
  <2>1. Given(begins + 1) = {}
    <3> SUFFICES ASSUME NEW x \in during, x[1] = begins + 1 PROVE FALSE
      BY DEF Given
    <3>1. x = <<begins + 1, x[2]>> /\ x[2] \in Nat
      BY DEF Typed
    <3> QED
      BY <1>6, <3>1
  <2>2. UNCHANGED <<broker, commits>>
    BY <1>1, <1>3 DEF Sent
  <2> SUFFICES ASSUME NEW t \in 1..begins', Given(t) \cap broker.handled # {}
               PROVE  t \in commits /\ Given(t) \subseteq broker.handled
    BY <1>10, <2>2 DEF Atomically
  <2>3. t \in 1..begins
    BY <1>1, <1>2, <2>1
  <2> QED
    BY <2>3 DEF Atomically
<1>12. Commits'
  <2> SUFFICES ASSUME NEW t \in Nat, NEW o \in Nat, NEW k \in 1..Len(wire'),
                      <<t, o>> \in during', wire'[k].cmd = "COMMIT", wire'[k].transaction = t
               PROVE  (Before(t, o, k) \/ Given(t) \subseteq broker.handled)'
    BY DEF Commits
  <2>1. Before(t, o, k) \/ Given(t) \subseteq broker.handled
    BY <1>1, <1>4 DEF Commits
  <2> QED
    BY <1>3, <1>10, <2>1, BeforeKept DEF Sent
<1>13. Open'
  BY <1>1, <1>6 DEF Open
<1> QED
  BY <1>7, <1>8, <1>9, <1>11, <1>12, <1>13

\* COMMIT and ABORT are behind what the transaction was given, and end it.
LEMMA EndKeeps ==
  ASSUME AtomicInv, Commit \/ Abort
  PROVE  AtomicInv'
<1> USE DEF AtomicInv
<1>1. PICK c \in {"COMMIT", "ABORT"} :
        /\ Transmit(Frame(c, None, transaction_id)) /\ transaction_id' = None
        /\ commits' = IF c = "COMMIT" THEN commits \cup {transaction_id} ELSE commits
        /\ main # "ended" /\ transaction_id # None
        /\ UNCHANGED <<subscriptions, subscription_id, done, during, begins>>
  BY DEF Commit, Abort, Reading, history
<1> DEFINE f == Frame(c, None, transaction_id)
<1>2. PICK x : x = transaction_id
  OBVIOUS
<1>3. /\ f \in AnyFrame /\ f.cmd = c /\ f.transaction = x /\ x \in 1..begins /\ x \in Nat
      /\ x \notin commits
  BY <1>1, <1>2 DEF Typed, AnyFrame, Frame, Endings
<1>4. Sent(f)
  BY <1>1, <1>3, TransmitSends
<1>5. Typed' /\ Numbers'
  BY <1>1, <1>2, <1>3, <1>4 DEF Sent, Typed, Numbers, Transactions
<1>6. Operations'
  <2>1. \A i \in 1..Len(wire') :
          wire'[i].cmd = "OPERATION" => i \in 1..Len(wire) /\ wire'[i] = wire[i]
    BY <1>3, <1>4 DEF Sent
  <2> QED
    BY <1>1, <1>4, <2>1 DEF Sent, Operations
<1>7. Endings'
  <2> SUFFICES ASSUME NEW i \in 1..Len(wire')
               PROVE  /\ wire'[i].cmd = "COMMIT" => wire'[i].transaction \in commits'
                      /\ wire'[i].cmd = "ABORT" =>
                           wire'[i].transaction \in 1..begins \ commits'
                      /\ wire'[i].cmd = "END" =>
                           i = Len(wire') /\ (link # "up" \/ main = "ended")
    <3>1. \A y \in 1..begins : y # None
      BY NoneAssumption DEF Typed
    <3> QED
      BY <1>1, <1>4, <3>1 DEF Sent, Endings
  <2>1. CASE wire'[i] = f
    BY <1>1, <1>2, <1>3, <2>1
  <2>2. CASE i \in 1..Len(wire) /\ wire'[i] = wire[i]
    BY <1>1, <1>2, <1>4, <2>2 DEF Sent, Endings
  <2> QED
    BY <1>4, <2>1, <2>2 DEF Sent
<1>8. \A t : Given(t)' = Given(t)
  BY <1>1 DEF Given
<1>9. Atomically'
  BY <1>1, <1>4, <1>8 DEF Sent, Atomically
<1>10. Commits'
  <2> SUFFICES ASSUME NEW t \in Nat, NEW o \in Nat, NEW k \in 1..Len(wire'),
                      <<t, o>> \in during', wire'[k].cmd = "COMMIT", wire'[k].transaction = t
               PROVE  (Before(t, o, k) \/ Given(t) \subseteq broker.handled)'
    BY DEF Commits
  <2>1. CASE k \in 1..Len(wire) /\ wire'[k] = wire[k]
    <3>1. Before(t, o, k) \/ Given(t) \subseteq broker.handled
      BY <1>1, <2>1 DEF Commits
    <3> QED
      BY <1>4, <1>8, <3>1, BeforeKept DEF Sent
  <2>2. CASE k = Len(wire) + 1 /\ wire'[k] = f /\ link = "up"
    <3>1. t = transaction_id
      BY <1>2, <1>3, <2>2
    <3>2. Before(t, o, k)
      BY <1>1, <2>2, <3>1 DEF Open
    <3> QED
      BY <1>4, <3>2, BeforeKept
  <2> QED
    BY <1>4, <2>1, <2>2 DEF Sent
<1>11. Open'
  BY <1>1, NoneAssumption DEF Open
<1> QED
  BY <1>5, <1>6, <1>7, <1>9, <1>10, <1>11

\* The program ends behind everything it has sent.
LEMMA LeaveKeeps ==
  ASSUME AtomicInv, Leave, main # "ended"
  PROVE  AtomicInv'
<1> USE DEF AtomicInv
<1>1. /\ main' = "ended" /\ wire' = IF link = "up" THEN Append(wire, End) ELSE wire
      /\ UNCHANGED <<subscriptions, subscription_id, transaction_id, link, broker, done, during,
                     begins, commits>>
  BY DEF Leave, tables, history
<1>2. End \in AnyFrame /\ End.cmd = "END" /\ Len(wire) \in Nat
  BY TypeFacts DEF AnyFrame, End, Frame
<1>3. /\ wire' \in Seq(AnyFrame) /\ Len(wire') \in {Len(wire), Len(wire) + 1}
      /\ \A i \in 1..Len(wire) : i \in 1..Len(wire') /\ wire'[i] = wire[i]
      /\ \A i \in 1..Len(wire') :
           \/ i \in 1..Len(wire)
           \/ i = Len(wire') /\ wire'[i] = End
  <2>1. /\ Append(wire, End) \in Seq(AnyFrame) /\ Len(Append(wire, End)) = Len(wire) + 1
        /\ \A i \in 1..Len(wire) : Append(wire, End)[i] = wire[i]
        /\ Append(wire, End)[Len(wire) + 1] = End
    BY <1>2, AppendProperties DEF Typed
  <2>2. CASE wire' = wire
    BY <1>2, <2>2 DEF Typed
  <2>3. CASE wire' = Append(wire, End)
    BY <1>2, <2>1, <2>3
  <2> QED
    BY <1>1, <2>2, <2>3
<1>4. \A i \in 1..Len(wire') :
        wire'[i].cmd # "END" => i \in 1..Len(wire) /\ wire'[i] = wire[i]
  BY <1>2, <1>3
<1>5. Typed' /\ Numbers' /\ Atomically'
  BY <1>1, <1>3 DEF Typed, Numbers, Transactions, Atomically, Given
<1>6. Operations'
  BY <1>1, <1>4 DEF Operations
<1>7. Endings'
  <2>1. CASE link = "up"
    BY <1>1, <1>3, <1>4, <2>1 DEF Endings
  <2>2. CASE link # "up"
    BY <1>1, <2>2 DEF Endings
  <2> QED
    BY <2>1, <2>2
<1>8. Commits'
  <2> SUFFICES ASSUME NEW t \in Nat, NEW o \in Nat, NEW k \in 1..Len(wire'),
                      <<t, o>> \in during', wire'[k].cmd = "COMMIT", wire'[k].transaction = t
               PROVE  (Before(t, o, k) \/ Given(t) \subseteq broker.handled)'
    BY DEF Commits
  <2>1. Before(t, o, k) \/ Given(t) \subseteq broker.handled
    BY <1>1, <1>4 DEF Commits
  <2> QED
    BY <1>1, <1>3, <2>1 DEF Before, Given
<1>9. Open'
  BY <1>1 DEF Open
<1> QED
  BY <1>5, <1>6, <1>7, <1>8, <1>9

-----------------------------------------------------------------------------
(* The broker, and the network *)

\* A lost connection keeps the first frames on their way, and ends there.
LEMMA LoseKeeps ==
  ASSUME AtomicInv, Lose
  PROVE  AtomicInv'
<1> USE DEF AtomicInv
<1>1. /\ link' = "lost" /\ link = "up" /\ main # "ended"
      /\ UNCHANGED <<subscriptions, subscription_id, transaction_id, main, broker, done, during,
                     begins, commits>>
  BY DEF Lose, tables, history
<1>2. PICK n \in 0..Len(wire) : wire' = Append(SubSeq(wire, 1, n), End)
  BY DEF Lose
<1>3. End \in AnyFrame /\ End.cmd = "END" /\ Len(wire) \in Nat
  BY TypeFacts DEF AnyFrame, End, Frame
<1>4. /\ wire' \in Seq(AnyFrame) /\ Len(wire') = n + 1
      /\ \A i \in 1..n : i \in 1..Len(wire) /\ i \in 1..Len(wire') /\ wire'[i] = wire[i]
      /\ wire'[n + 1] = End
  <2>1. \A i \in 1..n : wire[i] \in AnyFrame /\ i \in 1..Len(wire)
    BY <1>3, TypeFacts
  <2>2. /\ SubSeq(wire, 1, n) \in Seq(AnyFrame) /\ Len(SubSeq(wire, 1, n)) = n
        /\ \A i \in 1..n : SubSeq(wire, 1, n)[i] = wire[i]
    <3>1. n \in Int /\ 1 \in Int /\ n - 1 + 1 = n /\ n >= 0 /\ \A i \in 1..n : 1 + i - 1 = i
      OBVIOUS
    <3>2. /\ SubSeq(wire, 1, n) \in Seq(AnyFrame)
          /\ Len(SubSeq(wire, 1, n)) = IF 1 <= n THEN n - 1 + 1 ELSE 0
          /\ \A i \in 1..(n - 1 + 1) : SubSeq(wire, 1, n)[i] = wire[1 + i - 1]
      BY <2>1, <3>1, SubSeqProperties
    <3> QED
      BY <3>1, <3>2
  <2> QED
    BY <1>2, <1>3, <2>1, <2>2, AppendProperties
<1>5. \A i \in 1..Len(wire') :
        /\ wire'[i].cmd # "END" => i \in 1..n /\ i \in 1..Len(wire) /\ wire'[i] = wire[i]
        /\ i \in 1..n \/ i = Len(wire')
  BY <1>3, <1>4
<1>6. Typed' /\ Numbers' /\ Atomically'
  BY <1>1, <1>4 DEF Typed, Numbers, Transactions, Atomically, Given
<1>7. Operations'
  BY <1>1, <1>5 DEF Operations
<1>8. Endings'
  <2>1. \A i \in 1..n : wire'[i].cmd # "END"
    BY <1>1, <1>4 DEF Endings
  <2> QED
    BY <1>1, <1>5, <2>1 DEF Endings
<1>9. Commits'
  <2> SUFFICES ASSUME NEW t \in Nat, NEW o \in Nat, NEW k \in 1..Len(wire'),
                      <<t, o>> \in during', wire'[k].cmd = "COMMIT", wire'[k].transaction = t
               PROVE  (Before(t, o, k) \/ Given(t) \subseteq broker.handled)'
    BY DEF Commits
  <2>1. k \in 1..n /\ k \in 1..Len(wire) /\ wire'[k] = wire[k]
    BY <1>5
  <2>2. Before(t, o, k) \/ Given(t) \subseteq broker.handled
    BY <1>1, <2>1 DEF Commits
  <2> QED
    BY <1>1, <1>4, <2>1, <2>2 DEF Before, Given
<1>10. Open'
  BY <1>1 DEF Open
<1> QED
  BY <1>6, <1>7, <1>8, <1>9, <1>10

\* What a broker does with a frame.
LEMMA Applies ==
  ASSUME NEW a \in Brokers, NEW f \in AnyFrame, NEW b, b = Apply(a, f)
  PROVE  /\ b \in Brokers /\ a.handled \subseteq b.handled
         /\ f.cmd = "SUBSCRIBE" => b.subs = a.subs \cup {f.arg} /\ b.open = a.open
         /\ f.cmd = "UNSUBSCRIBE" => b.subs = a.subs \ {f.arg} /\ b.open = a.open
         /\ f.cmd = "BEGIN" => b.subs = a.subs /\ b.open = a.open \cup {f.transaction}
         /\ f.cmd \in {"COMMIT", "ABORT"} =>
              /\ b.subs = a.subs /\ b.open = a.open \ {f.transaction}
              /\ b.held = {x \in a.held : x[1] # f.transaction}
         /\ f.cmd = "OPERATION" => b.subs = a.subs /\ b.open = a.open
         /\ f.cmd \in {"SUBSCRIBE", "UNSUBSCRIBE", "BEGIN"} =>
              b.held = a.held /\ b.handled = a.handled
         /\ f.cmd = "OPERATION" /\ f.transaction = None =>
              b.held = a.held /\ b.handled = a.handled \cup {f.arg}
         /\ f.cmd = "OPERATION" /\ f.transaction # None =>
              b.held = a.held \cup {<<f.transaction, f.arg>>} /\ b.handled = a.handled
         /\ f.cmd = "COMMIT" =>
              \A o : o \in b.handled <=>
                     o \in a.handled \/ <<f.transaction, o>> \in a.held
         /\ f.cmd \in {"ABORT", "END"} => b.handled = a.handled
         /\ f.cmd = "END" => b.subs = {} /\ b.held = {}
<1> DEFINE held == {h[2] : h \in {x \in a.held : x[1] = f.transaction}}
           rest == {x \in a.held : x[1] # f.transaction}
<1>1. a \in Brokers /\ rest \subseteq a.held
  OBVIOUS
<1>2. held \subseteq Nat /\ \A o : o \in held <=> <<f.transaction, o>> \in a.held
  <2>1. \A x \in a.held : x = <<x[1], x[2]>> /\ x[2] \in Nat
    BY <1>1 DEF Brokers
  <2>2. ASSUME NEW o, <<f.transaction, o>> \in a.held PROVE o \in held
    <3>1. PICK x : x = <<f.transaction, o>>
      OBVIOUS
    <3> QED
      BY <2>2, <3>1
  <2> QED
    BY <2>1, <2>2
<1>3. CASE f.cmd = "SUBSCRIBE"
  <2>1. b = [a EXCEPT !.subs = @ \cup {f.arg}] /\ f.arg \in Names \X Nat
    BY <1>3 DEF Apply, AnyFrame
  <2> QED
    BY <1>1, <1>3, <2>1 DEF Brokers
<1>4. CASE f.cmd = "UNSUBSCRIBE"
  <2>1. b = [a EXCEPT !.subs = @ \ {f.arg}]
    BY <1>4 DEF Apply
  <2> QED
    BY <1>1, <1>4, <2>1 DEF Brokers
<1>5. CASE f.cmd = "BEGIN"
  <2>1. b = [a EXCEPT !.open = @ \cup {f.transaction}] /\ f.transaction \in Nat
    BY <1>5 DEF Apply, AnyFrame
  <2> QED
    BY <1>1, <1>5, <2>1 DEF Brokers
<1>6. CASE f.cmd = "COMMIT"
  <2> HIDE DEF held, rest
  <2>1. b = [a EXCEPT !.open = @ \ {f.transaction}, !.held = rest, !.handled = @ \cup held]
    BY <1>6 DEF Apply, held, rest
  <2>2. /\ b \in Brokers /\ b.held = rest /\ b.handled = a.handled \cup held
        /\ b.subs = a.subs /\ b.open = a.open \ {f.transaction}
    BY <1>1, <1>2, <2>1 DEF Brokers
  <2> QED
    BY <1>2, <1>6, <2>2 DEF rest
<1>7. CASE f.cmd = "ABORT"
  <2> HIDE DEF held, rest
  <2>1. b = [a EXCEPT !.open = @ \ {f.transaction}, !.held = rest]
    BY <1>7 DEF Apply, rest
  <2>2. /\ b \in Brokers /\ b.held = rest /\ b.handled = a.handled
        /\ b.subs = a.subs /\ b.open = a.open \ {f.transaction}
    BY <1>1, <2>1 DEF Brokers
  <2> QED
    BY <1>7, <2>2 DEF rest
<1>8. CASE f.cmd = "OPERATION" /\ f.transaction = None
  <2>1. b = [a EXCEPT !.handled = @ \cup {f.arg}] /\ f.arg \in Nat
    BY <1>8 DEF Apply, AnyFrame
  <2> QED
    BY <1>1, <1>8, <2>1 DEF Brokers
<1>9. CASE f.cmd = "OPERATION" /\ f.transaction # None
  <2>1. /\ b = [a EXCEPT !.held = @ \cup {<<f.transaction, f.arg>>}]
        /\ <<f.transaction, f.arg>> \in Nat \X Nat
    BY <1>9 DEF Apply, AnyFrame
  <2> QED
    BY <1>1, <1>9, <2>1 DEF Brokers
<1>10. CASE f.cmd = "END"
  <2>1. b = [a EXCEPT !.subs = {}, !.open = {}, !.held = {}]
    BY <1>10 DEF Apply
  <2> QED
    BY <1>1, <1>10, <2>1 DEF Brokers
<1>11. f.cmd \in {"SUBSCRIBE", "UNSUBSCRIBE", "BEGIN", "COMMIT", "ABORT", "OPERATION", "END"}
  BY DEF AnyFrame
<1> QED
  BY <1>3, <1>4, <1>5, <1>6, <1>7, <1>8, <1>9, <1>10, <1>11
\* ... and the broker with what arrives.
LEMMA Applied ==
  ASSUME Typed, NEW f \in AnyFrame, NEW b, b = Apply(broker, f)
  PROVE  /\ b \in Brokers /\ broker.handled \subseteq b.handled
         /\ f.cmd \in {"SUBSCRIBE", "UNSUBSCRIBE", "BEGIN"} =>
              b.held = broker.held /\ b.handled = broker.handled
         /\ f.cmd = "OPERATION" /\ f.transaction = None =>
              b.held = broker.held /\ b.handled = broker.handled \cup {f.arg}
         /\ f.cmd = "OPERATION" /\ f.transaction # None =>
              b.held = broker.held \cup {<<f.transaction, f.arg>>} /\ b.handled = broker.handled
         /\ f.cmd \in {"COMMIT", "ABORT"} =>
              b.held = {x \in broker.held : x[1] # f.transaction}
         /\ f.cmd = "COMMIT" =>
              \A o : o \in b.handled <=>
                     o \in broker.handled \/ <<f.transaction, o>> \in broker.held
         /\ f.cmd \in {"ABORT", "END"} => b.handled = broker.handled
         /\ f.cmd = "END" => b.held = {}
BY Applies DEF Typed

\* the broker handles frame f, the first one, and the others move up
Handled(f) ==
  /\ f = wire[1] /\ f \in AnyFrame /\ broker' = Apply(broker, f)
  /\ Len(wire) \in Nat \ {0} /\ Len(wire') = Len(wire) - 1 /\ wire' \in Seq(AnyFrame)
  /\ \A i \in 1..Len(wire') : i + 1 \in 2..Len(wire) /\ wire'[i] = wire[i + 1]
  /\ UNCHANGED <<subscriptions, subscription_id, transaction_id, link, main, done, during, begins,
                 commits>>
\* That is the step of the broker.
LEMMA HandleIs ==
  ASSUME Typed, Handle
  PROVE  \E f : Handled(f)
<1>1. wire \in Seq(AnyFrame) /\ wire # <<>>
  BY DEF Typed, Handle
<1>2. /\ Len(wire) \in Nat \ {0} /\ Tail(wire) \in Seq(AnyFrame) /\ Len(Tail(wire)) = Len(wire) - 1
      /\ \A i \in 1..Len(Tail(wire)) : Tail(wire)[i] = wire[i + 1]
      /\ Head(wire) = wire[1] /\ Head(wire) \in AnyFrame
  BY <1>1, HeadTailProperties, EmptySeq
<1>3. Handled(Head(wire))
  BY <1>2 DEF Handle, Handled, tables, history
<1> QED
  BY <1>3

\* What comes before a later frame stays at the broker, or on its way, unless
\* its transaction ends.
LEMMA HandleBefore ==
  ASSUME Typed, NEW f, Handled(f), NEW t \in Nat, NEW o \in Nat, NEW k \in Nat,
         f.cmd \in {"COMMIT", "ABORT"} => f.transaction # t, f.cmd # "END",
         Before(t, o, k + 1)
  PROVE  Before(t, o, k)'
<1>1. PICK b : b = broker'
  OBVIOUS
<1>2. b = Apply(broker, f) /\ f \in AnyFrame
  BY <1>1 DEF Handled
<1>3. ASSUME <<t, o>> \in broker.held PROVE <<t, o>> \in b.held
  <2>1. f.cmd \in {"SUBSCRIBE", "UNSUBSCRIBE", "BEGIN", "COMMIT", "ABORT", "OPERATION"}
    BY <1>2 DEF AnyFrame
  <2>2. CASE f.cmd \in {"COMMIT", "ABORT"}
    <3>1. b.held = {x \in broker.held : x[1] # f.transaction}
      BY <1>2, <2>2, Applied
    <3> QED
      BY <1>3, <2>2, <3>1
  <2>3. CASE f.cmd \in {"SUBSCRIBE", "UNSUBSCRIBE", "BEGIN", "OPERATION"}
    <3>1. broker.held \subseteq b.held
      BY <1>2, <2>3, Applied
    <3> QED
      BY <1>3, <3>1
  <2> QED
    BY <2>1, <2>2, <2>3
<1>4. ASSUME NEW j \in 1..Len(wire), j < k + 1, wire[j] = Frame("OPERATION", o, t)
      PROVE  Before(t, o, k)'
  <2>1. CASE j = 1
    <3>1. f.cmd = "OPERATION" /\ f.transaction = t /\ f.arg = o /\ t # None
      BY <1>4, <2>1, NoneAssumption DEF Handled, Frame
    <3>2. b.held = broker.held \cup {<<t, o>>}
      BY <1>2, <3>1, Applied
    <3> QED
      BY <1>1, <3>2 DEF Before
  <2>2. CASE j # 1
    <3>1. j - 1 \in 1..Len(wire') /\ j - 1 < k /\ (j - 1) + 1 = j
      BY <1>4, <2>2 DEF Handled
    <3>2. wire'[j - 1] = Frame("OPERATION", o, t)
      BY <1>4, <3>1 DEF Handled
    <3> QED
      BY <3>1, <3>2 DEF Before
  <2> QED
    BY <2>1, <2>2
<1> QED
  BY <1>1, <1>3, <1>4 DEF Before

\* A COMMIT makes the broker handle all its transaction was given.
LEMMA CommitHandles ==
  ASSUME Typed, Numbers, Commits, NEW f, Handled(f), f.cmd = "COMMIT"
  PROVE  /\ f.transaction \in Nat
         /\ Given(f.transaction) \subseteq broker'.handled
         /\ \A o \in broker'.handled : o \in broker.handled \/ <<f.transaction, o>> \in during
<1>1. PICK b, t : b = broker' /\ t = f.transaction
  OBVIOUS
<1>2. b = Apply(broker, f) /\ f \in AnyFrame /\ t \in Nat /\ 1 \in 1..Len(wire) /\ f = wire[1]
  BY <1>1 DEF Handled, AnyFrame
<1>3. /\ broker.handled \subseteq b.handled
      /\ \A o : o \in b.handled <=> o \in broker.handled \/ <<t, o>> \in broker.held
  BY <1>1, <1>2, Applied
<1>4. ASSUME NEW o \in Given(t) PROVE o \in b.handled
  <2>1. o \in Nat /\ <<t, o>> \in during
    BY <1>2, GivenIs DEF Typed
  <2>2. Before(t, o, 1) \/ Given(t) \subseteq broker.handled
    BY <1>1, <1>2, <2>1 DEF Commits
  <2>3. Before(t, o, 1) => <<t, o>> \in broker.held
    BY <1>2 DEF Before, Handled
  <2> QED
    BY <1>3, <2>2, <2>3
<1> QED
  BY <1>1, <1>2, <1>3, <1>4 DEF Numbers

\* A broker that handles frames in order keeps the invariant.
LEMMA HandleKeeps ==
  ASSUME AtomicInv, Handle
  PROVE  AtomicInv'
<1> USE DEF AtomicInv
<1>1. PICK f : Handled(f)
  BY HandleIs
<1>2. PICK b : b = broker'
  OBVIOUS
<1>3. /\ b = Apply(broker, f) /\ f \in AnyFrame /\ 1 \in 1..Len(wire) /\ f = wire[1]
      /\ broker.handled \subseteq b.handled
  BY <1>1, <1>2, Applied DEF Handled
<1>4. f.cmd = "OPERATION" =>
        /\ f.arg \in 1..done
        /\ f.transaction # None => <<f.transaction, f.arg>> \in during
        /\ f.transaction = None => \A t \in Nat : <<t, f.arg>> \notin during
  BY <1>3 DEF Operations
<1>5. Typed'
  <2>1. b \in Brokers
    BY <1>3, Applied
  <2> QED
    BY <1>1, <1>2, <2>1 DEF Handled, Typed
<1>6. f.cmd \in {"SUBSCRIBE", "UNSUBSCRIBE", "BEGIN", "COMMIT", "ABORT", "OPERATION", "END"}
  BY <1>3 DEF AnyFrame
<1>7. \A o \in b.handled :
        \/ o \in broker.handled
        \/ f.cmd = "OPERATION" /\ f.transaction = None /\ o = f.arg
        \/ f.cmd = "COMMIT" /\ f.transaction \in Nat /\ <<f.transaction, o>> \in during
  <2>1. CASE f.cmd = "COMMIT"
    BY <1>1, <1>2, <2>1, CommitHandles
  <2>2. CASE f.cmd # "COMMIT"
    BY <1>3, <1>6, <2>2, Applied
  <2> QED
    BY <2>1, <2>2
<1>8. Numbers'
  <2>1. b.held \subseteq during
    <3>1. b.held \subseteq broker.held \/ (f.cmd = "OPERATION" /\ f.transaction # None
                                         /\ b.held = broker.held \cup {<<f.transaction, f.arg>>})
      BY <1>3, <1>6, Applied
    <3> QED
      BY <1>4, <3>1 DEF Numbers
  <2>2. b.handled \subseteq 1..done
    BY <1>4, <1>5, <1>7, <1>2 DEF Numbers, Typed, Brokers
  <2> QED
    BY <1>1, <1>2, <2>1, <2>2 DEF Handled, Numbers, Transactions
<1>9. Operations'
  BY SMTT(20), <1>1 DEF Handled, Operations
<1>10. Endings'
  BY <1>1 DEF Handled, Endings
<1>11. Atomically'
  <2> SUFFICES ASSUME NEW t \in 1..begins, NEW o \in Given(t), o \in b.handled
               PROVE  t \in commits /\ Given(t) \subseteq b.handled
    BY <1>1, <1>2 DEF Handled, Atomically, Given
  <2>1. t \in Nat /\ o \in Nat /\ <<t, o>> \in during
    BY GivenIs DEF Typed
  <2>2. CASE o \in broker.handled
    BY <1>3, <2>2 DEF Atomically
  <2>3. CASE f.cmd = "COMMIT" /\ f.transaction \in Nat /\ <<f.transaction, o>> \in during
    <3>1. f.transaction = t
      BY <2>1, <2>3 DEF Numbers
    <3> QED
      BY <1>1, <1>2, <1>3, <2>3, <3>1, CommitHandles DEF Endings
  <2> QED
    BY <1>4, <1>7, <2>1, <2>2, <2>3
<1>12. Commits'
  <2> SUFFICES ASSUME NEW t \in Nat, NEW o \in Nat, NEW k \in 1..Len(wire'),
                      <<t, o>> \in during', wire'[k].cmd = "COMMIT", wire'[k].transaction = t
               PROVE  (Before(t, o, k) \/ Given(t) \subseteq broker.handled)'
    BY DEF Commits
  <2>0. k \in Nat /\ k + 1 \in 1..Len(wire) /\ 1 # Len(wire)
    BY <1>1 DEF Handled
  <2>1. /\ wire[k + 1].cmd = "COMMIT" /\ wire[k + 1].transaction = t /\ <<t, o>> \in during
        /\ Given(t)' = Given(t)
    BY <1>1 DEF Handled, Given
  <2>2. Before(t, o, k + 1) \/ Given(t) \subseteq broker.handled
    BY <2>0, <2>1 DEF Commits
  <2>3. t \in commits /\ f.cmd # "END" /\ (f.cmd = "ABORT" => f.transaction # t)
    BY <1>3, <2>0, <2>1 DEF Endings
  <2>4. CASE Given(t) \subseteq broker.handled
    BY <1>2, <1>3, <2>1, <2>4
  <2>5. CASE f.cmd = "COMMIT" /\ f.transaction = t
    BY <1>1, <2>1, <2>5, CommitHandles
  <2>6. CASE Before(t, o, k + 1) /\ ~(f.cmd = "COMMIT" /\ f.transaction = t)
    BY <1>1, <2>0, <2>1, <2>3, <2>6, HandleBefore
  <2> QED
    BY <2>2, <2>4, <2>5, <2>6
<1>13. Open'
  <2> SUFFICES ASSUME link = "up", main # "ended", NEW t \in Nat, NEW o \in Nat,
                      t = transaction_id, <<t, o>> \in during
               PROVE  Before(t, o, Len(wire) + 1)'
    BY <1>1 DEF Handled, Open
  <2>1. PICK k : k = Len(wire)
    OBVIOUS
  <2>2. k \in Nat /\ Len(wire') + 1 = k /\ Before(t, o, k + 1)
    BY <1>1, <2>1 DEF Handled, Open
  <2>3. f.cmd # "END" /\ (f.cmd \in {"COMMIT", "ABORT"} => f.transaction # t)
    BY <1>3, NoneAssumption DEF Endings
  <2>4. Before(t, o, k)'
    BY <1>1, <2>2, <2>3, HandleBefore
  <2> QED
    BY <2>2, <2>4 DEF Before
<1> QED
  BY <1>5, <1>8, <1>9, <1>10, <1>11, <1>12, <1>13

-----------------------------------------------------------------------------
(* The invariant *)

\* In the initial state nothing has been given.
LEMMA AtomicInit ==
  ASSUME Init
  PROVE  AtomicInv
<1>1. Typed
  BY EmptySeq DEF Init, Typed, Brokers
<1>2. wire = <<>> /\ Len(wire) = 0 /\ during = {} /\ transaction_id = None /\ begins = 0
      /\ broker.held = {} /\ broker.handled = {}
  BY EmptySeq DEF Init
<1> QED
  BY <1>1, <1>2
  DEF AtomicInv, Numbers, Operations, Endings, Commits, Open, Atomically, Given

\* Every step keeps it.
LEMMA AtomicStep ==
  ASSUME ~Replies, AtomicInv, [Next]_vars
  PROVE  AtomicInv'
<1>1. ASSUME UNCHANGED <<tables, main, wire, broker, history>>, link' = link \/ link' = "known"
      PROVE  AtomicInv'
  <2>1. UNCHANGED <<subscriptions, subscription_id, transaction_id, main, wire, broker, done,
                    during, begins, commits>>
    BY <1>1 DEF tables, history
  <2>2. Typed' /\ Numbers' /\ Operations' /\ Atomically'
    BY <2>1 DEF AtomicInv, Typed, Numbers, Transactions, Operations, Atomically, Given
  <2>3. Endings'
    BY <1>1, <2>1 DEF AtomicInv, Endings
  <2>4. Commits'
    BY <2>1 DEF AtomicInv, Commits, Before, Given
  <2>5. Open'
    BY <1>1, <2>1 DEF AtomicInv, Open, Before
  <2> QED
    BY <2>2, <2>3, <2>4, <2>5 DEF AtomicInv
<1>2. CASE UNCHANGED vars
  BY <1>1, <1>2 DEF vars
<1>3. ASSUME NEW name \in Names, Subscribe(name) \/ Unsubscribe(name) PROVE AtomicInv'
  <2>1. PICK f \in AnyFrame : f.cmd \in {"SUBSCRIBE", "UNSUBSCRIBE"} /\ Transmit(f)
    <3>1. subscription_id \in Nat /\ subscriptions[name] \in Nat \cup {None}
      BY DEF AtomicInv, Typed
    <3>2. \A n \in Nat, c \in {"SUBSCRIBE", "UNSUBSCRIBE"} :
            Frame(c, <<name, n>>, None) \in AnyFrame /\ Frame(c, <<name, n>>, None).cmd = c
      BY DEF AnyFrame, Frame
    <3> QED
      BY <1>3, <3>1, <3>2 DEF Subscribe, Unsubscribe
  <2>2. /\ main # "ended" /\ UNCHANGED <<transaction_id, history>>
        /\ subscriptions' \in [Names -> Nat \cup {None}] /\ subscription_id' \in Nat
    BY <1>3 DEF Subscribe, Unsubscribe, Reading, AtomicInv, Typed
  <2> QED
    BY <2>1, <2>2, QuietKeeps
<1>4. CASE Send \/ SendRec \/ SendFile \/ SendReply \/ Ack \/ Nack
  <2>1. Operation(transaction_id)
    BY <1>4 DEF Send, SendRec, SendFile, SendReply, Ack, Nack
  <2> QED
    BY <2>1, OperationKeeps
<1>5. CASE NackRaises \/ StatsRaises \/ Quit \/ FileEnds \/ SendRaises
  BY <1>5, LeaveKeeps DEF NackRaises, StatsRaises, Quit, FileEnds, SendRaises, Reading
<1>6. CASE Stats \/ Run \/ RunEnds
  BY <1>1, <1>6 DEF Stats, Run, RunEnds
<1>7. CASE OnDisconnected
  BY <1>1, <1>7 DEF OnDisconnected
<1>8. CASE Command
  BY <1>3, <1>4, <1>5, <1>6, <1>8, BeginKeeps, EndKeeps DEF Command
<1> QED
  BY <1>2, <1>7, <1>8, HandleKeeps, LoseKeeps DEF Next, Over

\* "Any messages sent or acknowledged during a transaction will be handled
\* atomically" (__main__.py:449-451): all of them, after its COMMIT, or none,
\* whatever is lost on the way; sendreply is the exception.
THEOREM TransactionsAreAtomic == ~Replies /\ Spec => []Atomically
<1> SUFFICES ASSUME ~Replies PROVE Spec => []Atomically
  OBVIOUS
<1>1. Init => AtomicInv
  BY AtomicInit
<1>2. AtomicInv /\ [Next]_vars => AtomicInv'
  BY AtomicStep
<1>3. AtomicInv => Atomically
  BY DEF AtomicInv
<1> QED
  BY <1>1, <1>2, <1>3, PTL DEF Spec

-----------------------------------------------------------------------------
(* Induction *)

\* Numbers of which there is one have a least one.
LEMMA LeastNumber ==
  ASSUME NEW T \in SUBSET Nat, T # {}
  PROVE  \E x \in T : \A y \in T : x <= y
<1>1. \E x \in T : \A y \in T : ~(<<y, x>> \in OpToRel(<, Nat))
  BY NatLessThanWellFounded, WFMin
<1>2. \A x, y \in T : ~(<<y, x>> \in OpToRel(<, Nat)) => x <= y
  BY SMT DEF OpToRel
<1> QED BY <1>1, <1>2

\* What holds of 0 and is handed on from n to n + 1 holds of every number.
LEMMA OneByOne ==
  ASSUME NEW T, 0 \in T, \A n \in Nat : n \in T => n + 1 \in T
  PROVE  \A n \in Nat : n \in T
<1> SUFFICES ASSUME Nat \ T # {} PROVE FALSE
  OBVIOUS
<1>1. PICK x \in Nat \ T : \A y \in Nat \ T : x <= y
  BY LeastNumber
<1>2. x # 0 /\ x - 1 \in Nat
  BY <1>1
<1> QED BY <1>1, <1>2

\* Numbers from 1 to n of which there is one have a greatest one.
LEMMA Greatest ==
  ASSUME NEW n \in Nat, NEW t \in SUBSET (1..n), t # {}
  PROVE  Max(t) \in t /\ \A x \in t : x <= Max(t)
<1>1. n \in Nat /\ \A x \in t : n - x \in Nat
  OBVIOUS
<1>2. PICK d \in {n - x : x \in t} : \A e \in {n - x : x \in t} : d <= e
  <2>1. {n - x : x \in t} \in SUBSET Nat /\ {n - x : x \in t} # {}
    BY <1>1
  <2> QED BY <2>1, LeastNumber
<1>3. PICK m \in t : d = n - m
  BY <1>2
<1>4. \A x \in t : x <= m
  <2>1. \A x \in t : n - m <= n - x
    BY <1>2, <1>3
  <2> QED BY <2>1, <1>1
<1> QED BY <1>3, <1>4 DEF Max

-----------------------------------------------------------------------------
(* What the broker will have done: Apply, folded over the frames on their way *)

\* what the broker b is after the frames at the indices in a set
AfterSet(b, w, f, t) == IF t = {} THEN b ELSE Apply(f[t \ {Max(t)}], w[Max(t)])
\* what it is after each number of frames, from none to all
Course(b, w, r) ==
  /\ DOMAIN r = 0..Len(w) /\ r[0] = b
  /\ \A i \in 1..Len(w) : r[i] = Apply(r[i - 1], w[i])

\* The recursive function by which a fold is defined exists, ...
LEMMA FoldExists ==
  ASSUME NEW b, NEW w
  PROVE  \A n \in Nat : \E f : f = [t \in SUBSET (1..n) |-> AfterSet(b, w, f, t)]
<1> DEFINE T == {n \in Nat : \E f : f = [t \in SUBSET (1..n) |-> AfterSet(b, w, f, t)]}
<1>1. 0 \in T
  <2> DEFINE f == [t \in SUBSET (1..0) |-> b]
  <2>1. 1..0 = {}
    OBVIOUS
  <2>2. f = [t \in SUBSET (1..0) |-> AfterSet(b, w, f, t)]
    BY <2>1 DEF AfterSet
  <2> QED BY <2>2
<1>2. ASSUME NEW n \in Nat, n \in T PROVE n + 1 \in T
  <2>1. PICK f : f = [t \in SUBSET (1..n) |-> AfterSet(b, w, f, t)]
    BY <1>2
  <2> DEFINE g == [t \in SUBSET (1..(n + 1)) |->
                     IF n + 1 \in t THEN Apply(f[t \ {n + 1}], w[n + 1]) ELSE f[t]]
  <2>2. ASSUME NEW t \in SUBSET (1..n) PROVE g[t] = f[t] /\ t \in SUBSET (1..(n + 1))
    BY <2>2
  <2>3. ASSUME NEW t \in SUBSET (1..(n + 1)) PROVE g[t] = AfterSet(b, w, g, t)
    <3>1. CASE n + 1 \in t
      <4>1. Max(t) = n + 1
        <5>1. PICK m : m = Max(t)
          OBVIOUS
        <5>2. n + 1 \in Nat /\ t # {}
          BY <3>1
        <5>3. m \in t /\ \A x \in t : x <= m
          BY <5>1, <5>2, Greatest
        <5>4. n + 1 <= m /\ m \in 1..(n + 1)
          BY <3>1, <5>3
        <5> HIDE DEF g
        <5> QED BY <5>1, <5>4
      <4>2. t \ {n + 1} \in SUBSET (1..n)
        OBVIOUS
      <4> QED BY <2>2, <3>1, <4>1, <4>2 DEF AfterSet
    <3>2. CASE n + 1 \notin t
      <4>1. t \in SUBSET (1..n)
        BY <3>2
      <4>2. f[t] = AfterSet(b, w, f, t)
        BY <2>1, <4>1
      <4>3. t \ {Max(t)} \in SUBSET (1..n)
        BY <4>1
      <4> HIDE DEF g
      <4> QED BY <2>2, <4>1, <4>2, <4>3 DEF AfterSet
    <3> QED BY <3>1, <3>2
  <2>4. g = [t \in SUBSET (1..(n + 1)) |-> g[t]]
    OBVIOUS
  <2> HIDE DEF g
  <2>5. g = [t \in SUBSET (1..(n + 1)) |-> AfterSet(b, w, g, t)]
    BY <2>3, <2>4
  <2> QED BY <2>5
<1>3. \A n \in Nat : n \in T
  <2> HIDE DEF T
  <2> QED BY <1>1, <1>2, OneByOne
<1> QED BY <1>3

\* ... so that the broker's frames take a course, and it ends in their fold.
LEMMA FoldCourse ==
  ASSUME NEW S, NEW w \in Seq(S), NEW b
  PROVE  \E r : Course(b, w, r) /\ r[Len(w)] = FoldLeft(Apply, b, w)
<1>1. Len(w) \in Nat /\ DOMAIN w = 1..Len(w)
  OBVIOUS
<1> DEFINE f == CHOOSE f : f = [t \in SUBSET (1..Len(w)) |-> AfterSet(b, w, f, t)]
<1>2. f = [t \in SUBSET (1..Len(w)) |-> AfterSet(b, w, f, t)]
  BY <1>1, FoldExists
<1>3. FoldLeft(Apply, b, w) = f[1..Len(w)]
  BY <1>1 DEF FoldLeft, MapThenFoldSet, AfterSet
<1> HIDE DEF f
<1> DEFINE r == [n \in 0..Len(w) |-> f[1..n]]
<1>4. r[0] = b
  BY <1>1, <1>2 DEF AfterSet
<1>5. ASSUME NEW i \in 1..Len(w) PROVE r[i] = Apply(r[i - 1], w[i])
  <2>1. 1..i \in SUBSET (1..Len(w)) /\ i \in 1..i /\ i \in Nat
    BY <1>1
  <2>2. Max(1..i) = i
    <3>1. Max(1..i) \in 1..i /\ i <= Max(1..i)
      BY <2>1, Greatest
    <3> QED BY <3>1
  <2>3. (1..i) \ {i} = 1..(i - 1)
    OBVIOUS
  <2>4. f[1..i] = Apply(f[1..(i - 1)], w[i])
    BY <1>2, <2>1, <2>2, <2>3 DEF AfterSet
  <2> QED BY <1>1, <2>4
<1>6. r[Len(w)] = FoldLeft(Apply, b, w)
  BY <1>1, <1>3
<1> QED BY <1>4, <1>5, <1>6 DEF Course

\* Frames take one course.
LEMMA OneCourse ==
  ASSUME NEW S, NEW w \in Seq(S), NEW b, NEW q, NEW r, Course(b, w, q), Course(b, w, r)
  PROVE  \A n \in 0..Len(w) : q[n] = r[n]
<1> DEFINE T == {n \in Nat : n <= Len(w) => q[n] = r[n]}
<1>1. 0 \in T
  BY DEF Course
<1>2. ASSUME NEW n \in Nat, n \in T PROVE n + 1 \in T
  <2> SUFFICES ASSUME n + 1 <= Len(w) PROVE q[n + 1] = r[n + 1]
    OBVIOUS
  <2>1. n + 1 \in 1..Len(w) /\ (n + 1) - 1 = n /\ q[n] = r[n]
    BY <1>2
  <2> QED BY <2>1 DEF Course
<1>3. \A n \in Nat : n \in T
  <2> HIDE DEF T
  <2> QED BY <1>1, <1>2, OneByOne
<1> QED BY <1>3

\* Nothing on its way changes nothing, ...
LEMMA FoldNothing == \A b : FoldLeft(Apply, b, <<>>) = b
<1> SUFFICES ASSUME NEW b PROVE FoldLeft(Apply, b, <<>>) = b
  OBVIOUS
<1>1. <<>> \in Seq({}) /\ Len(<<>>) = 0
  OBVIOUS
<1>2. PICK r : Course(b, <<>>, r) /\ r[Len(<<>>)] = FoldLeft(Apply, b, <<>>)
  BY <1>1, FoldCourse
<1> QED BY <1>1, <1>2 DEF Course

\* ... the frame sent last is handled last, ...
LEMMA FoldLast ==
  ASSUME NEW S, NEW w \in Seq(S), NEW b, NEW f \in S
  PROVE  FoldLeft(Apply, b, Append(w, f)) = Apply(FoldLeft(Apply, b, w), f)
<1> DEFINE v == Append(w, f)
<1>1. /\ v \in Seq(S) /\ Len(w) \in Nat /\ Len(v) = Len(w) + 1 /\ v[Len(w) + 1] = f
      /\ \A i \in 1..Len(w) : v[i] = w[i]
  OBVIOUS
<1>2. PICK r : Course(b, w, r) /\ r[Len(w)] = FoldLeft(Apply, b, w)
  BY FoldCourse
<1>3. PICK q : Course(b, v, q) /\ q[Len(v)] = FoldLeft(Apply, b, v)
  BY <1>1, FoldCourse
<1> HIDE DEF v
<1> DEFINE p == [n \in 0..Len(w) |-> q[n]]
<1>4. Course(b, w, p)
  <2>1. \A i \in 1..Len(w) : i \in 1..Len(v) /\ i - 1 \in 0..Len(w) /\ i \in 0..Len(w)
    BY <1>1
  <2>2. \A i \in 1..Len(w) : q[i] = Apply(q[i - 1], w[i])
    BY <1>1, <1>3, <2>1 DEF Course
  <2>3. p[0] = b
    BY <1>1, <1>3 DEF Course
  <2> QED BY <2>1, <2>2, <2>3 DEF Course
<1>5. q[Len(w)] = r[Len(w)]
  <2>1. p[Len(w)] = r[Len(w)]
    <3> HIDE DEF p
    <3> QED BY <1>1, <1>2, <1>4, OneCourse
  <2> QED BY <1>1, <2>1
<1>6. q[Len(w) + 1] = Apply(q[Len(w)], f)
  <2>1. Len(w) + 1 \in 1..Len(v) /\ (Len(w) + 1) - 1 = Len(w)
    BY <1>1
  <2> QED BY <1>1, <1>3, <2>1 DEF Course
<1> QED BY <1>1, <1>2, <1>3, <1>5, <1>6 DEF v

\* ... and the first one first.
LEMMA FoldFirst ==
  ASSUME NEW S, NEW w \in Seq(S), NEW b, w # <<>>
  PROVE  FoldLeft(Apply, b, w) = FoldLeft(Apply, Apply(b, Head(w)), Tail(w))
<1> DEFINE v == Tail(w)
<1>1. /\ v \in Seq(S) /\ Len(w) \in Nat \ {0} /\ Len(v) = Len(w) - 1 /\ Head(w) = w[1]
      /\ \A i \in 1..Len(v) : v[i] = w[i + 1]
  BY EmptySeq, HeadTailProperties
<1> HIDE DEF v
<1>2. PICK r : Course(b, w, r) /\ r[Len(w)] = FoldLeft(Apply, b, w)
  BY FoldCourse
<1>3. PICK q : Course(Apply(b, w[1]), v, q) /\ q[Len(v)] = FoldLeft(Apply, Apply(b, w[1]), v)
  BY <1>1, FoldCourse
<1> DEFINE p == [n \in 0..Len(v) |-> r[n + 1]]
<1>4. Course(Apply(b, w[1]), v, p)
  <2>1. p[0] = Apply(b, w[1])
    <3>1. 1 \in 1..Len(w) /\ 0 \in 0..Len(v) /\ 0 + 1 = 1 /\ 1 - 1 = 0
      BY <1>1
    <3> QED BY <1>2, <3>1 DEF Course
  <2>2. ASSUME NEW i \in 1..Len(v) PROVE p[i] = Apply(p[i - 1], v[i])
    <3>1. /\ i + 1 \in 1..Len(w) /\ (i + 1) - 1 = i /\ (i - 1) + 1 = i
          /\ i \in 0..Len(v) /\ i - 1 \in 0..Len(v)
      BY <1>1
    <3>2. r[i + 1] = Apply(r[i], w[i + 1])
      BY <1>2, <3>1 DEF Course
    <3> QED BY <1>1, <3>1, <3>2
  <2> QED BY <2>1, <2>2 DEF Course
<1>5. p[Len(v)] = q[Len(v)]
  <2>1. Len(v) \in 0..Len(v)
    BY <1>1
  <2> HIDE DEF p
  <2>2. \A n \in 0..Len(v) : p[n] = q[n]
    BY <1>1, <1>3, <1>4, OneCourse
  <2> QED BY <2>1, <2>2
<1> QED BY SMTT(20), <1>1, <1>2, <1>3, <1>5 DEF v

-----------------------------------------------------------------------------
(* The client's table and the broker *)

\* the broker, when it has handled what is on its way
Then == FoldLeft(Apply, broker, wire)
\* the subscriptions the client has, and those a SUBSCRIBE on its way will make
Table == {<<n, subscriptions[n]>> : n \in {m \in Names : subscriptions[m] # None}}
Carried == {wire[i].arg : i \in {j \in 1..Len(wire) : wire[j].cmd = "SUBSCRIBE"}}
Known == broker.subs \cup Carried \cup Table

WellTyped == Typed /\ (transaction_id # None => transaction_id \in Nat \ {0})
\* no id is that of two subscriptions, nor the next one
OwnIds ==
  /\ Known \subseteq Names \X Nat
  /\ \A s \in Known : s[2] < subscription_id
  /\ \A s1, s2 \in Known : s1[2] = s2[2] => s1 = s2
\* while the connection and the program last, nothing is missing on its way
Same ==
  link = "up" /\ main # "ended" =>
    Then \in Brokers /\ Then.subs = Table /\ Then.open = {transaction_id} \ {None}
StepInv == WellTyped /\ OwnIds /\ Same

\* The frames that go out as the program or the connection ends carry no
\* subscription that was not on its way.
LEMMA EndingCarries ==
  ASSUME Typed, Lose \/ Leave
  PROVE  wire' \in Seq(AnyFrame) /\ Carried' \subseteq Carried
<1>1. wire \in Seq(AnyFrame) /\ Len(wire) \in Nat /\ \A i \in 1..Len(wire) : wire[i] \in AnyFrame
  BY TypeFacts DEF Typed
<1>2. End \in AnyFrame /\ End.cmd # "SUBSCRIBE"
  BY DEF AnyFrame, End, Frame
<1>3. CASE wire' = wire
  BY <1>1, <1>3 DEF Carried
<1>4. ASSUME NEW n \in 0..Len(wire), NEW s \in Seq(AnyFrame), Len(s) = n,
             \A i \in 1..n : s[i] = wire[i], wire' = Append(s, End)
      PROVE  wire' \in Seq(AnyFrame) /\ Carried' \subseteq Carried
  <2>1. /\ wire' \in Seq(AnyFrame) /\ Len(wire') = n + 1
        /\ \A i \in 1..n : wire'[i] = s[i]
        /\ wire'[n + 1] = End
    BY <1>2, <1>4, AppendProperties
  <2>2. \A i \in 1..Len(wire') :
          wire'[i].cmd = "SUBSCRIBE" => i \in 1..Len(wire) /\ wire'[i] = wire[i]
    BY <1>1, <1>2, <1>4, <2>1
  <2> QED BY <2>1, <2>2 DEF Carried
<1>5. CASE wire' = Append(wire, End)
  BY <1>1, <1>4, <1>5
<1>6. ASSUME NEW n \in 0..Len(wire), wire' = Append(SubSeq(wire, 1, n), End)
      PROVE  wire' \in Seq(AnyFrame) /\ Carried' \subseteq Carried
  <2>1. n \in Nat /\ \A i \in 1..n : wire[i] \in AnyFrame
    BY <1>1
  <2>2. /\ SubSeq(wire, 1, n) \in Seq(AnyFrame) /\ Len(SubSeq(wire, 1, n)) = n
        /\ \A i \in 1..n : SubSeq(wire, 1, n)[i] = wire[i]
    <3>1. n \in Int /\ 1 \in Int /\ n - 1 + 1 = n /\ n >= 0 /\ \A i \in 1..n : 1 + i - 1 = i
      BY <2>1
    <3>2. /\ SubSeq(wire, 1, n) \in Seq(AnyFrame)
          /\ Len(SubSeq(wire, 1, n)) = IF 1 <= n THEN n - 1 + 1 ELSE 0
          /\ \A i \in 1..(n - 1 + 1) : SubSeq(wire, 1, n)[i] = wire[1 + i - 1]
      BY <2>1, <3>1, SubSeqProperties
    <3> QED BY <3>1, <3>2
  <2> QED BY <1>4, <1>6, <2>2
<1> QED BY <1>3, <1>5, <1>6 DEF Lose, Leave

\* A frame that goes out carries a subscription if it is a SUBSCRIBE, and is the
\* last one the broker handles.
LEMMA TransmitCarries ==
  ASSUME Typed, NEW f \in AnyFrame, Transmit(f)
  PROVE  /\ Carried' \subseteq Carried \cup (IF f.cmd = "SUBSCRIBE" THEN {f.arg} ELSE {})
         /\ link = "up" => Then' = Apply(Then, f)
<1>1. Sent(f)
  BY TransmitSends
<1>2. Carried' \subseteq Carried \cup (IF f.cmd = "SUBSCRIBE" THEN {f.arg} ELSE {})
  BY <1>1 DEF Sent, Carried
<1>3. link = "up" => wire' = Append(wire, f) /\ broker' = broker
  BY DEF Transmit
<1>4. wire \in Seq(AnyFrame)
  BY DEF Typed
<1> QED BY <1>2, <1>3, <1>4, FoldLast DEF Then

\* Ids stay those of one subscription when no subscription becomes known, ...
LEMMA OwnIdsKept ==
  ASSUME OwnIds, Known' \subseteq Known, subscription_id' = subscription_id
  PROVE  OwnIds'
BY DEF OwnIds

\* ... and the table is the broker's as long as neither changes.
LEMMA SameKept ==
  ASSUME Same, UNCHANGED <<subscriptions, transaction_id>>,
         (link = "up" /\ main # "ended")' => link = "up" /\ main # "ended" /\ Then' = Then
  PROVE  Same'
<1>1. Table' = Table
  BY DEF Table
<1> QED BY <1>1 DEF Same

\* The types are kept by every step, also with sendreply.
LEMMA TypedStep ==
  ASSUME WellTyped, [Next]_vars
  PROVE  WellTyped'
<1> USE DEF WellTyped
<1>1. CASE UNCHANGED <<tables, broker, wire, history>>
  BY <1>1 DEF tables, history, Typed
<1>2. ASSUME NEW name \in Names, Subscribe(name) \/ Unsubscribe(name) PROVE WellTyped'
  <2>1. PICK f \in AnyFrame : Transmit(f)
    <3>1. subscription_id \in Nat /\ subscriptions[name] \in Nat \cup {None}
      BY DEF Typed
    <3>2. \A n \in Nat, c \in {"SUBSCRIBE", "UNSUBSCRIBE"} :
            Frame(c, <<name, n>>, None) \in AnyFrame
      BY DEF AnyFrame, Frame
    <3> QED BY <1>2, <3>1, <3>2 DEF Subscribe, Unsubscribe
  <2>2. Sent(f)
    BY <2>1, TransmitSends
  <2>3. /\ UNCHANGED <<transaction_id, done, during, begins, commits>>
        /\ subscriptions' \in [Names -> Nat \cup {None}] /\ subscription_id' \in Nat
    BY <1>2 DEF Subscribe, Unsubscribe, Typed, history
  <2> QED BY <2>2, <2>3 DEF Sent, Typed
<1>3. ASSUME NEW t \in {None, transaction_id}, Operation(t) PROVE WellTyped'
  <2>1. done + 1 \in Nat /\ Frame("OPERATION", done + 1, t) \in AnyFrame
    BY DEF Typed, AnyFrame, Frame
  <2>2. done' = done + 1 /\ Transmit(Frame("OPERATION", done + 1, t))
    BY <1>3 DEF Operation
  <2>3. Sent(Frame("OPERATION", done + 1, t))
    BY <2>1, <2>2, TransmitSends
  <2>4. /\ UNCHANGED <<subscriptions, subscription_id, transaction_id, begins, commits>>
        /\ during' = IF transaction_id = None THEN during
                     ELSE during \cup {<<transaction_id, done + 1>>}
    BY <1>3, <2>2 DEF Operation, tables
  <2> QED BY <2>1, <2>2, <2>3, <2>4 DEF Sent, Typed
<1>4. CASE Send \/ SendRec \/ SendFile \/ SendReply \/ Ack \/ Nack
  BY <1>3, <1>4 DEF Send, SendRec, SendFile, SendReply, Ack, Nack
<1>5. CASE Begin
  <2>1. begins \in Nat /\ Frame("BEGIN", None, begins + 1) \in AnyFrame
    BY DEF Typed, AnyFrame, Frame
  <2>2. /\ begins' = begins + 1 /\ transaction_id' = begins + 1
        /\ Transmit(Frame("BEGIN", None, begins + 1))
        /\ UNCHANGED <<subscriptions, subscription_id, done, during, commits>>
    BY <1>5 DEF Begin
  <2>3. Sent(Frame("BEGIN", None, begins + 1))
    BY <2>1, <2>2, TransmitSends
  <2>4. begins + 1 \in Nat \ {0} /\ 1..begins \subseteq 1..(begins + 1)
    BY <2>1
  <2>5. UNCHANGED broker /\ wire' \in Seq(AnyFrame)
    BY <2>3 DEF Sent
  <2> QED BY <2>2, <2>4, <2>5 DEF Typed
<1>6. CASE Commit \/ Abort
  <2>1. /\ transaction_id # None /\ transaction_id' = None
        /\ commits' = commits \/ commits' = commits \cup {transaction_id}
        /\ \E c \in {"COMMIT", "ABORT"} : Transmit(Frame(c, None, transaction_id))
        /\ UNCHANGED <<subscriptions, subscription_id, done, during, begins>>
    BY <1>6 DEF Commit, Abort, history
  <2>2. transaction_id \in 1..begins
    BY <2>1 DEF Typed
  <2>3. \A c \in {"COMMIT", "ABORT"} : Frame(c, None, transaction_id) \in AnyFrame
    BY <2>2 DEF AnyFrame, Frame, Typed
  <2>4. UNCHANGED broker /\ wire' \in Seq(AnyFrame)
    BY <2>1, <2>3, TransmitSends DEF Sent
  <2> QED BY <2>1, <2>2, <2>4 DEF Typed
<1>7. CASE Lose \/ Leave
  <2>1. UNCHANGED <<tables, broker, history>>
    BY <1>7 DEF Lose, Leave
  <2>2. wire' \in Seq(AnyFrame)
    BY <1>7, EndingCarries
  <2> QED BY <2>1, <2>2 DEF tables, history, Typed
<1>8. CASE Handle
  <2>1. PICK f : Handled(f)
    BY <1>8, HandleIs
  <2>2. PICK b : b = Apply(broker, f)
    OBVIOUS
  <2>3. b \in Brokers
    BY <2>1, <2>2, Applied DEF Handled
  <2> QED BY <2>1, <2>2, <2>3 DEF Handled, Typed
<1>9. CASE NackRaises \/ StatsRaises \/ Quit \/ FileEnds \/ SendRaises
  BY <1>7, <1>9 DEF NackRaises, StatsRaises, Quit, FileEnds, SendRaises
<1> HIDE DEF WellTyped
<1>10. CASE Stats \/ Run \/ RunEnds
  BY <1>1, <1>10 DEF Stats, Run, RunEnds
<1>11. CASE OnDisconnected
  BY <1>1, <1>11 DEF OnDisconnected
<1>12. CASE UNCHANGED vars
  BY <1>1, <1>12 DEF vars
<1>13. CASE Command
  BY <1>2, <1>4, <1>5, <1>6, <1>9, <1>10, <1>13 DEF Command
<1> QED BY <1>7, <1>8, <1>11, <1>12, <1>13 DEF Next, Over

\* A subscription gets an id no other one has or had.
LEMMA SubscribeInStep ==
  ASSUME StepInv, NEW name \in Names, Subscribe(name)
  PROVE  OwnIds' /\ Same'
<1> DEFINE s == <<name, subscription_id>>
           f == Frame("SUBSCRIBE", s, None)
<1>1. /\ subscription_id \in Nat /\ s \in Names \X Nat /\ subscriptions[name] = None
      /\ subscriptions \in [Names -> Nat \cup {None}] /\ main' = main /\ link' = link
      /\ subscriptions' = [subscriptions EXCEPT ![name] = subscription_id]
      /\ subscription_id' = subscription_id + 1 /\ broker' = broker
      /\ transaction_id' = transaction_id /\ Typed /\ Transmit(f)
  BY DEF StepInv, WellTyped, Typed, Subscribe, Transmit
<1>2. f \in AnyFrame /\ f.cmd = "SUBSCRIBE" /\ f.arg = s
  BY <1>1 DEF AnyFrame, Frame
<1>3. Carried' \subseteq Carried \cup {s} /\ (link = "up" => Then' = Apply(Then, f))
  BY <1>1, <1>2, TransmitCarries
<1>4. Table' = Table \cup {s}
  <2>1. ASSUME NEW n \in Names, n # name PROVE subscriptions'[n] = subscriptions[n]
    BY <1>1, <2>1
  <2>2. subscriptions'[name] = subscription_id /\ subscription_id # None
    BY <1>1, NoneAssumption
  <2>3. \A x : x \in Table' <=>
                \E n \in Names : subscriptions'[n] # None /\ x = <<n, subscriptions'[n]>>
    BY DEF Table
  <2>4. \A x : x \in Table <=>
                \E n \in Names : subscriptions[n] # None /\ x = <<n, subscriptions[n]>>
    BY DEF Table
  <2> QED BY <1>1, <2>1, <2>2, <2>3, <2>4
<1>5. OwnIds'
  <2>1. Known' \subseteq Known \cup {s}
    BY <1>1, <1>3, <1>4 DEF Known
  <2>2. \A x \in Known : x \in Names \X Nat /\ x[2] < subscription_id
    BY DEF StepInv, OwnIds
  <2>3. s[2] = subscription_id
    OBVIOUS
  <2> HIDE DEF s, f
  <2>4. \A x \in Known' : x \in Names \X Nat /\ x[2] < subscription_id'
    BY <1>1, <2>1, <2>2, <2>3
  <2>5. \A x, y \in Known' : x[2] = y[2] => x = y
    BY <1>1, <2>1, <2>2, <2>3 DEF StepInv, OwnIds
  <2> QED BY <2>4, <2>5 DEF OwnIds
<1>6. Same'
  <2> SUFFICES ASSUME link = "up", main # "ended"
               PROVE  /\ Then' \in Brokers /\ Then'.subs = Table'
                      /\ Then'.open = {transaction_id} \ {None}
    BY <1>1 DEF Same
  <2>1. Then \in Brokers /\ Then.subs = Table /\ Then.open = {transaction_id} \ {None}
    BY DEF StepInv, Same
  <2>2. PICK a, b : a = Then /\ b = Then'
    OBVIOUS
  <2>3. b \in Brokers /\ b.subs = a.subs \cup {s} /\ b.open = a.open
    BY <1>2, <1>3, <2>1, <2>2, Applies
  <2> QED BY <1>4, <2>1, <2>2, <2>3
<1> QED BY <1>5, <1>6

\* An id is not that of another subscription, so that the broker ends the one
\* the client means.
LEMMA UnsubscribeInStep ==
  ASSUME StepInv, NEW name \in Names, Unsubscribe(name)
  PROVE  OwnIds' /\ Same'
<1> DEFINE s == <<name, subscriptions[name]>>
           f == Frame("UNSUBSCRIBE", s, None)
<1>1. /\ subscription_id \in Nat /\ s \in Names \X Nat /\ subscriptions[name] # None
      /\ subscriptions \in [Names -> Nat \cup {None}] /\ main' = main /\ link' = link
      /\ subscriptions' = [subscriptions EXCEPT ![name] = None]
      /\ subscription_id' = subscription_id /\ broker' = broker
      /\ transaction_id' = transaction_id /\ Typed /\ Transmit(f)
  BY DEF StepInv, WellTyped, Typed, Unsubscribe, Transmit
<1>2. f \in AnyFrame /\ f.cmd = "UNSUBSCRIBE" /\ f.arg = s
  BY <1>1 DEF AnyFrame, Frame
<1>3. Carried' \subseteq Carried /\ (link = "up" => Then' = Apply(Then, f))
  BY <1>1, <1>2, TransmitCarries
<1>4. Table' = Table \ {s}
  <2>1. ASSUME NEW n \in Names, n # name PROVE subscriptions'[n] = subscriptions[n]
    BY <1>1, <2>1
  <2>2. subscriptions'[name] = None
    BY <1>1
  <2>3. \A x : x \in Table' <=>
                \E n \in Names : subscriptions'[n] # None /\ x = <<n, subscriptions'[n]>>
    BY DEF Table
  <2>4. \A x : x \in Table <=>
                \E n \in Names : subscriptions[n] # None /\ x = <<n, subscriptions[n]>>
    BY DEF Table
  <2> QED BY <1>1, <2>1, <2>2, <2>3, <2>4
<1>5. OwnIds'
  <2>1. Known' \subseteq Known
    BY <1>1, <1>3, <1>4 DEF Known
  <2> QED BY <1>1, <2>1, OwnIdsKept DEF StepInv
<1>6. Same'
  <2> SUFFICES ASSUME link = "up", main # "ended"
               PROVE  /\ Then' \in Brokers /\ Then'.subs = Table'
                      /\ Then'.open = {transaction_id} \ {None}
    BY <1>1 DEF Same
  <2>1. Then \in Brokers /\ Then.subs = Table /\ Then.open = {transaction_id} \ {None}
    BY DEF StepInv, Same
  <2>2. PICK a, b : a = Then /\ b = Then'
    OBVIOUS
  <2>3. b \in Brokers /\ b.subs = a.subs \ {s} /\ b.open = a.open
    BY <1>2, <1>3, <2>1, <2>2, Applies
  <2> QED BY <1>4, <2>1, <2>2, <2>3
<1> QED BY <1>5, <1>6

\* The other frames leave the subscriptions alone, and BEGIN, COMMIT and ABORT
\* do to the broker's transactions what the command does to the client's.
LEMMA OthersInStep ==
  ASSUME StepInv, NEW f \in AnyFrame, Transmit(f),
         f.cmd \in {"BEGIN", "COMMIT", "ABORT", "OPERATION"},
         UNCHANGED <<subscriptions, subscription_id>>,
         f.cmd = "BEGIN" => transaction_id = None /\ transaction_id' = f.transaction
                            /\ f.transaction # None,
         f.cmd \in {"COMMIT", "ABORT"} => f.transaction = transaction_id /\ transaction_id' = None,
         f.cmd = "OPERATION" => transaction_id' = transaction_id
  PROVE  OwnIds' /\ Same'
<1>1. main' = main /\ link' = link /\ broker' = broker /\ Typed
  BY DEF Transmit, StepInv, WellTyped
<1>2. Carried' \subseteq Carried /\ (link = "up" => Then' = Apply(Then, f))
  BY <1>1, TransmitCarries
<1>3. Table' = Table
  BY DEF Table
<1>4. OwnIds'
  <2>1. Known' \subseteq Known
    BY <1>1, <1>2, <1>3 DEF Known
  <2> QED BY <2>1, OwnIdsKept DEF StepInv
<1>5. Same'
  <2> SUFFICES ASSUME link = "up", main # "ended"
               PROVE  /\ Then' \in Brokers /\ Then'.subs = Table
                      /\ Then'.open = {transaction_id'} \ {None}
    BY <1>1, <1>3 DEF Same
  <2>1. Then \in Brokers /\ Then.subs = Table /\ Then.open = {transaction_id} \ {None}
    BY DEF StepInv, Same
  <2>2. PICK a, b : a = Then /\ b = Then'
    OBVIOUS
  <2>3. /\ b \in Brokers /\ b.subs = a.subs
        /\ f.cmd = "BEGIN" => b.open = a.open \cup {f.transaction}
        /\ f.cmd \in {"COMMIT", "ABORT"} => b.open = a.open \ {f.transaction}
        /\ f.cmd = "OPERATION" => b.open = a.open
    BY <1>2, <2>1, <2>2, Applies
  <2> QED BY <2>1, <2>2, <2>3
<1> QED BY <1>4, <1>5

\* The broker goes on to what the frames on their way make of it.
LEMMA HandleInStep ==
  ASSUME StepInv, Handle
  PROVE  OwnIds' /\ Same'
<1>1. Typed /\ wire \in Seq(AnyFrame)
  BY DEF StepInv, WellTyped, Typed
<1>2. PICK f : Handled(f)
  BY <1>1, HandleIs
<1>3. PICK b : b = Apply(broker, f)
  OBVIOUS
<1>4. b.subs \subseteq broker.subs \cup Carried
  <2>1. f \in AnyFrame /\ f = wire[1] /\ 1 \in 1..Len(wire)
    BY <1>2 DEF Handled
  <2>2. b.subs \subseteq broker.subs \cup (IF f.cmd = "SUBSCRIBE" THEN {f.arg} ELSE {})
    <3>1. f.cmd \in {"SUBSCRIBE", "UNSUBSCRIBE", "BEGIN", "COMMIT", "ABORT", "OPERATION", "END"}
      BY <2>1 DEF AnyFrame
    <3> QED BY SMTT(20), <1>1, <1>3, <2>1, <3>1, Applies DEF Typed
  <2> QED BY <2>1, <2>2 DEF Carried
<1>5. Carried' \subseteq Carried
  <2>1. \A i \in 1..Len(wire') : i + 1 \in 1..Len(wire) /\ wire'[i] = wire[i + 1]
    BY <1>2 DEF Handled
  <2> QED BY <2>1 DEF Carried
<1>6. /\ UNCHANGED <<subscriptions, subscription_id, transaction_id, link, main>>
      /\ broker' = b
  BY <1>2, <1>3 DEF Handled
<1>7. Known' \subseteq Known
  BY <1>4, <1>5, <1>6 DEF Known, Table
<1>8. Then' = Then
  BY <1>1, FoldFirst DEF Handle, Then
<1> QED BY <1>6, <1>7, <1>8, OwnIdsKept, SameKept DEF StepInv

\* In the initial state there is nothing to be out of step.
LEMMA StepInit ==
  ASSUME Init
  PROVE  StepInv
<1>1. WellTyped
  BY EmptySeq DEF Init, Typed, Brokers, WellTyped
<1>2. wire = <<>> /\ Len(wire) = 0 /\ broker.subs = {} /\ broker.open = {} /\ transaction_id = None
      /\ \A n \in Names : subscriptions[n] = None
  BY EmptySeq DEF Init
<1>3. Carried = {} /\ Table = {}
  BY <1>2 DEF Carried, Table
<1>4. Then = broker
  BY <1>2, FoldNothing DEF Then
<1> QED BY <1>1, <1>2, <1>3, <1>4 DEF StepInv, OwnIds, Known, Same, WellTyped, Typed

\* Every step keeps the invariant.
LEMMA StepStep ==
  ASSUME StepInv, [Next]_vars
  PROVE  StepInv'
<1>1. WellTyped'
  BY TypedStep DEF StepInv
<1>2. Typed /\ (transaction_id # None => transaction_id \in Nat \ {0})
  BY DEF StepInv, WellTyped
<1> SUFFICES OwnIds' /\ Same'
  BY <1>1 DEF StepInv
<1>3. ASSUME UNCHANGED <<tables, wire, broker>>, main' = main,
             link' = link \/ link' = "known"
      PROVE  OwnIds' /\ Same'
  <2>1. UNCHANGED <<subscriptions, subscription_id, transaction_id>>
    BY <1>3 DEF tables
  <2>2. Known' = Known /\ Then' = Then
    BY <1>3, <2>1 DEF Known, Carried, Table, Then
  <2> QED BY <1>3, <2>1, <2>2, OwnIdsKept, SameKept DEF StepInv
<1>4. ASSUME NEW t \in {None, transaction_id}, Operation(t) PROVE OwnIds' /\ Same'
  <2>1. Frame("OPERATION", done + 1, t) \in AnyFrame
    BY <1>2 DEF Typed, AnyFrame, Frame
  <2>2. /\ Transmit(Frame("OPERATION", done + 1, t))
        /\ UNCHANGED <<subscriptions, subscription_id, transaction_id>>
    BY <1>4 DEF Operation, tables
  <2>3. Frame("OPERATION", done + 1, t).cmd = "OPERATION"
    BY DEF Frame
  <2> QED BY <2>1, <2>2, <2>3, OthersInStep
<1>5. CASE Send \/ SendRec \/ SendFile \/ SendReply \/ Ack \/ Nack
  BY <1>4, <1>5 DEF Send, SendRec, SendFile, SendReply, Ack, Nack
<1>6. CASE Begin
  <2>1. /\ Frame("BEGIN", None, begins + 1) \in AnyFrame
        /\ Frame("BEGIN", None, begins + 1).cmd = "BEGIN"
        /\ Frame("BEGIN", None, begins + 1).transaction = begins + 1 /\ begins + 1 # None
    BY <1>2, NoneAssumption DEF Typed, AnyFrame, Frame
  <2>2. /\ Transmit(Frame("BEGIN", None, begins + 1))
        /\ UNCHANGED <<subscriptions, subscription_id>>
        /\ transaction_id = None /\ transaction_id' = begins + 1
    BY <1>6 DEF Begin
  <2> QED BY <2>1, <2>2, OthersInStep
<1>7. CASE Commit \/ Abort
  <2>1. PICK c \in {"COMMIT", "ABORT"} :
          /\ Transmit(Frame(c, None, transaction_id)) /\ transaction_id' = None
          /\ transaction_id # None /\ UNCHANGED <<subscriptions, subscription_id>>
    BY <1>7 DEF Commit, Abort
  <2>2. /\ Frame(c, None, transaction_id) \in AnyFrame /\ Frame(c, None, transaction_id).cmd = c
        /\ Frame(c, None, transaction_id).transaction = transaction_id
    BY <1>2, <2>1 DEF AnyFrame, Frame
  <2> QED BY <2>1, <2>2, OthersInStep
<1>8. CASE Lose \/ Leave
  <2>1. /\ UNCHANGED <<tables, broker>> /\ Carried' \subseteq Carried
        /\ link' = "lost" \/ main' = "ended"
    BY <1>2, <1>8, EndingCarries DEF Lose, Leave
  <2>2. UNCHANGED <<subscriptions, subscription_id, transaction_id>>
    BY <2>1 DEF tables
  <2>3. Known' \subseteq Known
    BY <2>1, <2>2 DEF Known, Table
  <2> QED BY <2>1, <2>2, <2>3, OwnIdsKept, SameKept DEF StepInv
<1>9. CASE NackRaises \/ StatsRaises \/ Quit \/ FileEnds \/ SendRaises
  BY <1>8, <1>9 DEF NackRaises, StatsRaises, Quit, FileEnds, SendRaises
<1>10. CASE Stats \/ Run \/ RunEnds
  BY <1>3, <1>10 DEF Stats, Run, RunEnds
<1>11. CASE OnDisconnected
  BY <1>3, <1>11 DEF OnDisconnected
<1>12. CASE UNCHANGED vars
  BY <1>3, <1>12 DEF vars
<1>13. CASE Command
  BY <1>5, <1>6, <1>7, <1>9, <1>10, <1>13, SubscribeInStep, UnsubscribeInStep DEF Command
<1> QED BY <1>8, <1>11, <1>12, <1>13, HandleInStep DEF Next, Over

\* When it has handled what is on its way, the broker has the subscriptions of
\* the client's table (__main__.py: __subscriptions) and its transaction open,
\* and no two subscriptions it knows of, also old ones, share their id.
THEOREM TablesInStep == Spec => []InStep
<1>1. Init => StepInv
  BY StepInit
<1>2. StepInv /\ [Next]_vars => StepInv'
  BY StepStep
<1>3. StepInv => InStep
  <2> SUFFICES ASSUME StepInv, link = "up", main # "ended"
               PROVE  /\ Then.subs = Table /\ Then.open = {transaction_id} \ {None}
                      /\ \A s1, s2 \in broker.subs \cup Then.subs : s1[2] = s2[2] => s1 = s2
    BY DEF InStep, Then, Table
  <2> QED BY DEF StepInv, Same, OwnIds, Known
<1> QED
  BY <1>1, <1>2, <1>3, PTL DEF Spec
=============================================================================
