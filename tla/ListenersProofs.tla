--------------------------- MODULE ListenersProofs ---------------------------
(***************************************************************************)
(* The three properties of Listeners, whatever the listeners, their names, *)
(* the waiting threads and the bounds are.  WaitersServed is nearly        *)
(* inductive: IInv only adds what values the variables of the TestListener *)
(* have, that its flag says whether a frame has come since the last wait   *)
(* returned, and that the receiver tells it of a frame it knows.           *)
(* HInv, for the other two, follows the receiver through the sorted copy   *)
(* of the registry and the heartbeat thread through the registry itself.   *)
(***************************************************************************)
EXTENDS Listeners, FiniteSetTheorems, WellFoundedInduction, TLAPS

WaiterStates == {[at |-> "away", for |-> None]} \cup [at : {"waiting", "woken"}, for : Kinds]

TestingOK ==
  /\ received \in [Kinds -> BOOLEAN]
  /\ counts \in [Kinds -> Nat] /\ returns \in [Kinds -> Nat] /\ taken \in [Kinds -> Nat]
  /\ waiter \in [Waiters -> WaiterStates]
  /\ \A k \in Kinds : received[k] <=> taken[k] < counts[k]  \* the flag says it

ReceiverOK ==
  /\ kind \in Kinds \cup {None}
  /\ kind = None => todo = <<>> /\ calls = None

IInv == TestingOK /\ ReceiverOK /\ WaitersServed

\* Both kinds of frames at once.
LEMMA InitIInv == Init => IInv
  BY DEF Init, IInv, TestingOK, ReceiverOK, WaitersServed, WaiterStates, Kinds

\* The counts of one kind.
LEMMA Tally ==
  ASSUME IInv, NEW j \in Kinds
  PROVE  /\ returns[j] \in Nat /\ taken[j] \in Nat /\ counts[j] \in Nat
         /\ returns[j] <= taken[j] /\ taken[j] <= counts[j]
         /\ received[j] \in BOOLEAN /\ (received[j] <=> taken[j] < counts[j])
  BY DEF IInv, TestingOK, WaitersServed

\* A frame that the TestListener is told of raises its flag and wakes a waiter.
LEMMA OnFrameServes ==
  ASSUME IInv, NEW k \in Kinds, OnFrame(k)
  PROVE  TestingOK' /\ WaitersServed'
<1> USE DEF OnFrame, Count, Wake
<1> DEFINE asleep == {w \in Waiters : waiter[w] = [at |-> "waiting", for |-> k]}
<1>0. ASSUME NEW j \in Kinds
      PROVE  /\ returns'[j] <= taken'[j] /\ taken'[j] <= counts'[j]
             /\ received'[j] <=> taken'[j] < counts'[j]
  <2>1. returns'[j] = returns[j] /\ taken'[j] = taken[j]
    OBVIOUS
  <2>2. CASE j = k
    <3>1. counts'[j] = counts[j] + 1 /\ received'[j]
      BY <2>2 DEF IInv, TestingOK
    <3> QED BY <2>1, <3>1, Tally
  <2>3. CASE j # k
    <3>1. counts'[j] = counts[j] /\ received'[j] = received[j]
      BY <2>3 DEF IInv, TestingOK
    <3> QED BY <2>1, <3>1, Tally
  <2> QED BY <2>2, <2>3
<1>1. TestingOK'
  <2>1. waiter' \in [Waiters -> WaiterStates]
    <3>1. CASE asleep = {}
      BY <3>1 DEF IInv, TestingOK
    <3>2. CASE asleep # {}
      <4>1. PICK w \in asleep : waiter' = [waiter EXCEPT ![w].at = "woken"]
        BY <3>2
      <4>2. waiter'[w] = [at |-> "woken", for |-> k] /\ \A v \in Waiters \ {w} : waiter'[v] = waiter[v]
        BY <4>1 DEF IInv, TestingOK
      <4> QED BY <4>1, <4>2 DEF IInv, TestingOK, WaiterStates
    <3> QED BY <3>1, <3>2
  <2>2. /\ received' \in [Kinds -> BOOLEAN] /\ counts' \in [Kinds -> Nat]
        /\ returns' \in [Kinds -> Nat] /\ taken' \in [Kinds -> Nat]
    BY DEF IInv, TestingOK
  <2> QED BY <1>0, <2>1, <2>2 DEF TestingOK
<1>2. ASSUME NEW j \in Kinds, received'[j],
             NEW v \in Waiters, waiter'[v] = [at |-> "waiting", for |-> j]
      PROVE  \E w \in Waiters : waiter'[w] = [at |-> "woken", for |-> j]
  <2>1. CASE asleep = {}
    <3>1. waiter' = waiter
      BY <2>1
    <3>2. j # k
      BY <1>2, <2>1, <3>1
    <3>3. taken[j] < counts[j]
      BY <1>2, <3>2, Tally DEF IInv, TestingOK
    <3> QED BY <1>2, <3>1, <3>3 DEF IInv, WaitersServed
  <2>2. CASE asleep # {}
    <3>1. PICK w \in asleep : waiter' = [waiter EXCEPT ![w].at = "woken"]
      BY <2>2
    <3>2. waiter'[w] = [at |-> "woken", for |-> k] /\ \A u \in Waiters \ {w} : waiter'[u] = waiter[u]
      BY <3>1 DEF IInv, TestingOK
    <3>3. CASE j = k
      BY <3>2, <3>3
    <3>4. CASE j # k
      <4>1. received[j] /\ waiter[v] = [at |-> "waiting", for |-> j]
        BY <1>2, <3>2, <3>4 DEF IInv, TestingOK
      <4>2. PICK u \in Waiters : waiter[u] = [at |-> "woken", for |-> j]
        BY <4>1, Tally DEF IInv, WaitersServed
      <4> QED BY <3>2, <4>2
    <3> QED BY <3>3, <3>4
  <2> QED BY <2>1, <2>2
<1> QED BY <1>0, <1>1, <1>2 DEF WaitersServed, TestingOK

\* A wait that finds its flag takes it; the others have it no more.
LEMMA ReturnServes ==
  ASSUME IInv, NEW w \in Waiters, NEW k \in Kinds, received[k], Return(w, k), UNCHANGED counts,
         waiter[w].at = "woken" => waiter[w].for = k
  PROVE  TestingOK' /\ WaitersServed'
<1>0. ASSUME NEW j \in Kinds
      PROVE  /\ returns'[j] <= taken'[j] /\ taken'[j] <= counts'[j]
             /\ received'[j] <=> taken'[j] < counts'[j]
  <2>1. counts'[j] = counts[j]
    OBVIOUS
  <2>2. CASE j = k
    <3>1. returns'[j] = returns[j] + 1 /\ taken'[j] = counts[j] /\ ~received'[j]
      BY <2>2 DEF Return, IInv, TestingOK
    <3>2. received[j]
      BY <2>2
    <3> QED BY <2>1, <3>1, <3>2, Tally
  <2>3. CASE j # k
    <3>1. returns'[j] = returns[j] /\ taken'[j] = taken[j] /\ received'[j] = received[j]
      BY <2>3 DEF Return, IInv, TestingOK
    <3> QED BY <2>1, <3>1, Tally
  <2> QED BY <2>2, <2>3
<1>1. TestingOK'
  <2>1. /\ received' \in [Kinds -> BOOLEAN] /\ counts' \in [Kinds -> Nat]
        /\ returns' \in [Kinds -> Nat] /\ taken' \in [Kinds -> Nat]
        /\ waiter' \in [Waiters -> WaiterStates]
    BY DEF Return, IInv, TestingOK, WaiterStates
  <2> QED BY <1>0, <2>1 DEF TestingOK
<1>2. ASSUME NEW j \in Kinds, received'[j],
             NEW v \in Waiters, waiter'[v] = [at |-> "waiting", for |-> j]
      PROVE  \E u \in Waiters : waiter'[u] = [at |-> "woken", for |-> j]
  <2>1. v # w /\ waiter[v] = [at |-> "waiting", for |-> j]
    BY <1>2 DEF Return, IInv, TestingOK
  <2>2. j # k /\ received[j]
    BY <1>2 DEF Return, IInv, TestingOK
  <2>3. PICK u \in Waiters : waiter[u] = [at |-> "woken", for |-> j]
    BY <2>1, <2>2, Tally DEF IInv, WaitersServed
  <2>4. u # w
    BY <2>2, <2>3
  <2> QED BY <2>3, <2>4 DEF Return, IInv, TestingOK
<1> QED BY <1>0, <1>1, <1>2 DEF WaitersServed, TestingOK

\* Whoever goes to sleep has found the flag down.
LEMMA WaitOnServes ==
  ASSUME IInv, NEW w \in Waiters, NEW k \in Kinds, ~received[k], WaitOn(w, k), UNCHANGED counts,
         waiter[w].at = "woken" => waiter[w].for = k
  PROVE  TestingOK' /\ WaitersServed'
<1>1. TestingOK'
  BY DEF WaitOn, IInv, TestingOK, WaiterStates
<1>2. ASSUME NEW j \in Kinds, received'[j],
             NEW v \in Waiters, waiter'[v] = [at |-> "waiting", for |-> j]
      PROVE  \E u \in Waiters : waiter'[u] = [at |-> "woken", for |-> j]
  BY <1>2 DEF WaitOn, IInv, TestingOK, WaitersServed
<1>3. ASSUME NEW j \in Kinds
      PROVE  returns'[j] <= taken'[j] /\ taken'[j] <= counts'[j]
  BY <1>3, Tally DEF WaitOn
<1> QED BY <1>1, <1>2, <1>3 DEF WaitersServed, TestingOK

LEMMA StepIInv == IInv /\ [Next]_vars => IInv'
<1> SUFFICES ASSUME IInv, [Next]_vars PROVE IInv'
  OBVIOUS
<1>1. ASSUME UNCHANGED <<testing, counts>>
      PROVE  TestingOK' /\ WaitersServed'
  BY <1>1 DEF IInv, TestingOK, WaitersServed, testing
<1>2. CASE UNCHANGED vars
  BY <1>1, <1>2 DEF vars, receiver, IInv, ReceiverOK
<1>3. ASSUME NEW name \in Names, RemoveListener(name) \/ \E l \in Listeners : SetListener(name, l)
      PROVE  IInv'
  <2>1. UNCHANGED <<receiver, counts, testing>>
    BY <1>3 DEF RemoveListener, SetListener, Change
  <2> QED BY <1>1, <2>1 DEF IInv, ReceiverOK, receiver
<1>4. ASSUME NEW k \in Kinds, ProcessFrame(k) PROVE IInv'
  <2>1. ReceiverOK'
    BY <1>4, ListenersAssumption DEF ProcessFrame, IInv, ReceiverOK, Kinds
  <2> QED BY <1>1, <1>4, <2>1 DEF ProcessFrame, IInv
<1>5. CASE Notify
  <2>1. ReceiverOK'
    BY <1>5 DEF Notify, IInv, ReceiverOK
  <2> QED BY <1>1, <1>5, <2>1 DEF Notify, IInv
<1>6. CASE Call
  <2>1. kind \in Kinds /\ ReceiverOK'
    BY <1>6 DEF Call, IInv, ReceiverOK
  <2>2. CASE UNCHANGED <<counts, testing>>
    BY <1>1, <2>1, <2>2 DEF IInv
  <2>3. CASE OnFrame(kind)
    BY <2>1, <2>3, OnFrameServes DEF IInv
  <2> QED BY <1>6, <2>2, <2>3 DEF Call
<1>7. CASE NotifyEnds
  <2>1. ReceiverOK'
    BY <1>7 DEF NotifyEnds, IInv, ReceiverOK
  <2> QED BY <1>1, <1>7, <2>1 DEF NotifyEnds, IInv
<1>8. ASSUME NEW w \in Waiters, WakeUp(w) PROVE IInv'
  <2> DEFINE k == waiter[w].for
  <2>1. k \in Kinds /\ waiter[w] = [at |-> "woken", for |-> k]
    BY <1>8 DEF WakeUp, IInv, TestingOK, WaiterStates
  <2>2. ReceiverOK' /\ UNCHANGED counts
    BY <1>8 DEF WakeUp, receiver, IInv, ReceiverOK
  <2>3. CASE received[k]
    BY <1>8, <2>1, <2>2, <2>3, ReturnServes DEF WakeUp, IInv
  <2>4. CASE ~received[k]
    BY <1>8, <2>1, <2>2, <2>4, WaitOnServes DEF WakeUp, IInv
  <2> QED BY <2>3, <2>4
<1>9. ASSUME NEW w \in Waiters, NEW k \in Kinds, Wait(w, k) PROVE IInv'
  <2>1. waiter[w].at = "away"
    BY <1>9 DEF Wait
  <2>2. ReceiverOK' /\ UNCHANGED counts
    BY <1>9 DEF Wait, receiver, IInv, ReceiverOK
  <2>3. CASE received[k]
    BY <1>9, <2>2, <2>3, ReturnServes DEF Wait, IInv
  <2>4. CASE ~received[k]
    BY <1>9, <2>1, <2>2, <2>4, WaitOnServes DEF Wait, IInv
  <2> QED BY <2>3, <2>4
<1>10. CASE OnConnected \/ Timeout \/ OnHeartbeatTimeout \/ CallbackRaises \/ LoopEnds \/ LoopRaises
  <2>1. UNCHANGED <<receiver, counts, testing>>
    BY <1>10 DEF OnConnected, Timeout, OnHeartbeatTimeout, CallbackRaises, LoopEnds, LoopRaises
  <2> QED BY <1>1, <2>1 DEF IInv, ReceiverOK, receiver
<1>11. CASE CallRaises
  <2>1. ReceiverOK'
    BY <1>11 DEF CallRaises, ReceiverOK
  <2> QED BY <1>1, <1>11, <2>1 DEF CallRaises, IInv
<1> QED
  BY <1>2, <1>3, <1>4, <1>5, <1>6, <1>7, <1>8, <1>9, <1>10, <1>11 DEF Next

\* While a frame has come since the last wait of its kind returned, not all who wait
\* for it in wait_for_message() or wait_for_heartbeat() sleep; and each wait that
\* returns has a frame of its own; whatever the numbers of threads and of frames.
THEOREM WaitersAreServed == Spec => []WaitersServed
<1>1. IInv => WaitersServed
  BY DEF IInv
<1> QED BY InitIInv, StepIInv, <1>1, PTL DEF Spec

-----------------------------------------------------------------------------
(* Numbers: every set of them has a least one, and so one may go by one *)

\* A set of natural numbers that is not empty has a least element.
LEMMA LeastNumber ==
  ASSUME NEW T \in SUBSET Nat, T # {}
  PROVE  \E x \in T : \A y \in T : x <= y
<1>1. \E x \in T : \A y \in T : ~(<<y, x>> \in OpToRel(<, Nat))
  BY NatLessThanWellFounded, WFMin
<1>2. \A x, y \in T : ~(<<y, x>> \in OpToRel(<, Nat)) => x <= y
  BY SMT DEF OpToRel
<1> QED BY <1>1, <1>2

\* What holds of 0 and is handed on from n to n + 1 holds of every number.
LEMMA OneByOne ==
  ASSUME NEW T, 0 \in T, \A n \in Nat : n \in T => n + 1 \in T
  PROVE  \A n \in Nat : n \in T
<1> SUFFICES ASSUME Nat \ T # {} PROVE FALSE
  OBVIOUS
<1>1. PICK x \in Nat \ T : \A y \in Nat \ T : x <= y
  BY LeastNumber
<1>2. x # 0 /\ x - 1 \in Nat
  BY <1>1
<1> QED BY <1>1, <1>2

-----------------------------------------------------------------------------
(* The copy that notify() makes *)

Entry == Names \X Listeners

\* entries of different names
Named(S) == S \subseteq Entry /\ \A e1, e2 \in S : e1[1] = e2[1] => e1 = e2
Sorting(S, s) == s \in [1..Cardinality(S) -> S] /\ ToSet(s) = S /\ IsSorted(s, ByName)

\* Finitely many entries of different names can be sorted by their names: the one
\* with the least name comes before the others, sorted.
LEMMA Sortable ==
  \A S : IsFiniteSet(S) /\ Named(S) => \E s : Sorting(S, s)
<1> DEFINE T == {n \in Nat : \A S : IsFiniteSet(S) /\ Named(S) /\ Cardinality(S) = n
                                      => \E s : Sorting(S, s)}
<1>1. 0 \in T
  <2> SUFFICES ASSUME NEW S, IsFiniteSet(S), Cardinality(S) = 0 PROVE \E s : Sorting(S, s)
    OBVIOUS
  <2>1. S = {}
    BY FS_EmptySet
  <2>2. Sorting(S, <<>>)
    BY <2>1 DEF Sorting, ToSet, IsSorted
  <2> QED BY <2>2
<1>2. ASSUME NEW n \in Nat, n \in T PROVE n + 1 \in T
  <2> SUFFICES ASSUME NEW S, IsFiniteSet(S), Named(S), Cardinality(S) = n + 1
               PROVE  \E s : Sorting(S, s)
    OBVIOUS
  <2>1. S # {}
    BY FS_EmptySet
  <2>2. PICK e \in S : \A e2 \in S : e[1] <= e2[1]
    <3> DEFINE N == {x[1] : x \in S}
    <3>1. N \in SUBSET Nat /\ N # {}
      BY <2>1, ListenersAssumption DEF Named, Entry
    <3>2. \E x \in N : \A y \in N : x <= y
      <4> HIDE DEF N
      <4> QED BY <3>1, LeastNumber
    <3> QED BY <3>2
  <2>3. IsFiniteSet(S \ {e}) /\ Cardinality(S \ {e}) = n /\ Named(S \ {e})
    <3>1. IsFiniteSet(S \ {e}) /\ Cardinality(S \ {e}) = Cardinality(S) - 1
      BY FS_RemoveElement
    <3>2. Named(S \ {e})
      BY DEF Named
    <3> QED BY <3>1, <3>2
  <2>4. PICK r : Sorting(S \ {e}, r)
    BY <1>2, <2>3
  <2> DEFINE s == [i \in 1..(n + 1) |-> IF i = 1 THEN e ELSE r[i - 1]]
  <2>5. r \in [1..n -> S \ {e}] /\ ToSet(r) = S \ {e} /\ \A i, j \in 1..n : i < j => ByName(r[i], r[j])
    <3>1. Len(r) = n
      BY <2>3, <2>4 DEF Sorting
    <3> QED BY <2>3, <2>4, <3>1 DEF Sorting, IsSorted
  <2>6. s \in [1..(n + 1) -> S]
    BY <2>5
  <2>7. ToSet(s) = S
    <3>1. \A i \in 1..(n + 1) : s[i] \in S
      BY <2>6
    <3>2. ASSUME NEW x \in S PROVE \E i \in 1..(n + 1) : s[i] = x
      <4>1. CASE x = e
        BY <4>1
      <4>2. CASE x # e
        <5>1. PICK i \in 1..n : r[i] = x
          BY <2>5, <4>2 DEF ToSet
        <5>2. i + 1 \in 1..(n + 1) /\ s[i + 1] = x
          BY <5>1
        <5> QED BY <5>2
      <4> QED BY <4>1, <4>2
    <3> QED BY <3>1, <3>2 DEF ToSet
  <2>8. \A i, j \in 1..(n + 1) : i < j => ByName(s[i], s[j])
    <3> SUFFICES ASSUME NEW i \in 1..(n + 1), NEW j \in 1..(n + 1), i < j PROVE ByName(s[i], s[j])
      OBVIOUS
    <3>1. j - 1 \in 1..n /\ s[j] = r[j - 1]
      OBVIOUS
    <3>2. CASE i = 1
      <4>1. r[j - 1] \in S /\ r[j - 1] # e
        BY <2>5, <3>1
      <4>2. e[1] \in Nat /\ r[j - 1][1] \in Nat /\ e[1] # r[j - 1][1] /\ e[1] <= r[j - 1][1]
        BY <2>2, <4>1, ListenersAssumption DEF Named, Entry
      <4> QED BY <3>1, <3>2, <4>2 DEF ByName
    <3>3. CASE i # 1
      <4>1. i - 1 \in 1..n /\ s[i] = r[i - 1] /\ i - 1 < j - 1
        BY <3>3
      <4> QED BY <2>5, <3>1, <4>1
    <3> QED BY <3>2, <3>3
  <2>9. Sorting(S, s)
    <3>1. Len(s) = n + 1
      OBVIOUS
    <3> HIDE DEF s
    <3> QED BY <2>6, <2>7, <2>8, <3>1 DEF Sorting, IsSorted
  <2> QED BY <2>9
<1>3. \A n \in Nat : n \in T
  <2> HIDE DEF T
  <2> QED BY <1>1, <1>2, OneByOne
<1> QED BY <1>3, FS_CardinalityType

\* What notify() makes of the registry: its entries, each once, by their names.
LEMMA SnapshotSorts ==
  ASSUME IsFiniteSet(Entries), Named(Entries)
  PROVE  /\ Snapshot \in Seq(Entry) /\ ToSet(Snapshot) = Entries
         /\ \A i, j \in DOMAIN Snapshot : i < j => ByName(Snapshot[i], Snapshot[j])
<1> DEFINE s == Snapshot
<1>1. \E t \in [1..Cardinality(Entries) -> Entries] : ToSet(t) = Entries /\ IsSorted(t, ByName)
  BY Sortable DEF Sorting
<1>2. /\ s \in [1..Cardinality(Entries) -> Entries] /\ ToSet(s) = Entries
      /\ \A i, j \in 1..Len(s) : i < j => ByName(s[i], s[j])
  BY <1>1 DEF Snapshot, IsSorted
<1>3. Cardinality(Entries) \in Nat
  BY FS_CardinalityType
<1>4. s \in Seq(Entry) /\ Len(s) = Cardinality(Entries) /\ DOMAIN s = 1..Len(s)
  <2> HIDE DEF s
  <2> QED BY <1>2, <1>3 DEF Named
<1> QED BY <1>2, <1>4

-----------------------------------------------------------------------------
(* The registry, the receiver's round and the heartbeat thread's walk *)

\* the dict has names once
DictOK ==
  /\ listeners \in Seq(Entry \cup {None})
  /\ \A i, j \in DOMAIN listeners :
       listeners[i] # None /\ listeners[j] # None /\ listeners[i][1] = listeners[j][1] => i = j

Rests(k) == IF k = "message" THEN {<<"before_message", "message">>, <<"message">>, <<>>}
            ELSE {<<"heartbeat">>, <<>>}
Types == {"before_message", "message", "heartbeat"}

\* the receiver's notifications of one frame
RoundOK ==
  /\ kind \in Kinds \cup {None} /\ heard \in Seq(Types \X Entry) /\ kept \subseteq Entries
  /\ IF kind = None THEN todo = <<>> ELSE todo \in Rests(kind)
  /\ todo = <<>> => calls = None
  /\ calls # None => /\ calls \in Seq(Entry)
                     /\ \A i, j \in DOMAIN calls : i < j => ByName(calls[i], calls[j])

\* it goes through the types of notifications in their order, and through the
\* names in theirs
InOrder ==
  /\ \A i \in DOMAIN heard : heard[i][1] \in ToSet(Notifications(kind))
  /\ \A i, j \in DOMAIN heard : i < j =>
       \/ heard[i][1] = heard[j][1] /\ ByName(heard[i][2], heard[j][2])
       \/ heard[i][1] = "before_message" /\ heard[j][1] = "message"
  /\ todo # <<>> => \A i \in DOMAIN heard :
       /\ heard[i][1] \notin ToSet(Tail(todo))
       /\ heard[i][1] = Head(todo) =>
            calls # None /\ \A c \in ToSet(calls) : ByName(heard[i][2], c)

\* and who is kept has heard, or is still to hear
Covered ==
  kind # None => \A e \in kept : \A type \in ToSet(Notifications(kind)) :
    \/ <<type, e>> \in ToSet(heard)
    \/ type \in ToSet(todo) /\ (type = Head(todo) /\ calls # None => e \in ToSet(calls))

\* the heartbeat thread has told those up to its index
WalkOK ==
  /\ index \in Nat /\ told \in Seq(Entry) /\ stayed \subseteq Entries
  /\ loop = "walk" =>
       /\ ~touched => size = Cardinality(Entries)
       /\ \A i \in DOMAIN listeners : listeners[i] \in stayed =>
            IF i <= index THEN Once(told, listeners[i]) ELSE listeners[i] \notin ToSet(told)
  /\ loop = "dead" => touched \/ raised
  /\ loop = "ended" => ~heartbeat_thread /\ \A e \in stayed : Once(told, e)

HInv == DictOK /\ RoundOK /\ InOrder /\ Covered /\ WalkOK

\* The registry has finitely many entries, of different names.
LEMMA DictEntries ==
  ASSUME DictOK
  PROVE  /\ IsFiniteSet(Entries) /\ Named(Entries)
         /\ DOMAIN listeners = 1..Len(listeners) /\ Len(listeners) \in Nat
<1>1. DOMAIN listeners = 1..Len(listeners) /\ Len(listeners) \in Nat
  BY DEF DictOK
<1>2. IsFiniteSet(ToSet(listeners))
  <2>1. IsFiniteSet(1..Len(listeners))
    BY <1>1, FS_Interval
  <2>2. listeners \in Surjection(1..Len(listeners), ToSet(listeners))
    BY <1>1 DEF Surjection, ToSet, DictOK
  <2> QED BY <2>1, <2>2, FS_Surjection
<1>3. IsFiniteSet(Entries)
  BY <1>2, FS_Subset DEF Entries
<1>4. Entries \subseteq Entry
  BY <1>1 DEF Entries, ToSet, DictOK
<1>5. ASSUME NEW e1 \in Entries, NEW e2 \in Entries, e1[1] = e2[1] PROVE e1 = e2
  <2>1. PICK i \in DOMAIN listeners, j \in DOMAIN listeners : listeners[i] = e1 /\ listeners[j] = e2
    BY DEF Entries, ToSet
  <2> QED BY <1>5, <2>1 DEF Entries, DictOK
<1> QED BY <1>1, <1>3, <1>4, <1>5 DEF Named

\* What a sequence without a value becomes when the value is appended.
LEMMA OnceAppended ==
  ASSUME NEW S, NEW s \in Seq(S), NEW x \in S
  PROVE  /\ x \notin ToSet(s) => Once(Append(s, x), x)
         /\ \A y : y # x => /\ Once(s, y) => Once(Append(s, x), y)
                            /\ y \notin ToSet(s) => y \notin ToSet(Append(s, x))
         /\ \A y : y \in ToSet(Append(s, x)) <=> y \in ToSet(s) \/ y = x
<1> DEFINE t == Append(s, x)
<1>1. /\ Len(t) = Len(s) + 1 /\ DOMAIN t = 1..(Len(s) + 1) /\ DOMAIN s = 1..Len(s) /\ Len(s) \in Nat
      /\ t[Len(s) + 1] = x /\ \A i \in 1..Len(s) : t[i] = s[i]
  OBVIOUS
<1> HIDE DEF t
<1>2. x \notin ToSet(s) => Once(t, x)
  <2> SUFFICES ASSUME x \notin ToSet(s) PROVE Once(t, x)
    OBVIOUS
  <2>1. \A i \in 1..Len(s) : t[i] # x
    BY <1>1 DEF ToSet
  <2>2. Len(s) + 1 \in DOMAIN t /\ \A j \in DOMAIN t : t[j] = x <=> j = Len(s) + 1
    BY <1>1, <2>1
  <2> QED BY <2>2 DEF Once
<1>3. ASSUME NEW y, y # x, Once(s, y) PROVE Once(t, y)
  <2>1. PICK i \in 1..Len(s) : \A j \in 1..Len(s) : s[j] = y <=> j = i
    BY <1>1, <1>3 DEF Once
  <2>2. i \in DOMAIN t /\ \A j \in DOMAIN t : t[j] = y <=> j = i
    BY <1>1, <1>3, <2>1
  <2> QED BY <2>2 DEF Once
<1>4. \A y : y \in ToSet(t) <=> y \in ToSet(s) \/ y = x
  <2>1. 1..(Len(s) + 1) = 1..Len(s) \cup {Len(s) + 1}
    BY <1>1
  <2> QED BY <1>1, <2>1 DEF ToSet
<1> QED BY <1>2, <1>3, <1>4 DEF t

-----------------------------------------------------------------------------
(* What the registry becomes *)

\* A change keeps the names different and the entries that stay in their places.
LEMMA NewRegistry ==
  ASSUME DictOK, NEW name \in Names,
         RemoveListener(name) \/ \E l \in Listeners : SetListener(name, l)
  PROVE  /\ DictOK'
         /\ \A i \in DOMAIN listeners' : listeners'[i] \in Entries =>
              i \in DOMAIN listeners /\ listeners'[i] = listeners[i]
<1>1. DOMAIN listeners = 1..Len(listeners) /\ Len(listeners) \in Nat /\ None \notin Entry
  BY DictEntries, ListenersAssumption DEF Entry
<1>2. CASE RemoveListener(name)
  <2>1. listeners' = [i \in DOMAIN listeners |->
               IF listeners[i] # None /\ listeners[i][1] = name THEN None ELSE listeners[i]]
    BY <1>2 DEF RemoveListener, Change
  <2>2. listeners' \in Seq(Entry \cup {None}) /\ DOMAIN listeners' = DOMAIN listeners
    BY <1>1, <2>1 DEF DictOK
  <2>3. \A i \in DOMAIN listeners : listeners'[i] = listeners[i] \/ listeners'[i] = None
    BY <2>1
  <2>4. None \notin Entries
    BY DEF Entries
  <2> QED BY <2>2, <2>3, <2>4 DEF DictOK
<1>3. ASSUME NEW l \in Listeners, SetListener(name, l)
      PROVE  /\ DictOK'
             /\ \A i \in DOMAIN listeners' : listeners'[i] \in Entries =>
                  i \in DOMAIN listeners /\ listeners'[i] = listeners[i]
  <2> DEFINE new == <<name, l>>
  <2>1. new \in Entry /\ new[1] = name /\ new # None
    BY <1>1 DEF Entry
  <2>2. CASE \E e \in Entries : e[1] = name
    <3>1. listeners' = [i \in DOMAIN listeners |->
                    IF listeners[i] # None /\ listeners[i][1] = name THEN new ELSE listeners[i]]
      BY <1>3, <2>2 DEF SetListener, Change
    <3>2. listeners' \in Seq(Entry \cup {None}) /\ DOMAIN listeners' = DOMAIN listeners
      BY <1>1, <2>1, <3>1 DEF DictOK
    <3>3. \A i \in DOMAIN listeners :
             \/ listeners'[i] = listeners[i]
             \/ listeners[i] # None /\ listeners[i][1] = name /\ listeners'[i] = new
      BY <3>1
    <3>4. DictOK'
      BY <2>1, <3>2, <3>3 DEF DictOK
    <3>5. ASSUME NEW i \in DOMAIN listeners, listeners'[i] \in Entries
          PROVE  listeners'[i] = listeners[i]
      <4>1. PICK j \in DOMAIN listeners : listeners[j] = listeners'[i] /\ listeners[j] # None
        BY <3>5 DEF Entries, ToSet
      <4>2. CASE listeners[i] # None /\ listeners[i][1] = name /\ listeners'[i] = new
        <5>1. listeners[j][1] = listeners[i][1]
          BY <2>1, <4>1, <4>2
        <5>2. i = j
          BY <4>1, <4>2, <5>1 DEF DictOK
        <5> QED BY <4>1, <5>2
      <4> QED BY <3>3, <4>2
    <3> QED BY <3>2, <3>4, <3>5
  <2>3. CASE ~\E e \in Entries : e[1] = name
    <3>1. listeners' = Append(listeners, new)
      BY <1>3, <2>3 DEF SetListener, Change
    <3>2. /\ listeners' \in Seq(Entry \cup {None}) /\ DOMAIN listeners' = 1..(Len(listeners) + 1)
          /\ listeners'[Len(listeners) + 1] = new
          /\ \A i \in 1..Len(listeners) : listeners'[i] = listeners[i]
      BY <1>1, <2>1, <3>1 DEF DictOK
    <3>3. \A i \in DOMAIN listeners : listeners[i] # None => listeners[i][1] # name
      BY <2>3 DEF Entries, ToSet
    <3>4. \A i \in DOMAIN listeners' : i \in DOMAIN listeners \/ i = Len(listeners) + 1
      BY <1>1, <3>2
    <3>5. DictOK'
      <4>1. ASSUME NEW i \in DOMAIN listeners', NEW j \in DOMAIN listeners', listeners'[i] # None,
                   listeners'[j] # None, listeners'[i][1] = listeners'[j][1]
            PROVE  i = j
        <5>1. CASE i \in DOMAIN listeners /\ j \in DOMAIN listeners
          BY <1>1, <3>2, <4>1, <5>1 DEF DictOK
        <5>2. CASE i = Len(listeners) + 1 /\ j \in DOMAIN listeners
          BY <1>1, <2>1, <3>2, <3>3, <4>1, <5>2
        <5>3. CASE j = Len(listeners) + 1 /\ i \in DOMAIN listeners
          BY <1>1, <2>1, <3>2, <3>3, <4>1, <5>3
        <5> QED BY <3>4, <5>1, <5>2, <5>3
      <4> QED BY <3>2, <4>1 DEF DictOK
    <3>6. new \notin Entries
      BY <2>1, <2>3
    <3> QED BY <1>1, <3>2, <3>4, <3>5, <3>6
  <2> QED BY <2>2, <2>3
<1> QED BY <1>2, <1>3

\* Who was there all along is one of those who stay.
LEMMA ChangeHeard ==
  ASSUME HInv, NEW name \in Names,
         RemoveListener(name) \/ \E l \in Listeners : SetListener(name, l)
  PROVE  HInv'
<1>1. /\ UNCHANGED <<receiver, heartbeat>>
      /\ kept' = kept \cap ToSet(listeners') /\ stayed' = stayed \cap ToSet(listeners')
      /\ touched' = (touched \/ ToSet(listeners') # ToSet(listeners))
  <2>1. \E new : Change(new)
    <3>1. CASE RemoveListener(name)
      BY <3>1 DEF RemoveListener
    <3>2. ASSUME NEW l \in Listeners, SetListener(name, l) PROVE \E new : Change(new)
      BY <3>2 DEF SetListener
    <3> QED BY <3>1, <3>2
  <2>2. ASSUME NEW new, Change(new)
        PROVE  /\ UNCHANGED <<receiver, heartbeat>> /\ listeners' = new
               /\ kept' = kept \cap ToSet(new) /\ stayed' = stayed \cap ToSet(new)
               /\ touched' = (touched \/ ToSet(new) # ToSet(listeners))
    BY <2>2 DEF Change
  <2> QED BY <2>1, <2>2
<1>2. /\ DictOK'
      /\ \A i \in DOMAIN listeners' : listeners'[i] \in Entries =>
              i \in DOMAIN listeners /\ listeners'[i] = listeners[i]
  BY NewRegistry DEF HInv
<1>3. kept' \subseteq kept /\ kept' \subseteq Entries' /\ stayed' \subseteq stayed /\ stayed' \subseteq Entries'
  BY <1>1 DEF HInv, RoundOK, WalkOK, Entries
<1>4. RoundOK' /\ InOrder' /\ Covered'
  BY <1>1, <1>3 DEF HInv, RoundOK, InOrder, Covered, receiver
<1>5. ASSUME loop = "walk"
      PROVE  /\ ~touched' => size = Cardinality(Entries')
             /\ \A i \in DOMAIN listeners' : listeners'[i] \in stayed' =>
                  IF i <= index THEN Once(told, listeners'[i]) ELSE listeners'[i] \notin ToSet(told)
  <2>1. ~touched' => Entries' = Entries /\ ~touched
    BY <1>1 DEF Entries
  <2>2. stayed \subseteq Entries
    BY DEF HInv, WalkOK
  <2>3. \A i \in DOMAIN listeners' : listeners'[i] \in stayed' =>
          i \in DOMAIN listeners /\ listeners'[i] = listeners[i] /\ listeners[i] \in stayed
    BY <1>2, <1>3, <2>2
  <2> QED BY <1>5, <2>1, <2>3 DEF HInv, WalkOK
<1>6. /\ loop' = loop /\ index' = index /\ told' = told /\ size' = size /\ raised' = raised
      /\ heartbeat_thread' = heartbeat_thread
  BY <1>1 DEF heartbeat
<1>7. WalkOK'
  BY <1>1, <1>3, <1>5, <1>6 DEF HInv, WalkOK
<1> QED BY <1>2, <1>4, <1>7 DEF HInv

-----------------------------------------------------------------------------
(* The receiver's round *)

\* The types of notifications of a frame, and what is left of them.
LEMMA TodoFacts ==
  ASSUME RoundOK, todo # <<>>
  PROVE  /\ kind \in Kinds /\ Head(todo) \in Types /\ Tail(todo) \in Rests(kind) /\ todo \in Seq(Types)
         /\ ToSet(todo) \subseteq ToSet(Notifications(kind))
         /\ \A type \in ToSet(todo) : type = Head(todo) \/ type \in ToSet(Tail(todo))
         /\ Head(todo) \notin ToSet(Tail(todo))
         /\ \A type \in ToSet(Notifications(kind)) \ ToSet(todo) :
              type = "before_message" /\ Head(todo) = "message"
<1>1. kind # None /\ kind \in Kinds /\ todo \in Rests(kind)
  BY DEF RoundOK
<1>2. CASE todo = <<"before_message", "message">>
  <2>1. /\ Tail(todo) = <<"message">> /\ Head(todo) = "before_message" /\ kind = "message"
        /\ ToSet(todo) = {"before_message", "message"}
    BY <1>1, <1>2 DEF ToSet, Rests, Kinds
  <2>2. ToSet(<<"message">>) = {"message"}
    BY DEF ToSet
  <2>3. ToSet(Tail(todo)) = {"message"} /\ ToSet(Notifications(kind)) = {"before_message", "message"}
    <3>1. ToSet(Notifications(kind)) = {"before_message", "message"}
      BY <2>1 DEF ToSet, Notifications
    <3> QED BY <2>1, <2>2, <3>1
  <2> QED BY <1>1, <1>2, <2>1, <2>3 DEF Rests, Types
<1>3. CASE todo = <<"message">>
  <2>1. Tail(todo) = <<>> /\ Head(todo) = "message" /\ ToSet(todo) = {"message"} /\ kind = "message"
    BY <1>1, <1>3 DEF ToSet, Rests, Kinds
  <2>2. ToSet(Tail(todo)) = {} /\ ToSet(Notifications(kind)) = {"before_message", "message"}
    BY <2>1 DEF ToSet, Notifications
  <2> QED BY <1>1, <1>3, <2>1, <2>2 DEF Rests, Types
<1>4. CASE todo = <<"heartbeat">>
  <2>1. Tail(todo) = <<>> /\ Head(todo) = "heartbeat" /\ ToSet(todo) = {"heartbeat"} /\ kind = "heartbeat"
    BY <1>1, <1>4 DEF ToSet, Rests, Kinds
  <2>2. ToSet(Tail(todo)) = {} /\ ToSet(Notifications(kind)) = {"heartbeat"}
    BY <2>1 DEF ToSet, Notifications
  <2> QED BY <1>1, <1>4, <2>1, <2>2 DEF Rests, Types
<1> QED BY <1>1, <1>2, <1>3, <1>4 DEF Rests

LEMMA ProcessFrameHeard == ASSUME HInv, NEW k \in Kinds, ProcessFrame(k) PROVE HInv'
<1>1. /\ todo' = Notifications(k) /\ kind' = k /\ heard' = <<>> /\ kept' = Entries /\ calls' = calls
      /\ calls = None /\ UNCHANGED <<heartbeat, listeners, stayed, touched>>
  BY DEF ProcessFrame, HInv, RoundOK
<1>2. DictOK' /\ WalkOK'
  BY <1>1 DEF HInv, DictOK, WalkOK, heartbeat, Entries
<1>3. kind' \in Kinds /\ kind' # None /\ todo' # <<>> /\ todo' \in Rests(k)
  BY <1>1, ListenersAssumption DEF Kinds, Notifications, Rests
<1>4. RoundOK'
  BY <1>1, <1>3 DEF RoundOK, Entries
<1>5. DOMAIN heard' = {}
  BY <1>1
<1>6. InOrder' /\ Covered'
  BY <1>1, <1>5 DEF InOrder, Covered
<1> QED BY <1>2, <1>4, <1>6 DEF HInv

LEMMA NotifyHeard == ASSUME HInv, Notify PROVE HInv'
<1>1. /\ todo # <<>> /\ calls = None /\ calls' = Snapshot
      /\ UNCHANGED <<todo, kind, heard, heartbeat, listeners, kept, stayed, touched>>
  BY DEF Notify, registry
<1>2. DictOK' /\ WalkOK'
  BY <1>1 DEF HInv, DictOK, WalkOK, heartbeat, Entries
<1>3. /\ calls' \in Seq(Entry) /\ ToSet(calls') = Entries
      /\ \A i, j \in DOMAIN calls' : i < j => ByName(calls'[i], calls'[j])
  BY <1>1, DictEntries, SnapshotSorts DEF HInv
<1>4. calls' # None
  BY <1>3, ListenersAssumption DEF Entry
<1>5. RoundOK'
  BY <1>1, <1>3 DEF HInv, RoundOK, Entries
<1>6. \A i \in DOMAIN heard : heard[i][1] # Head(todo)
  BY <1>1 DEF HInv, InOrder
<1>7. InOrder'
  BY <1>1, <1>6 DEF HInv, InOrder
<1>8. Covered'
  BY <1>1, <1>3 DEF HInv, Covered, RoundOK
<1> QED BY <1>2, <1>5, <1>7, <1>8 DEF HInv

\* One listener hears, the next of the sorted copy.
LEMMA CallHeard == ASSUME HInv, Call PROVE HInv'
<1> DEFINE h == <<Head(todo), Head(calls)>>
<1>1. /\ calls \notin {None, <<>>} /\ calls' = Tail(calls) /\ heard' = Append(heard, h)
      /\ UNCHANGED <<todo, kind, heartbeat, listeners, kept, stayed, touched>>
  BY DEF Call, registry
<1>2. DictOK' /\ WalkOK'
  BY <1>1 DEF HInv, DictOK, WalkOK, heartbeat, Entries
<1>3. todo # <<>> /\ RoundOK /\ heard \in Seq(Types \X Entry)
  BY <1>1 DEF HInv, RoundOK
<1>4. /\ calls \in Seq(Entry) /\ calls # <<>> /\ Head(calls) \in Entry /\ Tail(calls) \in Seq(Entry)
      /\ \A i, j \in DOMAIN calls : i < j => ByName(calls[i], calls[j])
  BY <1>1, <1>3 DEF RoundOK
<1>5. /\ DOMAIN calls = 1..Len(calls) /\ DOMAIN Tail(calls) = 1..(Len(calls) - 1) /\ Len(calls) \in Nat \ {0}
      /\ Head(calls) = calls[1]
      /\ \A i \in 1..(Len(calls) - 1) : i + 1 \in DOMAIN calls /\ Tail(calls)[i] = calls[i + 1]
  BY <1>4
<1>6. \A c \in ToSet(calls) : c = Head(calls) \/ c \in ToSet(Tail(calls))
  <2> SUFFICES ASSUME NEW i \in DOMAIN calls, i # 1 PROVE calls[i] \in ToSet(Tail(calls))
    BY <1>5 DEF ToSet
  <2>1. i - 1 \in DOMAIN Tail(calls) /\ Tail(calls)[i - 1] = calls[i]
    BY <1>5
  <2> QED BY <2>1 DEF ToSet
<1>7. \A c \in ToSet(Tail(calls)) : c \in ToSet(calls) /\ ByName(Head(calls), c)
  BY <1>4, <1>5 DEF ToSet
<1>8. Tail(calls) # None
  BY <1>4, ListenersAssumption DEF Entry
<1>9. h \in Types \X Entry /\ h[1] = Head(todo) /\ h[2] = Head(calls)
  BY <1>3, <1>4, TodoFacts
<1>10. /\ heard' \in Seq(Types \X Entry) /\ DOMAIN heard' = 1..(Len(heard) + 1) /\ Len(heard) \in Nat
       /\ heard'[Len(heard) + 1] = h /\ \A i \in 1..Len(heard) : heard'[i] = heard[i]
       /\ DOMAIN heard = 1..Len(heard)
  <2> HIDE DEF h
  <2> QED BY <1>1, <1>3, <1>9
<1>11. \A i \in DOMAIN heard' : i \in DOMAIN heard \/ i = Len(heard) + 1
  BY <1>10
<1>12. RoundOK'
  <2>1. \A i, j \in DOMAIN Tail(calls) : i < j => ByName(Tail(calls)[i], Tail(calls)[j])
    BY <1>4, <1>5
  <2>2. kind' = kind /\ todo' = todo /\ kept' = kept /\ Entries' = Entries /\ calls' = Tail(calls)
    BY <1>1 DEF Entries
  <2> QED BY <1>3, <1>4, <1>10, <2>1, <2>2 DEF RoundOK
<1>13. InOrder'
  <2>1. Head(calls) \in ToSet(calls)
    BY <1>5 DEF ToSet
  <2>2. ASSUME NEW i \in DOMAIN heard
        PROVE  \/ heard[i][1] = h[1] /\ ByName(heard[i][2], h[2])
               \/ heard[i][1] = "before_message" /\ h[1] = "message"
    <3>1. CASE heard[i][1] = Head(todo)
      BY <1>3, <1>9, <2>1, <3>1 DEF HInv, InOrder
    <3>2. CASE heard[i][1] # Head(todo)
      <4>1. heard[i][1] \in ToSet(Notifications(kind)) /\ heard[i][1] \notin ToSet(Tail(todo))
        BY <1>3 DEF HInv, InOrder
      <4>2. heard[i][1] \notin ToSet(todo)
        BY <1>3, <3>2, <4>1, TodoFacts
      <4> QED BY <1>3, <1>9, <4>1, <4>2, TodoFacts
    <3> QED BY <3>1, <3>2
  <2>3. ASSUME NEW i \in DOMAIN heard', NEW j \in DOMAIN heard', i < j
        PROVE  \/ heard'[i][1] = heard'[j][1] /\ ByName(heard'[i][2], heard'[j][2])
               \/ heard'[i][1] = "before_message" /\ heard'[j][1] = "message"
    <3>1. i \in DOMAIN heard /\ heard'[i] = heard[i]
      BY <1>10, <2>3
    <3>2. CASE j \in DOMAIN heard
      <4>1. heard'[j] = heard[j]
        BY <1>10, <3>2
      <4> QED BY <2>3, <3>1, <3>2, <4>1 DEF HInv, InOrder
    <3>3. CASE j = Len(heard) + 1
      <4>1. heard'[j] = h
        BY <1>10, <3>3
      <4> QED BY <2>2, <3>1, <4>1
    <3> QED BY <1>11, <3>2, <3>3
  <2>4. ASSUME NEW i \in DOMAIN heard'
        PROVE  /\ heard'[i][1] \in ToSet(Notifications(kind)) /\ heard'[i][1] \notin ToSet(Tail(todo))
               /\ heard'[i][1] = Head(todo) => \A c \in ToSet(Tail(calls)) : ByName(heard'[i][2], c)
    <3>1. CASE i \in DOMAIN heard
      <4>1. heard'[i] = heard[i]
        BY <1>10, <3>1
      <4> QED BY <1>3, <1>7, <3>1, <4>1 DEF HInv, InOrder
    <3>2. CASE i = Len(heard) + 1
      <4>1. heard'[i] = h
        BY <1>10, <3>2
      <4>2. Head(todo) \in ToSet(Notifications(kind)) /\ Head(todo) \notin ToSet(Tail(todo))
        <5>1. Head(todo) \in ToSet(todo)
          BY <1>3, TodoFacts DEF ToSet
        <5> QED BY <1>3, <5>1, TodoFacts
      <4> QED BY <1>7, <1>9, <4>1, <4>2
    <3> QED BY <1>11, <3>1, <3>2
  <2> QED BY <1>1, <1>8, <2>3, <2>4 DEF InOrder
<1>14. Covered'
  <2> SUFFICES ASSUME kind # None, NEW e \in kept, NEW type \in ToSet(Notifications(kind))
               PROVE  \/ <<type, e>> \in ToSet(heard')
                      \/ type \in ToSet(todo) /\ (type = Head(todo) => e \in ToSet(Tail(calls)))
    BY <1>1 DEF Covered
  <2>1. \/ <<type, e>> \in ToSet(heard)
        \/ type \in ToSet(todo) /\ (type = Head(todo) => e \in ToSet(calls))
    BY <1>1 DEF HInv, Covered
  <2>2. \A x \in ToSet(heard) : x \in ToSet(heard')
    BY <1>10 DEF ToSet
  <2>3. h \in ToSet(heard')
    BY <1>10 DEF ToSet
  <2> QED BY <1>6, <2>1, <2>2, <2>3
<1> QED BY <1>2, <1>12, <1>13, <1>14 DEF HInv

\* A listener has raised: nothing more is promised of this frame.
LEMMA CallRaisesHeard == ASSUME HInv, CallRaises PROVE HInv'
<1>1. /\ todo' = <<>> /\ calls' = None /\ kind' = None /\ heard' = <<>>
      /\ UNCHANGED <<heartbeat, listeners, kept, stayed, touched>>
  BY DEF CallRaises, registry
<1>2. DictOK' /\ WalkOK'
  BY <1>1 DEF HInv, DictOK, WalkOK, heartbeat, Entries
<1>3. RoundOK'
  BY <1>1 DEF HInv, RoundOK, Entries
<1>4. DOMAIN heard' = {}
  BY <1>1
<1>5. InOrder' /\ Covered'
  BY <1>1, <1>4 DEF InOrder, Covered
<1> QED BY <1>2, <1>3, <1>5 DEF HInv

\* All have heard: the next type of notification begins with nobody.
LEMMA NotifyEndsHeard == ASSUME HInv, NotifyEnds PROVE HInv'
<1>1. /\ calls = <<>> /\ calls' = None /\ todo' = Tail(todo)
      /\ UNCHANGED <<kind, heard, heartbeat, listeners, kept, stayed, touched>>
  BY DEF NotifyEnds, registry
<1>2. DictOK' /\ WalkOK'
  BY <1>1 DEF HInv, DictOK, WalkOK, heartbeat, Entries
<1>3. calls # None
  <2>1. calls \in Seq(Entry)
    BY <1>1
  <2> QED BY <2>1, ListenersAssumption DEF Entry
<1>4. todo # <<>> /\ RoundOK /\ kind # None
  BY <1>3 DEF HInv, RoundOK
<1>5. Tail(todo) \in Rests(kind) /\ \A type \in ToSet(todo) : type = Head(todo) \/ type \in ToSet(Tail(todo))
  BY <1>4, TodoFacts
<1>6. RoundOK'
  BY <1>1, <1>4, <1>5 DEF RoundOK, Entries
<1>7. ToSet(calls) = {}
  BY <1>1 DEF ToSet
<1>8. \A i \in DOMAIN heard : heard[i][1] \notin ToSet(Tail(todo))
  BY <1>4 DEF HInv, InOrder
<1>9. Tail(todo) # <<>> => /\ Head(Tail(todo)) \in ToSet(Tail(todo))
                           /\ \A type \in ToSet(Tail(Tail(todo))) : type \in ToSet(Tail(todo))
  <2> SUFFICES ASSUME Tail(todo) # <<>>
               PROVE  /\ Head(Tail(todo)) \in ToSet(Tail(todo))
                      /\ \A type \in ToSet(Tail(Tail(todo))) : type \in ToSet(Tail(todo))
    OBVIOUS
  <2>1. Tail(todo) \in Seq(Types)
    BY <1>4, TodoFacts
  <2> QED BY SMTT(20), <2>1 DEF ToSet
<1>10. InOrder'
  BY <1>1, <1>8, <1>9 DEF HInv, InOrder
<1>11. Covered'
  BY <1>1, <1>3, <1>5, <1>7 DEF HInv, Covered
<1> QED BY <1>2, <1>6, <1>10, <1>11 DEF HInv

-----------------------------------------------------------------------------
(* The heartbeat thread's walk *)

LEMMA TimeoutHeard == ASSUME HInv, Timeout PROVE HInv'
<1>1. /\ UNCHANGED <<receiver, listeners, kept>> /\ loop' = "walk" /\ index' = 0
      /\ size' = Cardinality(Entries) /\ told' = <<>> /\ stayed' = Entries
  BY DEF Timeout
<1>2. DictOK' /\ RoundOK' /\ InOrder' /\ Covered'
  BY <1>1 DEF HInv, DictOK, RoundOK, InOrder, Covered, receiver, Entries
<1>3. Entries' = Entries
  BY <1>1 DEF Entries
<1>4. \A i \in DOMAIN listeners' : ~(i <= 0) /\ listeners'[i] \notin ToSet(<<>>)
  BY <1>1, DictEntries DEF HInv, ToSet
<1>5. WalkOK'
  BY <1>1, <1>3, <1>4 DEF WalkOK
<1> QED BY <1>2, <1>5 DEF HInv

\* The nearest entry ahead is one that has not been told; those between are none.
LEMMA OnHeartbeatTimeoutHeard == ASSUME HInv, OnHeartbeatTimeout PROVE HInv'
<1>1. /\ UNCHANGED <<receiver, registry, loop, size, heartbeat_thread>> /\ loop = "walk" /\ Ahead # {}
      /\ index' = CHOOSE i \in Ahead : \A j \in Ahead : i <= j
      /\ told' = Append(told, listeners[index'])
  BY DEF OnHeartbeatTimeout
<1>2. DictOK' /\ RoundOK' /\ InOrder' /\ Covered'
  BY <1>1 DEF HInv, DictOK, RoundOK, InOrder, Covered, receiver, registry, Entries
<1>3. DOMAIN listeners = 1..Len(listeners) /\ Len(listeners) \in Nat
  BY DictEntries DEF HInv
<1>4. index' \in Ahead /\ \A j \in Ahead : index' <= j
  <2>1. Ahead \in SUBSET Nat
    BY <1>3 DEF Ahead
  <2>2. \E i \in Ahead : \A j \in Ahead : i <= j
    BY <1>1, <2>1, LeastNumber
  <2> QED BY <1>1, <2>2
<1>5. PICK k : k = index'
  OBVIOUS
<1> DEFINE x == listeners[k]
<1>6. /\ k \in DOMAIN listeners /\ k > index /\ x # None /\ k \in Nat
      /\ \A j \in DOMAIN listeners : j > index /\ listeners[j] # None => k <= j
  BY <1>3, <1>4, <1>5 DEF Ahead
<1>7. x \in Entry /\ told \in Seq(Entry)
  BY <1>3, <1>6 DEF HInv, DictOK, WalkOK
<1>8. told' = Append(told, x) /\ told' \in Seq(Entry)
  BY <1>1, <1>5, <1>7
<1>9. ASSUME NEW i \in DOMAIN listeners, listeners[i] \in stayed
      PROVE  IF i <= k THEN Once(told', listeners[i]) ELSE listeners[i] \notin ToSet(told')
  <2>1. listeners[i] # None
    BY <1>9 DEF HInv, WalkOK, Entries
  <2>2. i # k => listeners[i] # x
    BY <1>6, <2>1 DEF HInv, DictOK
  <2>3. IF i <= index THEN Once(told, listeners[i]) ELSE listeners[i] \notin ToSet(told)
    BY <1>1, <1>9 DEF HInv, WalkOK
  <2>4. i \in Nat /\ index \in Nat
    BY <1>3 DEF HInv, WalkOK
  <2>5. CASE i <= index
    <3>1. i <= k /\ i # k
      BY <1>6, <2>4, <2>5
    <3>2. Once(told', listeners[i])
      BY <1>7, <1>8, <2>2, <2>3, <2>5, <3>1, OnceAppended
    <3> QED BY <3>1, <3>2
  <2>6. CASE i = k
    <3>1. ~(i <= index)
      BY <1>6, <2>4, <2>6
    <3>2. Once(told', listeners[i])
      BY <1>7, <1>8, <2>3, <2>6, <3>1, OnceAppended
    <3> QED BY <1>6, <2>6, <3>2
  <2>7. CASE i > index /\ i # k
    <3>1. ~(i <= k) /\ ~(i <= index)
      BY <1>6, <2>1, <2>4, <2>7
    <3>2. listeners[i] \notin ToSet(told')
      BY <1>7, <1>8, <2>2, <2>3, <2>7, <3>1, OnceAppended
    <3> QED BY <3>1, <3>2
  <2> QED BY <2>4, <2>5, <2>6, <2>7
<1>10. /\ stayed' = stayed /\ loop' = "walk" /\ size' = size /\ touched' = touched
       /\ listeners' = listeners /\ Entries' = Entries /\ index' = k
  BY <1>1, <1>5 DEF registry, Entries
<1>11. /\ stayed \subseteq Entries /\ (~touched => size = Cardinality(Entries))
  BY <1>1 DEF HInv, WalkOK
<1>12. WalkOK'
  BY <1>6, <1>8, <1>9, <1>10, <1>11 DEF WalkOK
<1> QED BY <1>2, <1>12 DEF HInv

\* At the end nobody is ahead: whoever stayed has been told.
LEMMA LoopEndsHeard == ASSUME HInv, LoopEnds PROVE HInv'
<1>1. /\ UNCHANGED <<receiver, registry, index, told>> /\ loop = "walk" /\ Ahead = {}
      /\ loop' = "ended" /\ heartbeat_thread' = FALSE
  BY DEF LoopEnds
<1>2. DictOK' /\ RoundOK' /\ InOrder' /\ Covered'
  BY <1>1 DEF HInv, DictOK, RoundOK, InOrder, Covered, receiver, registry, Entries
<1>3. ASSUME NEW e \in stayed PROVE Once(told, e)
  <2>1. PICK i \in DOMAIN listeners : listeners[i] = e /\ e # None
    BY DEF HInv, WalkOK, Entries, ToSet
  <2>2. i \in Nat /\ index \in Nat
    BY DictEntries DEF HInv, WalkOK
  <2>3. i <= index
    BY <1>1, <2>1, <2>2 DEF Ahead
  <2> QED BY <1>1, <2>1, <2>3 DEF HInv, WalkOK
<1>4. WalkOK'
  BY <1>1, <1>3 DEF HInv, WalkOK, registry, Entries
<1> QED BY <1>2, <1>4 DEF HInv

\* The thread dies only of a change or of what raises; the next one finds all said.
LEMMA LoopRaisesHeard == ASSUME HInv, CallbackRaises \/ LoopRaises \/ OnConnected PROVE HInv'
<1>1. UNCHANGED <<receiver, registry, index, told, size>>
  BY DEF CallbackRaises, LoopRaises, OnConnected
<1>2. DictOK' /\ RoundOK' /\ InOrder' /\ Covered' /\ Entries' = Entries
  BY <1>1 DEF HInv, DictOK, RoundOK, InOrder, Covered, receiver, registry, Entries
<1>3. \/ loop' = "loop"
      \/ loop' = "dead" /\ raised'
      \/ loop' = "dead" /\ loop = "walk" /\ Cardinality(Entries) # size
  BY DEF CallbackRaises, LoopRaises, OnConnected
<1>4. WalkOK'
  BY <1>1, <1>2, <1>3 DEF HInv, WalkOK, registry
<1> QED BY <1>2, <1>4 DEF HInv

\* Who waits on the TestListener has no part in either.
LEMMA WaitHeard ==
  ASSUME HInv, \/ UNCHANGED vars
               \/ \E w \in Waiters : WakeUp(w) \/ \E k \in Kinds : Wait(w, k)
  PROVE  HInv'
<1>1. UNCHANGED <<receiver, heartbeat, registry>>
  BY DEF Wait, WakeUp, vars
<1> QED BY <1>1 DEF HInv, DictOK, RoundOK, InOrder, Covered, WalkOK, receiver, heartbeat, registry, Entries

LEMMA InitHInv == Init => HInv
<1> SUFFICES ASSUME Init PROVE HInv
  OBVIOUS
<1>1. listeners \in Seq(Entry) /\ DictOK
  <2>1. CASE listeners = <<>>
    BY <2>1 DEF DictOK
  <2>2. ASSUME NEW n \in Names, listeners = <<<<n, Test>>>> PROVE listeners \in Seq(Entry) /\ DictOK
    BY <2>2, ListenersAssumption DEF DictOK, Entry
  <2>3. ASSUME NEW n \in Names \X Names, n[1] # n[2], NEW l \in Listeners,
               listeners = <<<<n[1], Test>>, <<n[2], l>>>>
        PROVE  listeners \in Seq(Entry) /\ DictOK
    <3>1. DOMAIN listeners = 1..2 /\ listeners[1] = <<n[1], Test>> /\ listeners[2] = <<n[2], l>>
      BY <2>3
    <3>2. n[1] \in Names /\ n[2] \in Names
      OBVIOUS
    <3>3. listeners[1] \in Entry /\ listeners[2] \in Entry /\ listeners[1][1] # listeners[2][1]
      BY <2>3, <3>1, <3>2, ListenersAssumption DEF Entry
    <3>4. listeners \in Seq(Entry)
      BY <2>3, <3>1, <3>3
    <3> QED BY <3>1, <3>3, <3>4 DEF DictOK
  <2> QED BY <2>1, <2>2, <2>3 DEF Init
<1>2. /\ todo = <<>> /\ calls = None /\ kind = None /\ heard = <<>> /\ kept = {}
      /\ loop = "loop" /\ index = 0 /\ told = <<>> /\ stayed = {}
  BY DEF Init
<1>3. RoundOK /\ InOrder /\ Covered /\ WalkOK
  BY <1>2 DEF RoundOK, InOrder, Covered, WalkOK
<1> QED BY <1>1, <1>3 DEF HInv

LEMMA StepHInv == HInv /\ [Next]_vars => HInv'
  BY ChangeHeard, ProcessFrameHeard, NotifyHeard, CallHeard, CallRaisesHeard, NotifyEndsHeard, TimeoutHeard,
     OnHeartbeatTimeoutHeard, LoopEndsHeard, LoopRaisesHeard, WaitHeard DEF Next

\* Whoever is registered from before a frame is processed until all have been told
\* hears of it once for each of its notifications, in the order of the names, unless
\* a listener raises: for any listeners, names and changes, whenever they are made.
THEOREM AllHearOnce == Spec => []HeardOnce
<1>1. HInv => HeardOnce
  <2> SUFFICES ASSUME HInv, kind # None, todo = <<>> PROVE HeardOnce
    BY DEF HeardOnce
  <2>1. ASSUME NEW e \in kept, NEW type \in ToSet(Notifications(kind)) PROVE Once(heard, <<type, e>>)
    <3>1. ToSet(todo) = {}
      BY DEF ToSet
    <3>2. PICK i \in DOMAIN heard : heard[i] = <<type, e>>
      BY <3>1 DEF HInv, Covered, ToSet
    <3>3. ASSUME NEW a \in DOMAIN heard, NEW b \in DOMAIN heard, a < b PROVE heard[a] # heard[b]
      <4>1. heard[a] \in Types \X Entry /\ heard[a][2][1] \in Nat
        <5>1. heard[a] \in Types \X Entry
          BY DEF HInv, RoundOK
        <5>2. heard[a][2] \in Names \X Listeners
          BY <5>1 DEF Entry
        <5>3. heard[a][2][1] \in Nat
          BY <5>2, ListenersAssumption
        <5> QED BY <5>1, <5>3
      <4>2. \/ heard[a][1] = heard[b][1] /\ heard[a][2][1] < heard[b][2][1]
            \/ heard[a][1] = "before_message" /\ heard[b][1] = "message"
        BY <3>3 DEF HInv, InOrder, ByName
      <4> QED BY <4>1, <4>2
    <3>4. DOMAIN heard \subseteq Int
      BY DEF HInv, RoundOK
    <3>5. \A j \in DOMAIN heard : heard[j] = <<type, e>> <=> j = i
      BY <3>2, <3>3, <3>4
    <3> QED BY <3>5 DEF Once
  <2>2. \A i, j \in DOMAIN heard : i < j =>
       \/ heard[i][1] = heard[j][1] /\ ByName(heard[i][2], heard[j][2])
       \/ heard[i][1] = "before_message" /\ heard[j][1] = "message"
    BY DEF HInv, InOrder
  <2> QED BY <2>1, <2>2 DEF HeardOnce
<1> QED BY InitHInv, StepHInv, <1>1, PTL DEF Spec

\* A heartbeat timeout is told once to each listener that was there all the time,
\* and leaves room for the thread of the next session, unless a listener came or
\* went at that moment, raised, or has no such method: for any listeners and changes.
THEOREM TimeoutsAreTold == Spec => []TimeoutTold
<1>1. HInv => TimeoutTold
  BY DEF HInv, WalkOK, TimeoutTold
<1> QED BY InitHInv, StepHInv, <1>1, PTL DEF Spec
=============================================================================
