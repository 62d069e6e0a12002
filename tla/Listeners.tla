------------------------------ MODULE Listeners ------------------------------
(***************************************************************************)
(* The registry of listeners of a transport (transport.py) while it is     *)
(* used: application threads set and remove listeners, the receiver tells  *)
(* them of frames, and the heartbeat thread tells them of a timeout.  One  *)
(* of them may be a TestListener (listener.py), on which threads wait.     *)
(*                                                                         *)
(* notify() walks a sorted copy of the registry; the heartbeat thread      *)
(* walks the dict itself, without the lock.  What a callback does to the   *)
(* registry is one more thread's change.                                   *)
(***************************************************************************)
EXTENDS Integers, Sequences, FiniteSets, SequencesExt

CONSTANTS
  Names,     \* names of listeners, in their order
  Listeners, \* listener objects
  Test,      \* the TestListener among them
  Waiters,   \* threads that call wait_for_message() or wait_for_heartbeat()
  None,
  MaxFrames, MaxChanges, MaxTimeouts  \* bounds

ASSUME ListenersAssumption ==
  /\ Names \subseteq Nat /\ Test \in Listeners
  /\ None \notin {"message", "heartbeat"} \cup (Names \X Listeners) \cup Seq(Names \X Listeners)
  /\ MaxFrames \in Nat /\ MaxChanges \in Nat
  /\ MaxChanges + 2 <= 5  \* a dict of up to five entries is not compacted
  /\ MaxTimeouts \in Nat

Kinds == {"message", "heartbeat"}

VARIABLES
  listeners, \* the dict: entries <<name, listener>> as inserted, None where one was deleted
  todo, calls, \* the receiver: notifications to make; the rest of its copy of the dict, or None
  received,  \* message_received, heartbeat_received
  counts,    \* StatsListener: messages, heartbeat_count
  waiter,    \* what each thread waits for, and whether it has been woken
  heartbeat_thread, \* whether the attribute is set
  loop, index, size, \* the heartbeat thread: where it is in the dict, the length it began with
  frames, changes, timeouts, \* counted for the bounds
  kind, heard, kept, \* history: the present frame, who heard of it, who was there all along
  told, stayed,      \* history: who was told of the timeout, who was there all along
  touched, raised,   \* history: whether anybody came or went meanwhile, or a callback raised
  returns, taken     \* history: waits that have returned, the count when the last one did

receiver  == <<todo, calls, frames, kind, heard>>
testing   == <<received, waiter, returns, taken>>
heartbeat == <<heartbeat_thread, loop, index, size, timeouts, told, raised>>
registry  == <<listeners, changes, kept, stayed, touched>>
vars == <<receiver, counts, testing, heartbeat, registry>>

Entries == ToSet(listeners) \ {None}
ByName(e1, e2) == e1[1] < e2[1]

Init ==
  /\ listeners \in {<<>>} \cup {<<<<n, Test>>>> : n \in Names}
       \cup {<<<<n[1], Test>>, <<n[2], l>>>> : n \in {m \in Names \X Names : m[1] # m[2]},
                                             l \in Listeners \ {Test}}
  /\ todo = <<>> /\ calls = None /\ frames = 0 /\ kind = None /\ heard = <<>> /\ kept = {}
  /\ received = [k \in Kinds |-> FALSE] /\ counts = [k \in Kinds |-> 0]
  /\ waiter = [w \in Waiters |-> [at |-> "away", for |-> None]]
  /\ returns = [k \in Kinds |-> 0] /\ taken = [k \in Kinds |-> 0]
  /\ heartbeat_thread = TRUE /\ loop = "loop" /\ index = 0 /\ size = 0
  /\ changes = 0 /\ timeouts = 0 /\ told = <<>> /\ stayed = {}
  /\ touched = FALSE /\ raised = FALSE

-----------------------------------------------------------------------------
(* The registry *)

\* the dict has become new, under its lock
Change(new) ==
  /\ changes < MaxChanges /\ changes' = changes + 1
  /\ listeners' = new
  /\ kept' = kept \cap ToSet(new) /\ stayed' = stayed \cap ToSet(new)
  /\ touched' = (touched \/ ToSet(new) # ToSet(listeners))
  /\ UNCHANGED <<receiver, counts, testing, heartbeat>>

\* an application gives a listener one name
Free(name, l) == \A e \in Entries : e[2] = l => e[1] = name

\* Mutant of SetListener: an entry that is there is deleted first
SetListenerAnew(name, l) ==
  /\ Free(name, l)
  /\ Change(Append([i \in DOMAIN listeners |->
                      IF listeners[i] # None /\ listeners[i][1] = name THEN None ELSE listeners[i]],
                   <<name, l>>))

\* a name that is there keeps its place
SetListener(name, l) ==
  /\ Free(name, l)
  /\ IF \E e \in Entries : e[1] = name
     THEN Change([i \in DOMAIN listeners |->
                    IF listeners[i] # None /\ listeners[i][1] = name THEN <<name, l>>
                    ELSE listeners[i]])
     ELSE Change(Append(listeners, <<name, l>>))

\* KeyError, and no change, for a name that is not there
RemoveListener(name) ==
  /\ \E e \in Entries : e[1] = name
  /\ Change([i \in DOMAIN listeners |->
               IF listeners[i] # None /\ listeners[i][1] = name THEN None ELSE listeners[i]])

-----------------------------------------------------------------------------
(* The receiver *)

Notifications(k) == IF k = "message" THEN <<"before_message", "message">> ELSE <<k>>

ProcessFrame(k) ==
  /\ todo = <<>> /\ frames < MaxFrames /\ frames' = frames + 1
  /\ todo' = Notifications(k) /\ kind' = k /\ heard' = <<>> /\ kept' = Entries
  /\ UNCHANGED <<calls, counts, testing, heartbeat, listeners, changes, stayed, touched>>

\* Mutant of Snapshot: the copy is not sorted
SnapshotUnsorted == SelectSeq(listeners, LAMBDA e : e # None)

Snapshot ==
  CHOOSE s \in [1..Cardinality(Entries) -> Entries] : ToSet(s) = Entries /\ IsSorted(s, ByName)

\* notify(): a copy of the registry for each notification
Notify ==
  /\ todo # <<>> /\ calls = None /\ calls' = Snapshot
  /\ UNCHANGED <<todo, frames, kind, heard, counts, testing, heartbeat, registry>>

\* notify() of a Condition: one of those who wait for it, if there is one
Wake(k) ==
  LET asleep == {w \in Waiters : waiter[w] = [at |-> "waiting", for |-> k]}
  IN IF asleep = {} THEN UNCHANGED waiter
     ELSE \E w \in asleep : waiter' = [waiter EXCEPT ![w].at = "woken"]

\* on_message, on_heartbeat of the StatsListener
Count(k) == counts' = [counts EXCEPT ![k] = @ + 1]

\* on_message, on_heartbeat of the TestListener
OnFrame(k) ==
  /\ Count(k)
  /\ received' = [received EXCEPT ![k] = TRUE]
  /\ Wake(k) /\ UNCHANGED <<returns, taken>>

Call ==
  /\ calls \notin {None, <<>>}
  /\ calls' = Tail(calls)
  /\ heard' = Append(heard, <<Head(todo), Head(calls)>>)
  /\ IF Head(calls)[2] = Test /\ Head(todo) = kind THEN OnFrame(kind)
     ELSE UNCHANGED <<counts, testing>>
  /\ UNCHANGED <<todo, frames, kind, heartbeat, registry>>

\* a callback raises: process_frame() ends, and the receiver loop; the next frame
\* is the next connection's
CallRaises ==
  /\ calls \notin {None, <<>>} /\ Head(calls)[2] # Test
  /\ todo' = <<>> /\ calls' = None /\ kind' = None /\ heard' = <<>>
  /\ UNCHANGED <<frames, counts, testing, heartbeat, registry>>

NotifyEnds ==
  /\ calls = <<>> /\ calls' = None /\ todo' = Tail(todo)
  /\ UNCHANGED <<frames, kind, heard, counts, testing, heartbeat, registry>>

-----------------------------------------------------------------------------
(* Threads that wait on the TestListener *)

Return(w, k) ==
  /\ received' = [received EXCEPT ![k] = FALSE]
  /\ waiter' = [waiter EXCEPT ![w] = [at |-> "away", for |-> None]]
  /\ returns' = [returns EXCEPT ![k] = @ + 1] /\ taken' = [taken EXCEPT ![k] = counts[k]]
WaitOn(w, k) ==
  /\ waiter' = [waiter EXCEPT ![w] = [at |-> "waiting", for |-> k]]
  /\ UNCHANGED <<received, returns, taken>>

\* Mutant of Wait: waits before it looks at the flag
WaitFirst(w, k) ==
  /\ waiter[w].at = "away" /\ WaitOn(w, k)
  /\ UNCHANGED <<receiver, counts, heartbeat, registry>>

\* wait_for_message(), wait_for_heartbeat()
Wait(w, k) ==
  /\ waiter[w].at = "away"
  /\ IF received[k] THEN Return(w, k) ELSE WaitOn(w, k)
  /\ UNCHANGED <<receiver, counts, heartbeat, registry>>
WakeUp(w) ==
  /\ waiter[w].at = "woken"
  /\ IF received[waiter[w].for] THEN Return(w, waiter[w].for) ELSE WaitOn(w, waiter[w].for)
  /\ UNCHANGED <<receiver, counts, heartbeat, registry>>

-----------------------------------------------------------------------------
(* The heartbeat thread *)

\* on_connected of the next session: no thread when one is still known
OnConnected ==
  /\ loop = "ended" /\ ~heartbeat_thread
  /\ heartbeat_thread' = TRUE /\ loop' = "loop"
  /\ UNCHANGED <<receiver, counts, testing, index, size, timeouts, told, raised, registry>>

Timeout ==
  /\ loop = "loop" /\ timeouts < MaxTimeouts /\ timeouts' = timeouts + 1
  /\ loop' = "walk" /\ index' = 0 /\ size' = Cardinality(Entries)
  /\ told' = <<>> /\ stayed' = Entries /\ touched' = FALSE /\ UNCHANGED raised
  /\ UNCHANGED <<receiver, counts, testing, heartbeat_thread, listeners, changes, kept>>

Ahead == {i \in DOMAIN listeners : i > index /\ listeners[i] # None}

\* the next listener ...
OnHeartbeatTimeout ==
  /\ loop = "walk" /\ Cardinality(Entries) = size /\ Ahead # {}
  /\ index' = CHOOSE i \in Ahead : \A j \in Ahead : i <= j
  /\ told' = Append(told, listeners[index'])
  /\ UNCHANGED <<receiver, counts, testing, heartbeat_thread, loop, size, timeouts, raised, registry>>
\* ... which raises, or is no listener that has the method: the thread dies ...
CallbackRaises ==
  /\ loop = "walk" /\ Cardinality(Entries) = size /\ Ahead # {}
  /\ loop' = "dead" /\ raised' = TRUE
  /\ UNCHANGED <<receiver, counts, testing, heartbeat_thread, index, size, timeouts, told, registry>>
\* ... or the end of the dict, of the loop and of the thread ...
LoopEnds ==
  /\ loop = "walk" /\ Cardinality(Entries) = size /\ Ahead = {}
  /\ loop' = "ended" /\ heartbeat_thread' = FALSE
  /\ UNCHANGED <<receiver, counts, testing, index, size, timeouts, told, raised, registry>>
\* ... or RuntimeError: the length has changed, and the thread dies as well
LoopRaises ==
  /\ loop = "walk" /\ Cardinality(Entries) # size
  /\ loop' = "dead"
  /\ UNCHANGED <<receiver, counts, testing, heartbeat_thread, index, size, timeouts, told, raised,
                 registry>>

Next ==
  \/ \E name \in Names : RemoveListener(name) \/ \E l \in Listeners : SetListener(name, l)
  \/ (\E k \in Kinds : ProcessFrame(k)) \/ Notify \/ Call \/ CallRaises \/ NotifyEnds
  \/ \E w \in Waiters : WakeUp(w) \/ \E k \in Kinds : Wait(w, k)
  \/ OnConnected \/ Timeout \/ OnHeartbeatTimeout \/ CallbackRaises \/ LoopEnds \/ LoopRaises

Spec == Init /\ [][Next]_vars

-----------------------------------------------------------------------------
(* Properties *)

\* x is in s, at one place
Once(s, x) == \E i \in DOMAIN s : \A j \in DOMAIN s : s[j] = x <=> j = i

\* Whoever is registered from before a frame is processed until all have been
\* told hears of it once for each of its notifications, in the order of the
\* names, whatever is set or removed meanwhile (notify's copy, transport.py:224);
\* unless a listener raises, which ends the handling of the frame.
HeardOnce ==
  LET Type(i) == heard[i][1]
      Who(i)  == heard[i][2]
  IN kind # None /\ todo = <<>> =>
       /\ \A e \in kept : \A type \in ToSet(Notifications(kind)) : Once(heard, <<type, e>>)
       /\ \A i, j \in DOMAIN heard : i < j /\ {Who(i), Who(j)} \subseteq kept =>
            \/ Type(i) = Type(j) /\ ByName(Who(i), Who(j))
            \/ Type(i) = "before_message" /\ Type(j) = "message"

\* A frame that has come since the last wait returned is not slept through: one
\* of those who wait for its kind is awake.  Each wait that returns has at least
\* one frame of its own, which no other wait returns with.  (The flag does not
\* count: of two frames before one wake-up, the first wait takes both.)
WaitersServed ==
  \A k \in Kinds :
    /\ taken[k] < counts[k] /\ (\E w \in Waiters : waiter[w] = [at |-> "waiting", for |-> k])
         => \E w \in Waiters : waiter[w] = [at |-> "woken", for |-> k]
    /\ returns[k] <= taken[k] /\ taken[k] <= counts[k]

\* A heartbeat timeout is told once to each listener that was there all the time,
\* and leaves room for the thread of the next session, unless a listener came or
\* went at that moment, or one of them raised or has no on_heartbeat_timeout().
TimeoutTold ==
  /\ loop = "dead" => touched \/ raised
  /\ loop = "ended" =>
       /\ ~heartbeat_thread
       /\ \A e \in stayed : Once(told, e)
=============================================================================
