---------------------------- MODULE AttemptsProofs ----------------------------
(***************************************************************************)
(* attempt_connection() tries local hosts first, does not give up before   *)
(* it has tried every host that a round reaches, and pauses as documented: *)
(* theorems about every list of hosts, every limit, every back-off, and    *)
(* the moment at which a thread of an earlier connection interferes.       *)
(*                                                                         *)
(* Three arguments.  A filter of a list keeps what it selects, so that     *)
(* local hosts stand before remote ones, also after their loopback         *)
(* addresses are added.  What has been tried in a round is what stands     *)
(* before the current host.  The exponent of the back-off is the number of *)
(* pauses, until a pause with jitter is as long as the greatest, and from  *)
(* then on it may stay behind.                                             *)
(***************************************************************************)
EXTENDS ConnectionAttempts, SequenceTheorems, WellFoundedInduction, TLAPS

-----------------------------------------------------------------------------
(* Induction, and the recursive functions *)

\* Numbers of which there is one have a least one.
LEMMA LeastNumber ==
  ASSUME NEW T \in SUBSET Nat, T # {}
  PROVE  \E x \in T : \A y \in T : x <= y
<1>1. \E x \in T : \A y \in T : ~(<<y, x>> \in OpToRel(<, Nat))
  BY NatLessThanWellFounded, WFMin
<1>2. \A x, y \in T : ~(<<y, x>> \in OpToRel(<, Nat)) => x <= y
  BY SMT DEF OpToRel
<1> QED BY <1>1, <1>2

\* What holds of 0 and is handed on from n to n + 1 holds of every number.
LEMMA OneByOne ==
  ASSUME NEW T, 0 \in T, \A n \in Nat : n \in T => n + 1 \in T
  PROVE  \A n \in Nat : n \in T
<1> SUFFICES ASSUME Nat \ T # {} PROVE FALSE
  OBVIOUS
<1>1. PICK x \in Nat \ T : \A y \in Nat \ T : x <= y
  BY LeastNumber
<1>2. x # 0 /\ x - 1 \in Nat
  BY <1>1
<1> QED BY <1>1, <1>2

\* the powers up to the n-th
Powers(n, g) == DOMAIN g = 0..n /\ g[0] = 1 /\ \A i \in 1..n : g[i] = Factor * g[i - 1]

\* They exist ...
LEMMA PowersExist == \A n \in Nat : \E g : Powers(n, g)
<1> DEFINE T == {n \in Nat : \E g : Powers(n, g)}
<1>1. 0 \in T
  <2>1. Powers(0, [i \in 0..0 |-> 1])
    BY DEF Powers
  <2> QED BY <2>1
<1>2. ASSUME NEW n \in Nat, n \in T PROVE n + 1 \in T
  <2>1. PICK g : Powers(n, g)
    BY <1>2
  <2> DEFINE h == [i \in 0..(n + 1) |-> IF i = n + 1 THEN Factor * g[n] ELSE g[i]]
  <2>2. ASSUME NEW i \in 1..(n + 1) PROVE h[i] = Factor * h[i - 1]
    BY <2>1 DEF Powers
  <2>3. h[0] = 1
    BY <2>1 DEF Powers
  <2>4. Powers(n + 1, h)
    BY <2>2, <2>3 DEF Powers
  <2> QED BY <2>4
<1>3. \A n \in Nat : n \in T
  <2> HIDE DEF T
  <2> QED BY <1>1, <1>2, OneByOne
<1> QED BY <1>3

\* ... and agree.
LEMMA PowersAgree ==
  ASSUME NEW m \in Nat, NEW n \in Nat, NEW g, NEW h, Powers(m, g), Powers(n, h)
  PROVE  \A i \in Nat : i <= m /\ i <= n => g[i] = h[i]
<1> DEFINE T == {i \in Nat : i <= m /\ i <= n => g[i] = h[i]}
<1>1. 0 \in T
  BY DEF Powers
<1>2. ASSUME NEW i \in Nat, i \in T PROVE i + 1 \in T
  <2> SUFFICES ASSUME i + 1 <= m, i + 1 <= n PROVE g[i + 1] = h[i + 1]
    OBVIOUS
  <2>1. i + 1 \in 1..m /\ i + 1 \in 1..n /\ (i + 1) - 1 = i /\ g[i] = h[i]
    BY <1>2
  <2> QED BY <2>1 DEF Powers
<1>3. \A i \in Nat : i \in T
  <2> HIDE DEF T
  <2> QED BY <1>1, <1>2, OneByOne
<1> QED BY <1>3

\* math.pow(Factor, n) is what it is defined to be.
LEMMA PowerIs == Power[0] = 1 /\ \A n \in Nat : Power[n + 1] = Factor * Power[n]
<1> DEFINE g(n) == CHOOSE h : Powers(n, h)
           f == [n \in Nat |-> g(n)[n]]
<1>1. \A n \in Nat : Powers(n, g(n))
  BY PowersExist
<1> HIDE DEF g
<1>2. ASSUME NEW n \in Nat, n # 0 PROVE f[n] = Factor * f[n - 1]
  <2>1. n - 1 \in Nat /\ n \in 1..n
    BY <1>2
  <2>2. g(n)[n] = Factor * g(n)[n - 1]
    BY <1>1, <2>1 DEF Powers
  <2>3. g(n)[n - 1] = g(n - 1)[n - 1]
    BY <1>1, <2>1, PowersAgree
  <2> QED BY <2>1, <2>2, <2>3
<1>3. f[0] = 1
  BY <1>1 DEF Powers
<1>4. f = [n \in Nat |-> f[n]]
  OBVIOUS
<1> HIDE DEF f
<1>5. f = [n \in Nat |-> IF n = 0 THEN 1 ELSE Factor * f[n - 1]]
  BY <1>2, <1>3, <1>4
<1>6. Power = [n \in Nat |-> IF n = 0 THEN 1 ELSE Factor * Power[n - 1]]
  BY <1>5 DEF Power
<1>7. ASSUME NEW n \in Nat PROVE Power[n + 1] = Factor * Power[n]
  <2>1. n + 1 \in Nat /\ n + 1 # 0 /\ (n + 1) - 1 = n
    OBVIOUS
  <2> QED BY <1>6, <2>1
<1> QED BY <1>6, <1>7

\* It is a number, and does not become smaller.
LEMMA PowerGrows ==
  /\ \A n \in Nat : Power[n] \in Nat \ {0}
  /\ \A m, n \in Nat : m <= n => Power[m] <= Power[n]
<1> DEFINE T == {n \in Nat : Power[n] \in Nat \ {0}}
<1>1. Factor \in Nat \ {0}
  BY SleepAssumption
<1>2. \A n \in Nat : n \in T
  <2>1. 0 \in T
    BY PowerIs
  <2>2. ASSUME NEW n \in Nat, n \in T PROVE n + 1 \in T
    <3>1. \A x, y \in Nat \ {0} : x * y \in Nat \ {0}
      OBVIOUS
    <3> QED BY <1>1, <2>2, <3>1, PowerIs
  <2> HIDE DEF T
  <2> QED BY <2>1, <2>2, OneByOne
<1>3. ASSUME NEW m \in Nat PROVE \A k \in Nat : Power[m] <= Power[m + k]
  <2> DEFINE U == {k \in Nat : Power[m] <= Power[m + k]}
  <2>1. 0 \in U
    BY <1>2
  <2>2. ASSUME NEW k \in Nat, k \in U PROVE k + 1 \in U
    <3>1. \A x, y \in Nat \ {0} : y <= x * y
      OBVIOUS
    <3>2. m + k \in Nat /\ m + (k + 1) = (m + k) + 1 /\ Power[m + k] \in Nat \ {0}
      BY <1>2
    <3>3. Power[m + (k + 1)] = Factor * Power[m + k]
      BY <3>2, PowerIs
    <3>4. PICK p, q : p = Power[m + k] /\ q = Factor * p
      OBVIOUS
    <3>5. p \in Nat \ {0} /\ p <= q /\ q \in Nat
      BY <1>1, <3>1, <3>2, <3>4
    <3>6. Power[m] <= p /\ Power[m] \in Nat
      BY <1>2, <2>2, <3>4
    <3>7. Power[m] <= q
      BY <3>5, <3>6
    <3> QED BY <3>3, <3>4, <3>7
  <2> HIDE DEF U
  <2>3. \A k \in Nat : k \in U
    BY <2>1, <2>2, OneByOne
  <2> QED BY <2>3 DEF U
<1>4. ASSUME NEW m \in Nat, NEW n \in Nat, m <= n PROVE Power[m] <= Power[n]
  <2>1. n - m \in Nat /\ m + (n - m) = n
    BY <1>4
  <2> QED BY <1>3, <2>1
<1> QED BY <1>2, <1>4

\* A filter is a list of those hosts that are in the set, and has them all.
LEMMA OnlyThose ==
  ASSUME NEW H, NEW hosts \in Seq(H), NEW S
  PROVE  Only(hosts, S) \in Seq(H) /\ ToSet(Only(hosts, S)) = ToSet(hosts) \cap S
<1>1. Len(hosts) \in Nat /\ \A i \in 1..Len(hosts) : hosts[i] \in H
  OBVIOUS
<1> DEFINE F(f) == [n \in 0..Len(hosts) |->
                      IF n = 0 THEN <<>>
                      ELSE IF hosts[n] \in S THEN Append(f[n - 1], hosts[n]) ELSE f[n - 1]]
           Upto(m, f) == f = [n \in 0..m |->
                                IF n = 0 THEN <<>>
                                ELSE IF hosts[n] \in S THEN Append(f[n - 1], hosts[n])
                                     ELSE f[n - 1]]
           T == {m \in Nat : \E f : Upto(m, f)}
<1>2. \A m \in Nat : m \in T
  <2>1. 0 \in T
    <3>1. Upto(0, [n \in 0..0 |-> <<>>])
      OBVIOUS
    <3> QED BY <3>1
  <2>2. ASSUME NEW m \in Nat, m \in T PROVE m + 1 \in T
    <3>1. PICK f : Upto(m, f)
      BY <2>2
    <3> DEFINE g == [n \in 0..(m + 1) |->
                       IF n = m + 1
                       THEN IF hosts[n] \in S THEN Append(f[n - 1], hosts[n]) ELSE f[n - 1]
                       ELSE f[n]]
    <3>2. ASSUME NEW n \in 0..(m + 1)
          PROVE  g[n] = IF n = 0 THEN <<>>
                        ELSE IF hosts[n] \in S THEN Append(g[n - 1], hosts[n]) ELSE g[n - 1]
      <4>1. CASE n = m + 1
        <5>1. n # 0 /\ n - 1 \in 0..(m + 1) /\ n - 1 # m + 1
          BY <4>1
        <5> QED BY <4>1, <5>1
      <4>2. CASE n # m + 1
        <5>1. n \in 0..m /\ (n # 0 => n - 1 \in 0..(m + 1) /\ n - 1 # m + 1)
          BY <4>2
        <5>2. g[n] = f[n] /\ (n # 0 => g[n - 1] = f[n - 1])
          BY <4>2, <5>1
        <5> HIDE DEF g
        <5> QED BY <3>1, <5>1, <5>2
      <4> QED BY <4>1, <4>2
    <3>3. g = [n \in 0..(m + 1) |-> g[n]]
      OBVIOUS
    <3> HIDE DEF g
    <3>4. Upto(m + 1, g)
      BY <3>2, <3>3
    <3> QED BY SMTT(20), <3>4
  <2> HIDE DEF T
  <2> QED BY <2>1, <2>2, OneByOne
<1> DEFINE f == CHOOSE f : f = F(f)
<1>3. f = F(f) /\ Only(hosts, S) = f[Len(hosts)]
  <2>1. \E g : g = F(g)
    BY <1>1, <1>2
  <2>2. Only(hosts, S) = f[Len(hosts)]
    BY DEF Only
  <2> QED BY <2>1, <2>2
<1> HIDE DEF f, Upto
<1> DEFINE U == {n \in Nat : n <= Len(hosts) =>
                   f[n] \in Seq(H) /\ ToSet(f[n]) = {hosts[i] : i \in 1..n} \cap S}
<1>4. 0 \in U
  <2>1. f[0] = <<>>
    BY <1>1, <1>3
  <2>2. <<>> \in Seq(H) /\ ToSet(<<>>) = {} /\ 1..0 = {}
    BY DEF ToSet
  <2> QED BY <2>1, <2>2
<1>5. ASSUME NEW n \in Nat, n \in U PROVE n + 1 \in U
  <2> SUFFICES ASSUME n + 1 <= Len(hosts)
               PROVE  /\ f[n + 1] \in Seq(H)
                      /\ ToSet(f[n + 1]) = {hosts[i] : i \in 1..(n + 1)} \cap S
    OBVIOUS
  <2>1. /\ f[n] \in Seq(H) /\ ToSet(f[n]) = {hosts[i] : i \in 1..n} \cap S
        /\ n + 1 \in 0..Len(hosts) /\ n + 1 # 0 /\ (n + 1) - 1 = n /\ hosts[n + 1] \in H
    BY <1>1, <1>5
  <2>2. f[n + 1] = IF hosts[n + 1] \in S THEN Append(f[n], hosts[n + 1]) ELSE f[n]
    BY <1>3, <2>1
  <2>3. {hosts[i] : i \in 1..(n + 1)} = {hosts[i] : i \in 1..n} \cup {hosts[n + 1]}
    <3>1. 1..(n + 1) = (1..n) \cup {n + 1}
      OBVIOUS
    <3> QED BY <3>1
  <2>4. PICK s, h : s = f[n] /\ h = hosts[n + 1]
    OBVIOUS
  <2>5. Append(s, h) \in Seq(H) /\ ToSet(Append(s, h)) = ToSet(s) \cup {h}
    <3>1. s \in Seq(H) /\ h \in H
      BY <2>1, <2>4
    <3>2. /\ Append(s, h) \in Seq(H) /\ Len(s) \in Nat /\ DOMAIN s = 1..Len(s)
          /\ DOMAIN Append(s, h) = 1..(Len(s) + 1)
          /\ \A i \in 1..Len(s) : Append(s, h)[i] = s[i]
          /\ Append(s, h)[Len(s) + 1] = h
      BY <3>1
    <3>3. 1..(Len(s) + 1) = (1..Len(s)) \cup {Len(s) + 1}
      BY <3>2
    <3> QED BY <3>2, <3>3 DEF ToSet
  <2> QED BY <2>1, <2>2, <2>3, <2>4, <2>5
<1>6. \A n \in Nat : n \in U
  <2> HIDE DEF U
  <2> QED BY <1>4, <1>5, OneByOne
<1>7. ToSet(hosts) = {hosts[i] : i \in 1..Len(hosts)}
  BY DEF ToSet
<1>8. Len(hosts) \in U
  BY <1>1, <1>6
<1> QED BY <1>1, <1>3, <1>7, <1>8

-----------------------------------------------------------------------------
(* The list of hosts *)

\* A joined list has the one and then the other.
LEMMA Joined ==
  ASSUME NEW H, NEW s \in Seq(H), NEW t \in Seq(H)
  PROVE  /\ s \o t \in Seq(H) /\ Len(s) \in Nat /\ Len(t) \in Nat
         /\ Len(s \o t) = Len(s) + Len(t)
         /\ \A i \in 1..Len(s) : (s \o t)[i] = s[i]
         /\ \A i \in 1..Len(t) : (s \o t)[Len(s) + i] = t[i]
         /\ \A i \in 1..Len(s \o t) : i > Len(s) => i - Len(s) \in 1..Len(t)
                                                   /\ (s \o t)[i] = t[i - Len(s)]
OBVIOUS

\* The local hosts of a list, by their loopback address, if no host of the list
\* stands for them.
LEMMA LoopbacksAre ==
  ASSUME NEW hosts \in Seq(Address)
  PROVE  /\ Loopbacks(hosts) \in Seq(Address)
         /\ \A i \in 1..Len(Loopbacks(hosts)) : IsLocalhost(Loopbacks(hosts)[i])
         /\ \A h \in ToSet(hosts) : IsLocalhost(h) =>
              \/ \E i \in 1..Len(Loopbacks(hosts)) : Loopbacks(hosts)[i] = <<"127.0.0.1", h[2]>>
              \/ \E g \in ToSet(hosts) : /\ g[1] \in {"127.0.0.1", "localhost"} /\ g[2] = h[2]
                                         /\ IsLocalhost(g)
<1> DEFINE S == {h \in Local(hosts) : /\ <<"127.0.0.1", h[2]>> \notin ToSet(hosts)
                                      /\ <<"localhost", h[2]>> \notin ToSet(hosts)}
           local == Only(hosts, S)
<1>1. local \in Seq(Address) /\ ToSet(local) = ToSet(hosts) \cap S
  BY OnlyThose
<1>2. Loopbacks(hosts) = [i \in DOMAIN local |-> <<"127.0.0.1", local[i][2]>>]
  BY DEF Loopbacks
<1>3. \A p : IsLocalhost(<<"127.0.0.1", p>>) /\ IsLocalhost(<<"localhost", p>>)
  BY DEF IsLocalhost, LOCALHOST_NAMES
<1>4. ASSUME NEW h \in ToSet(hosts), IsLocalhost(h)
      PROVE  \/ h \in ToSet(local)
             \/ \E g \in ToSet(hosts) : /\ g[1] \in {"127.0.0.1", "localhost"} /\ g[2] = h[2]
                                        /\ IsLocalhost(g)
  <2>1. CASE h \in S
    BY <1>1, <2>1
  <2>2. CASE h \notin S
    <3>1. PICK g : g \in ToSet(hosts)
                   /\ (g = <<"127.0.0.1", h[2]>> \/ g = <<"localhost", h[2]>>)
      BY <1>4, <2>2 DEF Local
    <3>2. IsLocalhost(g)
      BY <1>3, <3>1
    <3> QED BY <3>1, <3>2
  <2> QED BY <2>1, <2>2
<1> HIDE DEF local, S
<1>5. /\ Len(local) \in Nat /\ DOMAIN local = 1..Len(local)
      /\ \A i \in 1..Len(local) : local[i] \in Address
  BY <1>1
<1>6. /\ Loopbacks(hosts) \in Seq(Address) /\ Len(Loopbacks(hosts)) = Len(local)
      /\ \A i \in 1..Len(local) : Loopbacks(hosts)[i] = <<"127.0.0.1", local[i][2]>>
  <2>1. \A i \in 1..Len(local) : <<"127.0.0.1", local[i][2]>> \in Address
    <3>1. \A x \in Nat : <<"127.0.0.1", x>> \in Address
      BY DEF Address, LOCALHOST_NAMES
    <3>2. \A i \in 1..Len(local) : local[i][2] \in Nat
      BY <1>5 DEF Address
    <3> QED BY <3>1, <3>2
  <2>2. PICK b : b = [i \in 1..Len(local) |-> <<"127.0.0.1", local[i][2]>>]
    OBVIOUS
  <2>3. b \in [1..Len(local) -> Address]
    BY <2>1, <2>2
  <2>4. b \in Seq(Address) /\ Len(b) = Len(local)
    BY <1>5, <2>3
  <2>5. b = Loopbacks(hosts)
    BY <1>2, <1>5, <2>2
  <2>6. \A i \in 1..Len(local) : b[i] = <<"127.0.0.1", local[i][2]>>
    BY <2>2
  <2> QED BY <2>4, <2>5, <2>6
<1>7. \A h \in ToSet(local) : \E i \in 1..Len(local) : local[i] = h
  BY <1>5 DEF ToSet
<1>8. ASSUME NEW i \in 1..Len(Loopbacks(hosts)) PROVE IsLocalhost(Loopbacks(hosts)[i])
  <2>1. PICK h : h = Loopbacks(hosts)[i]
    OBVIOUS
  <2>2. h[1] = "127.0.0.1"
    BY <1>6, <2>1
  <2> QED BY <2>1, <2>2 DEF IsLocalhost, LOCALHOST_NAMES
<1>9. ASSUME NEW h \in ToSet(local)
      PROVE  \E i \in 1..Len(Loopbacks(hosts)) : Loopbacks(hosts)[i] = <<"127.0.0.1", h[2]>>
  BY <1>6, <1>7
<1> QED BY <1>4, <1>6, <1>8, <1>9

\* The hosts of a list, its local ones first.
LEMMA LocalFirstIs ==
  ASSUME NEW hosts \in Seq(Address)
  PROVE  /\ LocalFirst(hosts) \in Seq(Address) /\ ToSet(LocalFirst(hosts)) = ToSet(hosts)
         /\ \E n \in Nat :
              /\ n <= Len(LocalFirst(hosts))
              /\ \A h \in ToSet(hosts) : IsLocalhost(h) => \E i \in 1..n : LocalFirst(hosts)[i] = h
              /\ \A k \in 1..Len(LocalFirst(hosts)) : ~IsLocalhost(LocalFirst(hosts)[k]) => k > n
<1> DEFINE L == Only(hosts, Local(hosts))
           R == Only(hosts, ToSet(hosts) \ Local(hosts))
<1>1. /\ L \in Seq(Address) /\ ToSet(L) = Local(hosts)
      /\ R \in Seq(Address) /\ ToSet(R) = ToSet(hosts) \ Local(hosts)
  BY OnlyThose DEF Local
<1>2. LocalFirst(hosts) = L \o R
  BY DEF LocalFirst
<1> HIDE DEF L, R
<1>3. PICK s : s = L \o R
  OBVIOUS
<1>4. /\ s \in Seq(Address) /\ Len(L) \in Nat /\ Len(R) \in Nat /\ Len(s) = Len(L) + Len(R)
      /\ \A i \in 1..Len(L) : s[i] = L[i]
      /\ \A i \in 1..Len(R) : s[Len(L) + i] = R[i]
      /\ \A i \in 1..Len(s) : i > Len(L) => i - Len(L) \in 1..Len(R) /\ s[i] = R[i - Len(L)]
  BY <1>1, <1>3, Joined
<1>5. /\ \A h : h \in ToSet(L) <=> \E i \in 1..Len(L) : L[i] = h
      /\ \A h : h \in ToSet(R) <=> \E i \in 1..Len(R) : R[i] = h
      /\ \A h : h \in ToSet(s) <=> \E i \in 1..Len(s) : s[i] = h
  BY <1>1, <1>4 DEF ToSet
<1>6. ASSUME NEW k \in 1..Len(s), ~IsLocalhost(s[k]) PROVE k > Len(L)
  <2> SUFFICES ASSUME k <= Len(L) PROVE FALSE
    BY <1>4
  <2>1. k \in 1..Len(L) /\ s[k] = L[k]
    BY <1>4
  <2> QED BY <1>1, <1>5, <1>6, <2>1 DEF Local
<1>7. ASSUME NEW h \in ToSet(hosts), IsLocalhost(h) PROVE \E i \in 1..Len(L) : s[i] = h
  <2>1. h \in ToSet(L)
    BY <1>1, <1>7 DEF Local
  <2> QED BY <1>4, <1>5, <2>1
<1>8. ToSet(s) = ToSet(hosts)
  <2>1. ASSUME NEW h \in ToSet(s) PROVE h \in ToSet(hosts)
    <3>1. PICK i \in 1..Len(s) : s[i] = h
      BY <1>5
    <3>2. CASE i <= Len(L)
      <4>1. i \in 1..Len(L)
        BY <1>4, <3>2
      <4> QED BY <1>1, <1>4, <1>5, <3>1, <4>1 DEF Local
    <3>3. CASE i > Len(L)
      BY <1>1, <1>4, <1>5, <3>1, <3>3
    <3> QED BY <1>4, <3>2, <3>3
  <2>2. ASSUME NEW h \in ToSet(hosts) PROVE h \in ToSet(s)
    <3>1. CASE h \in ToSet(L)
      <4>1. PICK i \in 1..Len(L) : L[i] = h
        BY <1>5, <3>1
      <4>2. i \in 1..Len(s) /\ s[i] = h
        BY <1>4, <4>1
      <4> QED BY <1>5, <4>2
    <3>2. CASE h \in ToSet(R)
      <4>1. PICK i \in 1..Len(R) : R[i] = h
        BY <1>5, <3>2
      <4>2. Len(L) + i \in 1..Len(s) /\ s[Len(L) + i] = h
        BY <1>4, <4>1
      <4> QED BY <1>5, <4>2
    <3> QED BY <1>1, <3>1, <3>2
  <2> QED BY <2>1, <2>2
<1>9. Len(L) \in Nat /\ Len(L) <= Len(s)
  BY <1>4
<1>10. \E n \in Nat : /\ n <= Len(s)
                     /\ \A h \in ToSet(hosts) : IsLocalhost(h) => \E i \in 1..n : s[i] = h
                     /\ \A k \in 1..Len(s) : ~IsLocalhost(s[k]) => k > n
  BY <1>6, <1>7, <1>9
<1>11. s = LocalFirst(hosts)
  BY <1>2, <1>3
<1> QED
  <2>1. s \in Seq(Address) /\ ToSet(s) = ToSet(hosts)
    BY <1>4, <1>8
  <2> QED BY <1>10, <1>11, <2>1

\* The list has addresses, ...
LEMMA HostsAre ==
  ASSUME given \in Given
  PROVE  /\ Hosts \in Seq(Address) /\ Len(Hosts) \in Nat
         /\ \A i \in 1..Len(Hosts) : Hosts[i] \in ToSet(Hosts) /\ Hosts[i] # None
         /\ \A h \in ToSet(Hosts) : \E i \in 1..Len(Hosts) : Hosts[i] = h
<1> DEFINE sorted == IF prefer THEN LocalFirst(given) ELSE given
<1>1. given \in Seq(Address) /\ None \notin Address
  BY GivenAssumption
<1>2. sorted \in Seq(Address)
  BY <1>1, LocalFirstIs
<1>3. Hosts = IF loopback THEN Loopbacks(sorted) \o sorted ELSE sorted
  BY DEF Hosts
<1> HIDE DEF sorted
<1>4. Loopbacks(sorted) \o sorted \in Seq(Address)
  BY <1>2, LoopbacksAre, Joined
<1>5. PICK s : s = Hosts
  OBVIOUS
<1>6. s \in Seq(Address)
  BY <1>2, <1>3, <1>4, <1>5
<1>7. /\ Len(s) \in Nat /\ \A i \in 1..Len(s) : s[i] \in ToSet(s) /\ s[i] # None
      /\ \A h \in ToSet(s) : \E i \in 1..Len(s) : s[i] = h
  BY <1>1, <1>6 DEF ToSet
<1> QED BY <1>5, <1>6, <1>7

\* ... and when local hosts are preferred, each of them stands before every
\* remote one, also by a loopback address if that is asked for.
LEMMA LocalsFirst ==
  ASSUME given \in Given, prefer, NEW k \in 1..Len(Hosts), ~IsLocalhost(Hosts[k]),
         NEW h \in ToSet(given), IsLocalhost(h)
  PROVE  \E i \in 1..(k - 1) :
           /\ Hosts[i][2] = h[2]
           /\ IF loopback THEN Hosts[i][1] \in {"127.0.0.1", "localhost"} ELSE Hosts[i] = h
<1>1. given \in Seq(Address)
  BY GivenAssumption
<1>2. PICK s : s = LocalFirst(given)
  OBVIOUS
<1>3. s \in Seq(Address) /\ ToSet(s) = ToSet(given) /\ Len(s) \in Nat
  BY <1>1, <1>2, LocalFirstIs
<1>4. PICK n \in Nat :
        /\ n <= Len(s)
        /\ \A g \in ToSet(given) : IsLocalhost(g) => \E i \in 1..n : s[i] = g
        /\ \A j \in 1..Len(s) : ~IsLocalhost(s[j]) => j > n
  BY <1>1, <1>2, LocalFirstIs
<1>5. CASE ~loopback
  <2>1. Hosts = s
    BY <1>2, <1>5 DEF Hosts
  <2>2. PICK i \in 1..n : s[i] = h
    BY <1>4
  <2>3. k > n /\ i \in 1..(k - 1)
    BY <1>3, <1>4, <2>1
  <2> QED BY <1>5, <2>1, <2>2, <2>3
<1>6. CASE loopback
  <2>1. PICK b : b = Loopbacks(s)
    OBVIOUS
  <2>2. PICK t : t = b \o s
    OBVIOUS
  <2>3. Hosts = t
    BY <1>2, <1>6, <2>1, <2>2 DEF Hosts
  <2>4. /\ b \in Seq(Address) /\ \A i \in 1..Len(b) : IsLocalhost(b[i])
        /\ \/ \E i \in 1..Len(b) : b[i] = <<"127.0.0.1", h[2]>>
           \/ \E g \in ToSet(given) : /\ g[1] \in {"127.0.0.1", "localhost"} /\ g[2] = h[2]
                                      /\ IsLocalhost(g)
    BY ZenonT(30), <1>3, <2>1, LoopbacksAre
  <2>5. /\ Len(b) \in Nat /\ Len(t) = Len(b) + Len(s)
        /\ \A i \in 1..Len(b) : t[i] = b[i]
        /\ \A i \in 1..Len(s) : t[Len(b) + i] = s[i]
        /\ \A i \in 1..Len(t) : i > Len(b) => i - Len(b) \in 1..Len(s) /\ t[i] = s[i - Len(b)]
    BY <1>3, <2>2, <2>4, Joined
  <2>6. k \in 1..Len(t) /\ ~IsLocalhost(t[k])
    BY <2>3
  <2>7. k > Len(b) /\ k - Len(b) > n
    <3>1. k > Len(b)
      <4> SUFFICES ASSUME k <= Len(b) PROVE FALSE
        BY <2>5
      <4>1. k \in 1..Len(b)
        BY <2>5
      <4> QED BY <2>4, <2>5, <2>6, <4>1
    <3> QED BY <1>4, <2>5, <2>6, <3>1
  <2>8. CASE \E i \in 1..Len(b) : b[i] = <<"127.0.0.1", h[2]>>
    <3>1. PICK i \in 1..Len(b) : b[i] = <<"127.0.0.1", h[2]>>
      BY <2>8
    <3>2. i \in 1..(k - 1) /\ t[i] = <<"127.0.0.1", h[2]>>
      BY <2>5, <2>7, <3>1
    <3> QED BY <1>6, <2>3, <3>2
  <2>9. ASSUME NEW g \in ToSet(given), g[1] \in {"127.0.0.1", "localhost"}, g[2] = h[2],
               IsLocalhost(g)
        PROVE  \E i \in 1..(k - 1) : t[i] = g
    <3>1. PICK i \in 1..n : s[i] = g
      BY <1>4, <2>9
    <3>2. i \in 1..Len(s) /\ Len(b) + i \in 1..(k - 1)
      BY <1>3, <1>4, <2>5, <2>7
    <3>3. t[Len(b) + i] = g
      BY <2>5, <3>1, <3>2
    <3> QED BY <3>2, <3>3
  <2> QED BY <1>6, <2>3, <2>4, <2>8, <2>9
<1> QED BY <1>5, <1>6

-----------------------------------------------------------------------------
(* The pauses *)

\* the pause of an exponent, before the jitter
Planned(n) == Smaller(SleepMax, Initial * Power[n - 1])
\* with jitter it may be as long as the greatest, and the exponent stays
Held == SleepMax * 10 <= Planned(sleep_exp) * (10 + Jitter)

SleepInv ==
  /\ sleep_exp \in Nat \ {0} /\ rounds \in 0..MaxRounds /\ (at = "asleep" => rounds # 0)
  /\ Factor # 1 => /\ sleep_exp <= rounds + 1 /\ sleep_exp <= MaxRounds
                   /\ sleep_exp = rounds + 1 \/ Held
  /\ PausesAsDocumented

\* The pauses planned are numbers and do not become shorter, the last that the
\* history tells apart is the longest, and without an increase all are the same.
LEMMA PlannedFacts ==
  /\ \A n \in Nat \ {0} : Planned(n) \in Nat /\ Planned(n) <= SleepMax
  /\ \A m, n \in Nat \ {0} : m <= n => Planned(m) <= Planned(n)
  /\ Factor # 1 => Planned(MaxRounds) = SleepMax
  /\ Factor = 1 => \A m, n \in Nat \ {0} : Planned(m) = Planned(n)
<1>1. Initial \in Nat \ {0} /\ SleepMax \in Nat /\ Factor \in Nat /\ MaxRounds \in Nat \ {0}
  BY SleepAssumption, RoundsAssumption
<1>2. \A n \in Nat \ {0} : n - 1 \in Nat /\ Initial * Power[n - 1] \in Nat
  <2>1. \A x, y \in Nat : x * y \in Nat
    OBVIOUS
  <2> QED BY <1>1, <2>1, PowerGrows
<1>3. ASSUME NEW m \in Nat \ {0}, NEW n \in Nat \ {0}, m <= n
      PROVE  Initial * Power[m - 1] <= Initial * Power[n - 1]
  <2>1. \A x, y, z \in Nat : y <= z => x * y <= x * z
    OBVIOUS
  <2>2. m - 1 \in Nat /\ n - 1 \in Nat /\ m - 1 <= n - 1
    BY <1>3
  <2>3. Power[m - 1] \in Nat /\ Power[n - 1] \in Nat /\ Power[m - 1] <= Power[n - 1]
    BY <2>2, PowerGrows
  <2> QED BY <1>1, <2>1, <2>3
<1>4. \A x, y \in Nat : Smaller(x, y) \in Nat /\ Smaller(x, y) <= x /\ (x <= y => Smaller(x, y) = x)
  BY DEF Smaller
<1>5. \A x, y, z \in Nat : y <= z => Smaller(x, y) <= Smaller(x, z)
  BY DEF Smaller
<1>6. ASSUME Factor # 1 PROVE Planned(MaxRounds) = SleepMax
  <2>1. SleepMax <= Initial * Power[MaxRounds - 1]
    BY <1>1, <1>2, <1>6, RoundsAssumption
  <2> QED BY <1>1, <1>2, <1>4, <2>1 DEF Planned
<1>7. ASSUME Factor = 1 PROVE \A n \in Nat \ {0} : Power[n - 1] = 1
  <2> DEFINE T == {n \in Nat : Power[n] = 1}
  <2>1. 0 \in T
    BY PowerIs
  <2>2. \A n \in Nat : n \in T => n + 1 \in T
    BY <1>7, PowerIs
  <2>3. \A n \in Nat : n \in T
    <3> HIDE DEF T
    <3> QED BY <2>1, <2>2, OneByOne
  <2> QED BY <1>2, <2>3
<1>8. \A n \in Nat \ {0} : Planned(n) \in Nat /\ Planned(n) <= SleepMax
  BY <1>1, <1>2, <1>4 DEF Planned
<1>9. \A m, n \in Nat \ {0} : m <= n => Planned(m) <= Planned(n)
  BY <1>1, <1>2, <1>3, <1>5 DEF Planned
<1>10. Factor = 1 => \A m, n \in Nat \ {0} : Planned(m) = Planned(n)
  BY <1>7 DEF Planned
<1> QED BY <1>6, <1>8, <1>9, <1>10

\* A pause is the planned one, with up to Jitter tenths more, rounded down.
LEMMA DurationIs ==
  ASSUME sleep_exp \in Nat \ {0}, NEW jitter \in 0..Jitter
  PROVE  /\ Duration(jitter) \in Nat /\ Planned(sleep_exp) <= Duration(jitter)
         /\ Duration(jitter) * 10 <= Planned(sleep_exp) * (10 + Jitter)
<1>1. /\ Initial \in Nat /\ Factor \in Nat \ {0}
      /\ Jitter \in Nat /\ jitter \in Nat /\ jitter <= Jitter
  BY SleepAssumption
<1>2. PICK e : e = sleep_exp
  OBVIOUS
<1>3. e \in Nat \ {0} /\ e - 1 \in Nat /\ (e - 1) + 1 = e
  BY <1>2
<1>4. PICK p, b : p = Power[e - 1] /\ b = Planned(e)
  OBVIOUS
<1>5. p \in Nat /\ Power[e] = Factor * p /\ b \in Nat
  BY <1>3, <1>4, PowerIs, PowerGrows, PlannedFacts
<1>6. (Initial * (Factor * p)) \div Factor = Initial * p
  <2>1. Initial * (Factor * p) = Factor * (Initial * p) /\ Initial * p \in Nat
    BY <1>1, <1>5
  <2>2. \A x \in Nat \ {0}, y \in Nat : (x * y) \div x = y
    OBVIOUS
  <2> QED BY <1>1, <2>1, <2>2
<1>7. Duration(jitter) = (b * (10 + jitter)) \div 10
  BY <1>2, <1>4, <1>5, <1>6 DEF Duration, Planned
<1>8. PICK x, y : x = b * (10 + jitter) /\ y = b * (10 + Jitter)
  OBVIOUS
<1>9. x \in Nat /\ y \in Nat /\ b * 10 <= x /\ x <= y
  <2>1. \A i, j, k \in Nat : j <= k => i * j <= i * k
    OBVIOUS
  <2>2. 10 \in Nat /\ 10 + jitter \in Nat /\ 10 + Jitter \in Nat
        /\ 10 <= 10 + jitter /\ 10 + jitter <= 10 + Jitter
    BY <1>1
  <2>3. b * 10 <= x /\ x <= y
    BY <1>5, <1>8, <2>1, <2>2
  <2>4. \A i, j \in Nat : i * j \in Nat
    OBVIOUS
  <2> QED BY <1>5, <1>8, <2>2, <2>3, <2>4
<1>10. x \div 10 \in Nat /\ b <= x \div 10 /\ (x \div 10) * 10 <= y
  BY <1>5, <1>9
<1> QED BY <1>2, <1>4, <1>7, <1>8, <1>10

\* A pause is as documented, and the next exponent the next pause, or held.
LEMMA PauseKeeps ==
  ASSUME SleepInv, Pause
  PROVE  SleepInv'
<1>1. PICK e, r, p, f : e = sleep_exp /\ r = rounds' /\ p = pause' /\ f = sleep_exp'
  OBVIOUS
<1>2. PICK b, q : b = Planned(e) /\ q = Planned(r)
  OBVIOUS
<1>3. /\ e \in Nat \ {0} /\ rounds \in 0..MaxRounds /\ MaxRounds \in Nat \ {0} /\ SleepMax \in Nat
      /\ Jitter \in Nat
      /\ Factor # 1 => /\ e <= rounds + 1 /\ e <= MaxRounds
                       /\ e = rounds + 1 \/ SleepMax * 10 <= b * (10 + Jitter)
  BY <1>1, <1>2, SleepAssumption, RoundsAssumption DEF SleepInv, Held
<1>4. /\ p \in Nat /\ b <= p /\ p * 10 <= b * (10 + Jitter)
      /\ f = IF p < SleepMax THEN e + 1 ELSE e
      /\ at' = "asleep"
  BY <1>1, <1>2, <1>3, DurationIs DEF Pause
<1>5. /\ r \in 1..MaxRounds /\ r \in Nat \ {0} /\ (rounds + 1 <= MaxRounds => r = rounds + 1)
      /\ (rounds = MaxRounds => r = MaxRounds)
  BY <1>1, <1>3 DEF Pause, Smaller
<1>6. b \in Nat /\ q \in Nat /\ b <= SleepMax /\ q <= SleepMax
  BY <1>2, <1>3, <1>5, PlannedFacts
<1>7. \A x, y \in Nat : x <= y => x * (10 + Jitter) <= y * (10 + Jitter) /\ x * 10 <= y * 10
                                  /\ x * 10 <= x * (10 + Jitter) /\ x * (10 + Jitter) \in Nat
  BY <1>3
<1>8. Factor # 1 => e <= r /\ (e = rounds + 1 => r = e)
  BY <1>3, <1>5
<1>9. b <= q
  BY <1>2, <1>3, <1>5, <1>8, PlannedFacts
<1>10. p * 10 <= q * (10 + Jitter)
  BY <1>4, <1>6, <1>7, <1>9
<1>11. q * 10 <= p * (10 + Jitter)
  <2>1. b * (10 + Jitter) <= p * (10 + Jitter) /\ b * 10 <= b * (10 + Jitter)
        /\ b * (10 + Jitter) \in Nat /\ p * (10 + Jitter) \in Nat
    BY <1>4, <1>6, <1>7
  <2>2. CASE b = q
    BY <1>6, <2>1, <2>2
  <2>3. CASE SleepMax * 10 <= b * (10 + Jitter)
    BY <1>3, <1>6, <2>1, <2>3
  <2>4. b = q \/ SleepMax * 10 <= b * (10 + Jitter)
    BY <1>2, <1>3, <1>5, <1>8, PlannedFacts
  <2> QED BY <2>2, <2>3, <2>4
<1>12. PausesAsDocumented'
  BY <1>1, <1>2, <1>10, <1>11 DEF PausesAsDocumented, Planned
<1>13. ASSUME Factor # 1
       PROVE  /\ f <= r + 1 /\ f <= MaxRounds
              /\ f = r + 1 \/ SleepMax * 10 <= Planned(f) * (10 + Jitter)
  <2>1. f <= r + 1 /\ e <= MaxRounds
    BY <1>3, <1>4, <1>5, <1>8, <1>13
  <2>2. f <= MaxRounds
    <3>1. e = MaxRounds => p >= SleepMax
      BY <1>2, <1>4, <1>6, <1>13, PlannedFacts
    <3> QED BY <1>3, <1>4, <2>1, <3>1
  <2>3. CASE f = e + 1
    <3>1. b <= Planned(f) /\ Planned(f) \in Nat
      BY <1>2, <1>3, <2>3, PlannedFacts
    <3>2. b * (10 + Jitter) <= Planned(f) * (10 + Jitter)
      BY <1>6, <1>7, <3>1
    <3>3. b * (10 + Jitter) \in Nat /\ Planned(f) * (10 + Jitter) \in Nat
      BY <1>6, <1>7, <3>1
    <3>4. CASE e = rounds + 1
      BY <1>8, <1>13, <2>1, <2>2, <2>3, <3>4
    <3>5. CASE SleepMax * 10 <= b * (10 + Jitter)
      BY <1>3, <2>1, <2>2, <3>2, <3>3, <3>5
    <3> QED BY <1>3, <1>13, <3>4, <3>5
  <2>4. CASE f = e /\ p >= SleepMax
    <3>1. SleepMax * 10 <= p * 10
      BY <1>3, <1>4, <2>4
    <3>2. b * (10 + Jitter) \in Nat
      BY <1>6, <1>7
    <3>3. SleepMax * 10 <= b * (10 + Jitter)
      BY <1>3, <1>4, <3>1, <3>2
    <3> QED BY <1>2, <2>1, <2>2, <2>4, <3>3
  <2> QED BY <1>3, <1>4, <2>1, <2>2, <2>3, <2>4
<1>14. f \in Nat \ {0} /\ r \in 0..MaxRounds /\ r # 0
  BY <1>3, <1>4, <1>5
<1> QED BY <1>1, <1>12, <1>13, <1>14 DEF SleepInv, Held

\* The other steps do not pause.
LEMMA SleepStep ==
  ASSUME SleepInv, [Next]_vars
  PROVE  SleepInv'
<1>1. ASSUME UNCHANGED <<sleep_exp, pause, rounds>>, at' = "asleep" => at = "asleep"
      PROVE  SleepInv'
  BY <1>1 DEF SleepInv, Held, PausesAsDocumented
<1>2. CASE UNCHANGED vars
  BY <1>1, <1>2 DEF vars, history
<1>3. CASE Round \/ NoMoreHosts \/ Again \/ End
  BY <1>1, <1>3 DEF Round, NoMoreHosts, Again, End, history
<1>4. CASE TcpOpen \/ WsOpen
  BY <1>1, <1>4 DEF TcpOpen, WsOpen, Refused
<1>5. CASE TcpSetup
  BY <1>1, <1>5 DEF TcpSetup, Refused, history
<1>6. CASE Disconnect \/ DropSocket
  BY <1>1, <1>6 DEF Disconnect, DropSocket, history
<1> QED BY <1>2, <1>3, <1>4, <1>5, <1>6, PauseKeeps DEF Next, Step

\* The n-th pause is as long as the options of Transport say
\* (reconnect_sleep_initial, _increase, _max and _jitter), also when a long
\* pause with jitter keeps the exponent where it is.
THEOREM PausesDocumented == Spec => []PausesAsDocumented
<1>1. Init => SleepInv
  BY RoundsAssumption DEF Init, SleepInv, PausesAsDocumented
<1>2. SleepInv /\ [Next]_vars => SleepInv'
  BY SleepStep
<1>3. SleepInv => PausesAsDocumented
  BY DEF SleepInv
<1> QED
  BY <1>1, <1>2, <1>3, PTL DEF Spec

-----------------------------------------------------------------------------
(* The rounds *)

\* at which host of the list the thread is
Positions ==
  /\ given \in Given /\ limit \in Limits /\ connect_count \in Nat
  /\ index \in 0..(Len(Hosts) + 1)
  /\ at \in {"host", "setup"} => index >= 1
  /\ at = "setup" => index <= Len(Hosts) /\ adapter = "tcp"
\* a round that has begun below the limit is not over it by a round
Counted ==
  limit > 0 =>
    /\ connect_count < limit + Len(Hosts)
    /\ at \in {"host", "setup"} => connect_count < limit + index - 1
\* while no other thread interferes, the socket is that of the current host
Sockets ==
  /\ running <=> late = "before"
  /\ running =>
       /\ at \in {"host", "asleep", "failed"} => socket = None
       /\ at = "setup" => socket = Hosts[index]
       /\ at \in {"round", "pause", "end", "connected"} /\ socket # None =>
            index \in 1..Len(Hosts) /\ socket = Hosts[index] /\ current = socket
       /\ at = "connected" => socket # None
\* what has been tried: the hosts before the current one, and all that a round
\* reaches when one has ended without a socket
Tried ==
  running =>
       /\ at = "host" => \A i \in 1..(index - 1) : Hosts[i] \in tried
       /\ at = "setup" => \A i \in 1..index : Hosts[i] \in tried
       /\ at \in {"round", "pause", "asleep", "end", "failed"} /\ socket = None
            /\ connect_count > 0 => \A i \in Reached : Hosts[i] \in tried
       /\ at \in {"end", "failed"} /\ socket = None /\ limit > 0 => connect_count > 0

RoundInv == Positions /\ Counted /\ Sockets /\ Tried

\* The list is that of the arguments, which never change.
LEMMA HostsStay ==
  ASSUME UNCHANGED arguments
  PROVE  UNCHANGED <<Hosts, Reached, given, limit, adapter, missing, prefer, loopback>>
<1>1. UNCHANGED <<Hosts, given, limit, adapter, missing, prefer, loopback>>
  BY DEF arguments, Hosts
<1> QED BY <1>1 DEF Reached

\* A refusal counts, and the next host is next.
LEMMA RefusedKeeps ==
  ASSUME RoundInv, Refused, UNCHANGED <<arguments, running, late>>,
         at \in {"host", "setup"}, index <= Len(Hosts),
         tried' = tried \cup {Hosts[index]} \/ (at = "setup" /\ tried' = tried)
  PROVE  RoundInv'
<1> USE DEF RoundInv
<1>1. UNCHANGED <<Hosts, Reached, given, limit, adapter, missing>>
  BY HostsStay
<1>2. /\ Len(Hosts) \in Nat /\ index \in 1..Len(Hosts) /\ connect_count \in Nat
      /\ Hosts[index] \in ToSet(Hosts)
  <2>1. given \in Given /\ index \in 0..(Len(Hosts) + 1) /\ index >= 1 /\ connect_count \in Nat
    BY DEF Positions
  <2>2. Len(Hosts) \in Nat
    BY <2>1, HostsAre
  <2>3. index \in 1..Len(Hosts)
    BY <2>1, <2>2
  <2> QED BY <2>1, <2>2, <2>3, HostsAre
<1>3. /\ at' = "host" /\ index' = index + 1 /\ socket' = None
      /\ connect_count' \in {connect_count, connect_count + 1}
  BY DEF Refused
<1>4. limit \in Int
  BY GivenAssumption DEF Positions
<1>5. Positions'
  BY <1>1, <1>2, <1>3 DEF Positions
<1>6. Counted'
  BY <1>1, <1>2, <1>3, <1>4 DEF Counted
<1>7. Sockets'
  BY <1>1, <1>3 DEF Sockets
<1>8. Tried'
  <2>1. tried \subseteq tried'
    OBVIOUS
  <2>2. ASSUME running, NEW i \in 1..index
        PROVE  Hosts[i] \in tried'
    <3>1. CASE at = "setup"
      BY <2>1, <2>2, <3>1 DEF Tried
    <3>2. CASE at = "host"
      <4>1. i \in 1..(index - 1) \/ i = index
        BY <1>2
      <4>2. tried' = tried \cup {Hosts[index]}
        BY <3>2
      <4> QED BY <2>2, <3>2, <4>1, <4>2 DEF Tried
    <3> QED BY <3>1, <3>2
  <2>3. index' - 1 = index
    BY <1>2, <1>3
  <2> QED BY <1>1, <1>3, <2>1, <2>2, <2>3 DEF Tried
<1> QED BY <1>5, <1>6, <1>7, <1>8

\* A round begins at the first host.
LEMMA RoundKeeps ==
  ASSUME RoundInv, Round
  PROVE  RoundInv'
<1> USE DEF RoundInv
<1>1. /\ at = "round"
      /\ UNCHANGED <<arguments, running, socket, current, connect_count, late, tried>>
      /\ UNCHANGED <<Hosts, Reached, given, limit, adapter, missing>>
  BY HostsStay DEF Round, history
<1>2. Len(Hosts) \in Nat /\ connect_count \in Nat /\ limit \in Int /\ index \in Int
  BY HostsAre, GivenAssumption DEF Positions
<1>3. CASE running /\ socket = None /\ MayTry /\ at' = "host" /\ index' = 1
  <2>1. Positions'
    BY <1>1, <1>2, <1>3 DEF Positions
  <2>2. Counted'
    BY <1>1, <1>2, <1>3 DEF Counted, MayTry
  <2>3. Sockets'
    BY <1>1, <1>3 DEF Sockets
  <2>4. Tried'
    <3>1. 1..(index' - 1) = {}
      BY <1>3
    <3> QED BY <1>1, <1>3, <3>1 DEF Tried
  <2> QED BY <2>1, <2>2, <2>3, <2>4
<1>4. CASE ~(running /\ socket = None /\ MayTry) /\ at' = "end" /\ index' = index
  <2>1. Positions' /\ Counted'
    BY <1>1, <1>4 DEF Positions, Counted
  <2>2. Sockets'
    BY <1>1, <1>4 DEF Sockets
  <2>3. running /\ socket = None /\ limit > 0 => connect_count > 0
    BY <1>2, <1>4 DEF MayTry
  <2>4. Tried'
    BY <1>1, <1>4, <2>3 DEF Tried
  <2> QED BY <2>1, <2>2, <2>4
<1> QED BY <1>3, <1>4 DEF Round

\* A host of either adapter refuses, or the socket is connected to it.
LEMMA OpenKeeps ==
  ASSUME RoundInv, TcpOpen \/ WsOpen
  PROVE  RoundInv'
<1> USE DEF RoundInv
<1>1. /\ at = "host" /\ index <= Len(Hosts) /\ tried' = tried \cup {Hosts[index]}
      /\ UNCHANGED <<arguments, running, late>>
      /\ UNCHANGED <<Hosts, Reached, given, limit, adapter, missing>>
  BY HostsStay DEF TcpOpen, WsOpen, AtHost
<1>2. CASE Refused
  BY <1>1, <1>2, RefusedKeeps
<1>3. ASSUME socket' = Hosts[index], UNCHANGED <<connect_count, index>>,
             \/ at' = "setup" /\ adapter = "tcp"
             \/ at' = "pause" /\ current' = Hosts[index]
      PROVE  RoundInv'
  <2>1. /\ Len(Hosts) \in Nat /\ index \in 1..Len(Hosts)
    BY <1>1, HostsAre DEF Positions
  <2>2. Hosts[index] \in ToSet(Hosts) /\ Hosts[index] # None
    BY <2>1, HostsAre DEF Positions
  <2>3. Positions' /\ Counted'
    BY <1>1, <1>3, <2>1 DEF Positions, Counted
  <2>4. Sockets'
    BY <1>1, <1>3, <2>1 DEF Sockets
  <2>5. Tried'
    <3>1. ASSUME running, NEW i \in 1..index
          PROVE  Hosts[i] \in tried'
      <4>1. i \in 1..(index - 1) \/ i = index
        BY <2>1
      <4> QED BY <1>1, <3>1, <4>1 DEF Tried
    <3>2. socket' # None /\ at' \in {"setup", "pause"}
      BY <1>3, <2>2
    <3> QED BY <1>1, <1>3, <3>1, <3>2 DEF Tried
  <2> QED BY <2>3, <2>4, <2>5
<1> QED BY <1>2, <1>3 DEF TcpOpen, WsOpen

\* A socket is set up, or not, or somebody has taken it away.
LEMMA SetupKeeps ==
  ASSUME RoundInv, TcpSetup
  PROVE  RoundInv'
<1> USE DEF RoundInv
<1>1. /\ at = "setup" /\ index <= Len(Hosts) /\ tried' = tried
      /\ UNCHANGED <<arguments, running, late>>
      /\ UNCHANGED <<Hosts, Reached, given, limit, adapter, missing>>
  BY HostsStay DEF TcpSetup, history, Positions
<1>2. CASE Refused
  BY <1>1, <1>2, RefusedKeeps
<1>3. /\ Len(Hosts) \in Nat /\ index \in 1..Len(Hosts) /\ Hosts[index] # None
  <2>1. Len(Hosts) \in Nat /\ index \in 1..Len(Hosts)
    BY <1>1, HostsAre DEF Positions
  <2> QED BY <2>1, HostsAre DEF Positions
<1>4. CASE /\ socket = None /\ at' = "raised"
           /\ UNCHANGED <<socket, current, connect_count, index>>
  <2>1. ~running
    BY <1>1, <1>3, <1>4 DEF Sockets
  <2> QED BY <1>1, <1>4, <2>1 DEF Positions, Counted, Sockets, Tried
<1>5. CASE /\ socket # None /\ current' = Hosts[index] /\ at' = "pause"
           /\ UNCHANGED <<socket, connect_count, index>>
  BY <1>1, <1>3, <1>5 DEF Positions, Counted, Sockets, Tried
<1>6. CASE /\ socket # None /\ socket = missing /\ socket' = None /\ at' = "pause"
           /\ UNCHANGED <<current, connect_count, index>>
  <2>1. Positions' /\ Counted' /\ Sockets'
    BY <1>1, <1>6 DEF Positions, Counted, Sockets
  <2>2. ASSUME running, NEW i \in Reached PROVE Hosts[i] \in tried
    <3>1. Hosts[index] = missing /\ adapter = "tcp" /\ i \in 1..Len(Hosts)
      BY <1>1, <1>3, <1>6, <2>2, HostsAre DEF Positions, Sockets, Reached
    <3>2. i \in 1..index
      BY <1>3, <3>1 DEF Reached
    <3> QED BY <1>1, <2>2, <3>2 DEF Tried
  <2> QED BY <1>1, <1>6, <2>1, <2>2 DEF Tried
<1> QED BY <1>2, <1>4, <1>5, <1>6 DEF TcpSetup

\* What the other steps of the thread do: the round is over, or there is a pause.
LEMMA EndOfRound ==
  ASSUME RoundInv, NoMoreHosts \/ Pause \/ Again \/ End
  PROVE  RoundInv'
<1> USE DEF RoundInv
<1>1. /\ UNCHANGED <<arguments, running, socket, current, connect_count, index, late, tried>>
      /\ UNCHANGED <<Hosts, Reached, given, limit, adapter, missing>>
  BY HostsStay DEF NoMoreHosts, Pause, Again, End, history
<1>2. /\ at' \in {"pause", "asleep", "round", "connected", "failed"}
      /\ at' = "failed" => at = "end" /\ socket = None
      /\ at' = "connected" => at = "end" /\ socket # None
      /\ at' = "asleep" => at = "pause" /\ socket = None
      /\ at' = "round" => at \in {"asleep", "pause"}
      /\ at' = "pause" => at = "host" /\ index > Len(Hosts)
  BY DEF NoMoreHosts, Pause, Again, End
<1>3. Positions' /\ Counted'
  BY <1>1, <1>2 DEF Positions, Counted
<1>4. Sockets'
  BY <1>1, <1>2 DEF Sockets
<1>5. Tried'
  <2>1. ASSUME at' = "pause", running, NEW i \in Reached
        PROVE  Hosts[i] \in tried
    <3>1. i \in 1..Len(Hosts)
      BY HostsAre DEF Positions, Reached
    <3>2. Len(Hosts) \in Nat /\ index \in Int /\ index > Len(Hosts)
      BY <1>2, <2>1, HostsAre DEF Positions
    <3>3. i \in 1..(index - 1)
      BY <3>1, <3>2
    <3> QED BY <1>2, <2>1, <3>3 DEF Tried
  <2> QED BY <1>1, <1>2, <2>1 DEF Tried
<1> QED BY <1>3, <1>4, <1>5

\* The thread of the earlier connection ends the attempts before it takes the
\* socket away.
LEMMA LateKeeps ==
  ASSUME RoundInv, Disconnect \/ DropSocket
  PROVE  RoundInv'
<1> USE DEF RoundInv
<1>1. /\ UNCHANGED <<arguments, connect_count, index, at, tried>> /\ late' # "before"
      /\ UNCHANGED <<Hosts, Reached, given, limit, adapter, missing>>
  BY HostsStay DEF Disconnect, DropSocket, history
<1>2. ~running'
  BY DEF Disconnect, DropSocket, Sockets
<1> QED BY <1>1, <1>2 DEF Positions, Counted, Sockets, Tried

\* In the initial state nothing has been tried.
LEMMA RoundInit ==
  ASSUME Init
  PROVE  RoundInv
<1>1. given \in Given /\ limit \in Limits /\ Len(Hosts) \in Nat
  BY HostsAre DEF Init
<1>2. limit \in Int
  BY <1>1, GivenAssumption
<1>3. Positions
  BY <1>1 DEF Init, Positions
<1>4. Counted
  BY <1>1, <1>2 DEF Init, Counted
<1>5. Sockets /\ Tried
  BY DEF Init, Sockets, Tried
<1> QED BY <1>3, <1>4, <1>5 DEF RoundInv

\* Every step keeps the invariant.
LEMMA RoundStep ==
  ASSUME RoundInv, [Next]_vars
  PROVE  RoundInv'
<1>1. CASE UNCHANGED vars
  <2>1. UNCHANGED <<arguments, running, socket, current, connect_count, at, index, late, tried>>
    BY <1>1 DEF vars, history
  <2>2. UNCHANGED <<Hosts, Reached, given, limit, adapter, missing>>
    BY <2>1, HostsStay
  <2> QED BY <2>1, <2>2 DEF RoundInv, Positions, Counted, Sockets, Tried
<1>2. CASE Step
  BY <1>2, RoundKeeps, OpenKeeps, SetupKeeps, EndOfRound DEF Step
<1> QED BY <1>1, <1>2, LateKeeps DEF Next

\* reconnect_attempts_max counts hosts and is tested round by round: it is passed
\* by less than a round, and nobody gives up before every host has been tried, up
\* to the first whose certificate is missing over TCP.
THEOREM RoundsAreWhole == Spec => []WholeRounds
<1>1. Init => RoundInv
  BY RoundInit
<1>2. RoundInv /\ [Next]_vars => RoundInv'
  BY RoundStep
<1>3. RoundInv => WholeRounds
  BY DEF RoundInv, Counted, Sockets, Tried, WholeRounds
<1> QED
  BY <1>1, <1>2, <1>3, PTL DEF Spec

\* With prefer_localhost a remote host is used only when every local one has
\* been tried in the same round, also by its loopback address if that was asked
\* for; on_connecting is told the host that the socket is connected to.
THEOREM LocalsArePreferred == Spec => []ConnectedAsPreferred
<1>1. Init => RoundInv
  BY RoundInit
<1>2. RoundInv /\ [Next]_vars => RoundInv'
  BY RoundStep
<1>3. RoundInv => ConnectedAsPreferred
  <2> SUFFICES ASSUME RoundInv, at = "connected", late = "before"
               PROVE  ConnectedAsPreferred
    BY DEF ConnectedAsPreferred
  <2>1. index \in 1..Len(Hosts) /\ socket = Hosts[index] /\ current = socket /\ given \in Given
    BY DEF RoundInv, Sockets, Positions
  <2>2. PICK k : k = index
    OBVIOUS
  <2>3. k \in 1..Len(Hosts) /\ socket = Hosts[k]
    BY <2>1, <2>2
  <2>4. ASSUME prefer, ~IsLocalhost(socket), NEW h \in ToSet(given), IsLocalhost(h)
        PROVE  \E i \in 1..(k - 1) :
                 /\ Hosts[i][2] = h[2]
                 /\ IF loopback THEN Hosts[i][1] \in {"127.0.0.1", "localhost"}
                    ELSE Hosts[i] = h
    BY <2>1, <2>3, <2>4, LocalsFirst
  <2> QED BY <2>1, <2>2, <2>4 DEF ConnectedAsPreferred
<1> QED
  BY <1>1, <1>2, <1>3, PTL DEF Spec
=============================================================================
