----------------------------- MODULE ReaderProofs -----------------------------
(***************************************************************************)
(* The reader delivers what was sent: theorems about FrameReader for every *)
(* stream of frames and EOLs, of any length, with any bodies, cut into     *)
(* chunks in any way, and for any number of connections, of which the last *)
(* may be lost anywhere.  The lines of a frame end in LF or CR LF.  They   *)
(* take EOLs that are single newlines (~CrlfEols), a receiver that keeps   *)
(* up with them (~SlowReader), and an application that connects a          *)
(* transport again only when the connection was lost, and not when it      *)
(* stopped it itself or a listener raised (~ReuseStopped): the README says *)
(* what happens otherwise.                                                 *)
(*                                                                         *)
(* The argument is the reader's place in the stream.  What lies in its     *)
(* buffers is a window of the stream, which begins where the next frame    *)
(* begins or one EOL before it; in such a window the code finds the end of *)
(* the frame when it is there (EndFound), reads its command and its body   *)
(* (CommandIs, BodyIs), and drops the EOLs after it (BeyondIs).  So each   *)
(* step moves the place (CutOne, ChunkRead, HeartbeatRead), and the frames *)
(* before it are the ones that were delivered or wait to be.               *)
(*                                                                         *)
(* FlattenSeq, SelectInSeq and Min are used by what they are; induction    *)
(* over the items is over the place of an item, by the least number that   *)
(* would be an exception.                                                  *)
(***************************************************************************)
EXTENDS FrameReader, SequenceTheorems, WellFoundedInduction, TLAPS

-----------------------------------------------------------------------------
(* Induction *)

\* Numbers of which there is one have a least one.
LEMMA LeastNumber ==
  ASSUME NEW T \in SUBSET Nat, T # {}
  PROVE  \E x \in T : \A y \in T : x <= y
<1>1. \E x \in T : \A y \in T : ~(<<y, x>> \in OpToRel(<, Nat))
  BY NatLessThanWellFounded, WFMin
<1>2. \A x, y \in T : ~(<<y, x>> \in OpToRel(<, Nat)) => x <= y
  BY SMT DEF OpToRel
<1> QED BY <1>1, <1>2

\* What holds of 0 and is handed on from n to n + 1 holds of every number.
LEMMA OneByOne ==
  ASSUME NEW T, 0 \in T, \A n \in Nat : n \in T => n + 1 \in T
  PROVE  \A n \in Nat : n \in T
<1> SUFFICES ASSUME Nat \ T # {} PROVE FALSE
  OBVIOUS
<1>1. PICK x \in Nat \ T : \A y \in Nat \ T : x <= y
  BY LeastNumber
<1>2. x # 0 /\ x - 1 \in Nat
  BY <1>1
<1> QED BY <1>1, <1>2

\* Min is the least of a set of places.
LEMMA MinIs ==
  ASSUME NEW n \in Nat, NEW T \in SUBSET (1..n), T # {}
  PROVE  Min(T) \in T /\ \A x \in T : Min(T) <= x
<1>1. T \in SUBSET Nat
  OBVIOUS
<1>2. \E x \in T : \A y \in T : x <= y
  BY <1>1, LeastNumber
<1> QED BY <1>2 DEF Min

-----------------------------------------------------------------------------
(* FlattenSeq, item by item *)

\* f has the concatenations of the first 1, 2, ... n of s
Parts(s, n, f) == f = [i \in 1..n |-> IF i = 1 THEN s[i] ELSE f[i - 1] \o s[i]]

\* The recursive function that FlattenSeq is defined with exists.
LEMMA PartsExist ==
  ASSUME NEW s
  PROVE  \A n \in Nat : \E f : Parts(s, n, f)
<1> DEFINE T == {n \in Nat : \E f : Parts(s, n, f)}
<1>1. 0 \in T
  <2> DEFINE f == [i \in 1..0 |-> s[i]]
  <2>1. f = [i \in 1..0 |-> IF i = 1 THEN s[i] ELSE f[i - 1] \o s[i]]
    OBVIOUS
  <2> QED BY <2>1 DEF Parts
<1>2. ASSUME NEW n \in Nat, n \in T PROVE n + 1 \in T
  <2>1. PICK f : Parts(s, n, f)
    BY <1>2
  <2> DEFINE next(i) == IF i = 1 THEN s[i] ELSE f[i - 1] \o s[i]
             g == [i \in 1..(n + 1) |-> next(i)]
  <2>2. \A i \in 1..n : f[i] = next(i) /\ g[i] = next(i)
    <3>1. f = [i \in 1..n |-> next(i)]
      BY <2>1 DEF Parts
    <3>2. \A i \in 1..n : i \in 1..(n + 1)
      OBVIOUS
    <3> HIDE DEF next
    <3> QED BY <3>1, <3>2
  <2>3. \A i \in 1..(n + 1) : g[i] = IF i = 1 THEN s[i] ELSE g[i - 1] \o s[i]
    <3> TAKE i \in 1..(n + 1)
    <3>1. CASE i = 1
      BY <3>1
    <3>2. CASE i # 1
      <4>1. i - 1 \in 1..n
        BY <3>2
      <4>2. g[i - 1] = f[i - 1]
        BY <4>1, <2>2
      <4>3. g[i] = f[i - 1] \o s[i]
        BY <3>2
      <4> HIDE DEF g
      <4> QED BY <3>2, <4>2, <4>3
    <3> QED BY <3>1, <3>2
  <2>4. g = [i \in 1..(n + 1) |-> g[i]]
    OBVIOUS
  <2> HIDE DEF g
  <2>5. Parts(s, n + 1, g)
    BY <2>3, <2>4 DEF Parts
  <2> QED BY <2>5
<1>3. \A n \in Nat : n \in T
  <2> HIDE DEF T
  <2> QED BY <1>1, <1>2, OneByOne
<1> QED BY <1>3

\* The concatenations of the first ones do not depend on how many more there are.
LEMMA PartsAgree ==
  ASSUME NEW s, NEW t, NEW m \in Nat, NEW n \in Nat, m <= n, NEW f, NEW g,
         Parts(s, m, f), Parts(t, n, g), \A i \in 1..m : s[i] = t[i]
  PROVE  \A i \in 1..m : f[i] = g[i]
<1> DEFINE T == {i \in Nat : i \in 1..m => f[i] = g[i]}
<1>1. \A i \in 1..m : /\ f[i] = IF i = 1 THEN s[i] ELSE f[i - 1] \o s[i]
                      /\ g[i] = IF i = 1 THEN t[i] ELSE g[i - 1] \o t[i]
  <2>1. \A i \in 1..m : i \in 1..n
    OBVIOUS
  <2>2. \A i \in 1..m : f[i] = IF i = 1 THEN s[i] ELSE f[i - 1] \o s[i]
    BY DEF Parts
  <2>3. \A i \in 1..n : g[i] = IF i = 1 THEN t[i] ELSE g[i - 1] \o t[i]
    BY DEF Parts
  <2> QED BY <2>1, <2>2, <2>3
<1>2. 0 \in T
  OBVIOUS
<1>3. ASSUME NEW i \in Nat, i \in T PROVE i + 1 \in T
  <2>1. CASE i + 1 \in 1..m /\ i # 0
    <3>1. i \in 1..m /\ i + 1 # 1 /\ (i + 1) - 1 = i
      BY <2>1
    <3>2. f[i] = g[i]
      BY <3>1, <1>3
    <3>3. s[i + 1] = t[i + 1]
      BY <2>1
    <3>4. f[i + 1] = f[i] \o s[i + 1] /\ g[i + 1] = g[i] \o t[i + 1]
      BY <2>1, <3>1, <1>1
    <3>5. f[i + 1] = g[i + 1]
      BY <3>2, <3>3, <3>4
    <3> QED BY <3>5
  <2>2. CASE i = 0
    <3>1. 1 \in 1..m => f[1] = s[1] /\ g[1] = t[1] /\ s[1] = t[1]
      BY <1>1
    <3> QED BY <2>2, <3>1
  <2>3. CASE i + 1 \notin 1..m
    BY <2>3
  <2> HIDE DEF T
  <2> QED BY <2>1, <2>2, <2>3
<1>4. \A i \in Nat : i \in T
  <2> HIDE DEF T
  <2> QED BY <1>2, <1>3, OneByOne
<1> QED BY <1>4

\* the concatenation of the first n
Joined(s, n) == FlattenSeq(SubSeq(s, 1, n))

\* It is the last of those parts.
LEMMA JoinedIs ==
  ASSUME NEW S, NEW s \in Seq(S), NEW n \in 1..Len(s)
  PROVE  \E f : Parts(s, n, f) /\ Joined(s, n) = f[n]
<1> DEFINE t == SubSeq(s, 1, n)
           f == CHOOSE f : f = [i \in 1..Len(t) |-> IF i = 1 THEN t[i] ELSE f[i - 1] \o t[i]]
<1>1. Len(t) = n /\ \A i \in 1..n : t[i] = s[i]
  OBVIOUS
<1>2. FlattenSeq(t) = f[Len(t)]
  <2>1. Len(t) # 0
    BY <1>1
  <2> HIDE DEF t
  <2> QED BY <2>1 DEF FlattenSeq
<1> HIDE DEF t
<1>3. Parts(t, Len(t), f)
  <2>1. Len(t) \in Nat
    BY <1>1
  <2>2. \E h : h = [i \in 1..Len(t) |-> IF i = 1 THEN t[i] ELSE h[i - 1] \o t[i]]
    BY <2>1, PartsExist DEF Parts
  <2> QED BY <2>2 DEF Parts
<1> HIDE DEF f
<1>4. Parts(s, n, f)
  <2>1. \A i \in 1..n : (IF i = 1 THEN t[i] ELSE f[i - 1] \o t[i])
                         = IF i = 1 THEN s[i] ELSE f[i - 1] \o s[i]
    BY <1>1
  <2>2. f = [i \in 1..n |-> IF i = 1 THEN t[i] ELSE f[i - 1] \o t[i]]
    BY <1>1, <1>3 DEF Parts
  <2>3. [i \in 1..n |-> IF i = 1 THEN t[i] ELSE f[i - 1] \o t[i]]
          = [i \in 1..n |-> IF i = 1 THEN s[i] ELSE f[i - 1] \o s[i]]
    BY <2>1
  <2> QED BY <2>2, <2>3 DEF Parts
<1>5. Joined(s, n) = f[n]
  BY <1>1, <1>2 DEF Joined, t
<1> QED BY <1>4, <1>5

\* Nothing joined is nothing, ...
LEMMA JoinedNone ==
  ASSUME NEW s
  PROVE  Joined(s, 0) = <<>>
<1>1. SubSeq(s, 1, 0) = <<>>
  BY SubSeqEmpty
<1> QED BY <1>1 DEF Joined, FlattenSeq

\* ... the next one is joined at the end, ...
LEMMA JoinedNext ==
  ASSUME NEW S, NEW s \in Seq(Seq(S)), NEW n \in 1..Len(s)
  PROVE  Joined(s, n) = Joined(s, n - 1) \o s[n]
<1>1. PICK f : Parts(s, n, f) /\ Joined(s, n) = f[n]
  BY JoinedIs
<1>2. f[n] = IF n = 1 THEN s[n] ELSE f[n - 1] \o s[n]
  <2>1. f = [i \in 1..n |-> IF i = 1 THEN s[i] ELSE f[i - 1] \o s[i]]
    BY <1>1 DEF Parts
  <2>2. n \in 1..n
    OBVIOUS
  <2> QED BY <2>1, <2>2, Zenon
<1>3. CASE n = 1
  <2>1. Joined(s, n - 1) = <<>>
    BY <1>3, JoinedNone
  <2>2. s[n] \in Seq(S)
    OBVIOUS
  <2>3. <<>> \o s[n] = s[n]
    BY <2>2, ConcatEmptySeq
  <2> QED BY <1>1, <1>2, <1>3, <2>1, <2>3
<1>4. CASE n # 1
  <2>1. n - 1 \in 1..Len(s)
    BY <1>4
  <2>2. PICK g : Parts(s, n - 1, g) /\ Joined(s, n - 1) = g[n - 1]
    BY <2>1, JoinedIs
  <2>3. g[n - 1] = f[n - 1]
    <3>1. n \in Nat /\ n - 1 \in Nat /\ n - 1 <= n /\ n - 1 \in 1..(n - 1)
      BY <1>4
    <3>2. \A i \in 1..(n - 1) : g[i] = f[i]
      BY <3>1, <1>1, <2>2, PartsAgree
    <3> QED BY <3>1, <3>2
  <2> QED BY <1>1, <1>2, <1>4, <2>2, <2>3
<1> QED BY <1>3, <1>4

\* ... and all of them joined are the flattened sequence.
LEMMA JoinedAll ==
  ASSUME NEW S, NEW s \in Seq(S)
  PROVE  Joined(s, Len(s)) = FlattenSeq(s)
<1>1. SubSeq(s, 1, Len(s)) = s
  BY SubSeqFull
<1> QED BY <1>1 DEF Joined

\* What a \o b is, place by place.
LEMMA TwoJoined ==
  ASSUME NEW S, NEW a \in Seq(S), NEW b \in Seq(S)
  PROVE  /\ a \o b \in Seq(S) /\ Len(a \o b) = Len(a) + Len(b)
         /\ \A i \in 1..Len(a) : (a \o b)[i] = a[i]
         /\ \A i \in 1..Len(b) : (a \o b)[Len(a) + i] = b[i]
  OBVIOUS

\* Joined sequences are sequences, their lengths add up, and they begin alike.
LEMMA JoinedTypes ==
  ASSUME NEW S, NEW s \in Seq(Seq(S))
  PROVE  \A n \in 0..Len(s) : Joined(s, n) \in Seq(S)
<1> DEFINE T == {n \in Nat : n <= Len(s) => Joined(s, n) \in Seq(S)}
<1>1. 0 \in T
  <2>1. Joined(s, 0) = <<>>
    BY JoinedNone
  <2>2. <<>> \in Seq(S)
    OBVIOUS
  <2> QED BY <2>1, <2>2
<1>2. ASSUME NEW n \in Nat, n \in T PROVE n + 1 \in T
  <2>1. CASE n + 1 <= Len(s)
    <3>1. n + 1 \in 1..Len(s) /\ (n + 1) - 1 = n
      BY <2>1
    <3>2. Joined(s, n) \in Seq(S) /\ s[n + 1] \in Seq(S)
      BY <1>2, <3>1
    <3>3. Joined(s, n + 1) = Joined(s, n) \o s[n + 1]
      BY <3>1, JoinedNext
    <3>4. Joined(s, n + 1) \in Seq(S)
      BY <3>2, <3>3, TwoJoined
    <3> QED BY <3>4
  <2>2. CASE ~(n + 1 <= Len(s))
    BY <2>2
  <2> QED BY <2>1, <2>2
<1>3. \A n \in Nat : n \in T
  <2> HIDE DEF T
  <2> QED BY <1>1, <1>2, OneByOne
<1> QED BY <1>3

\* a begins with b
Begins(a, b) == Len(b) <= Len(a) /\ \A i \in 1..Len(b) : a[i] = b[i]

\* What more is joined comes after what has been joined.
LEMMA JoinedBegins ==
  ASSUME NEW S, NEW s \in Seq(Seq(S)), NEW m \in Nat, m <= Len(s)
  PROVE  \A n \in m..Len(s) : Begins(Joined(s, n), Joined(s, m))
<1> DEFINE T == {k \in Nat : m + k <= Len(s) => Begins(Joined(s, m + k), Joined(s, m))}
<1>1. 0 \in T
  <2>1. m \in 0..Len(s) /\ m + 0 = m
    OBVIOUS
  <2>2. Joined(s, m) \in Seq(S)
    BY <2>1, JoinedTypes
  <2>3. Begins(Joined(s, m + 0), Joined(s, m))
    BY <2>1, <2>2 DEF Begins
  <2> QED BY <2>3
<1>2. ASSUME NEW k \in Nat, k \in T PROVE k + 1 \in T
  <2>1. CASE m + (k + 1) <= Len(s)
    <3>1. /\ m + (k + 1) \in 1..Len(s) /\ (m + (k + 1)) - 1 = m + k
          /\ m + k \in 0..Len(s) /\ m \in 0..Len(s)
      BY <2>1
    <3>2. Begins(Joined(s, m + k), Joined(s, m))
      BY <1>2, <3>1
    <3>3. /\ Joined(s, m + k) \in Seq(S) /\ Joined(s, m) \in Seq(S)
          /\ s[m + (k + 1)] \in Seq(S)
      BY <3>1, JoinedTypes
    <3>4. Joined(s, m + (k + 1)) = Joined(s, m + k) \o s[m + (k + 1)]
      BY <3>1, JoinedNext
    <3>5. PICK a, b, c, d : /\ a = Joined(s, m + (k + 1)) /\ b = Joined(s, m + k)
                            /\ c = s[m + (k + 1)] /\ d = Joined(s, m)
      OBVIOUS
    <3>6. /\ b \in Seq(S) /\ c \in Seq(S) /\ d \in Seq(S)
          /\ a = b \o c /\ Begins(b, d)
      BY <3>2, <3>3, <3>4, <3>5
    <3>7. Begins(a, d)
      <4>1. /\ Len(a) = Len(b) + Len(c) /\ \A i \in 1..Len(b) : a[i] = b[i]
        BY <3>6, TwoJoined
      <4>2. Len(b) \in Nat /\ Len(c) \in Nat /\ Len(d) \in Nat
        BY <3>6
      <4> QED BY <3>6, <4>1, <4>2 DEF Begins
    <3>8. Begins(Joined(s, m + (k + 1)), Joined(s, m))
      BY <3>5, <3>7
    <3> QED BY <3>8
  <2>2. CASE ~(m + (k + 1) <= Len(s))
    BY <2>2
  <2> QED BY <2>1, <2>2
<1>3. \A k \in Nat : k \in T
  <2> HIDE DEF T
  <2> QED BY <1>1, <1>2, OneByOne
<1>4. ASSUME NEW n \in m..Len(s) PROVE Begins(Joined(s, n), Joined(s, m))
  <2>1. n - m \in Nat /\ m + (n - m) = n /\ n <= Len(s)
    BY <1>4
  <2> QED BY <2>1, <1>3
<1> QED BY <1>4

\* The k-th of the sequences joined has its place in them all joined.
LEMMA JoinedPlace ==
  ASSUME NEW S, NEW s \in Seq(Seq(S)), NEW k \in 1..Len(s)
  PROVE  /\ Joined(s, k - 1) \in Seq(S) /\ FlattenSeq(s) \in Seq(S)
         /\ Len(Joined(s, k)) = Len(Joined(s, k - 1)) + Len(s[k])
         /\ Len(Joined(s, k)) <= Len(FlattenSeq(s))
         /\ \A i \in 1..Len(s[k]) : FlattenSeq(s)[Len(Joined(s, k - 1)) + i] = s[k][i]
<1>1. k - 1 \in 0..Len(s) /\ k \in 0..Len(s) /\ Len(s) \in k..Len(s) /\ k <= Len(s)
      /\ k \in Nat /\ Len(s) \in 0..Len(s)
  OBVIOUS
<1>2. /\ Joined(s, k - 1) \in Seq(S) /\ Joined(s, k) \in Seq(S) /\ Joined(s, Len(s)) \in Seq(S)
      /\ s[k] \in Seq(S)
  BY <1>1, JoinedTypes
<1>3. Joined(s, k) = Joined(s, k - 1) \o s[k]
  BY JoinedNext
<1>4. Begins(Joined(s, Len(s)), Joined(s, k))
  BY <1>1, JoinedBegins
<1>5. s \in Seq(Seq(S)) /\ Joined(s, Len(s)) = FlattenSeq(s)
  BY JoinedAll
<1>6. PICK a, b, c, d : /\ a = Joined(s, k) /\ b = Joined(s, k - 1)
                        /\ c = s[k] /\ d = FlattenSeq(s)
  OBVIOUS
<1>7. /\ a = b \o c /\ a \in Seq(S) /\ b \in Seq(S) /\ c \in Seq(S) /\ d \in Seq(S)
      /\ Begins(d, a)
  BY <1>2, <1>3, <1>4, <1>5, <1>6
<1>8. /\ Len(a) = Len(b) + Len(c) /\ Len(a) <= Len(d)
      /\ \A i \in 1..Len(c) : a[Len(b) + i] = c[i]
      /\ Len(a) \in Nat /\ Len(b) \in Nat /\ Len(c) \in Nat
  BY <1>7, TwoJoined DEF Begins
<1>9. \A i \in 1..Len(c) : d[Len(b) + i] = c[i]
  <2>1. \A i \in 1..Len(c) : Len(b) + i \in 1..Len(a)
    BY <1>8
  <2> QED BY <1>7, <1>8, <2>1 DEF Begins
<1> QED BY <1>6, <1>7, <1>8, <1>9

-----------------------------------------------------------------------------
(* What a server sends, token by token *)

\* Tokens are told apart by their kinds.
LEMMA TokensAre ==
  /\ LF \in Tokens /\ NUL \in Tokens /\ CR \in Tokens
  /\ LF # NUL /\ CR # NUL /\ CR # LF
  /\ \A n \in Nat : /\ Command(n) \in Tokens /\ Command(n).kind = "command"
                    /\ Command(n) # LF /\ Command(n) # CR /\ Command(n) # NUL
                    /\ ContentLength(n) \in Tokens
                    /\ ContentLength(n).kind = "content-length" /\ ContentLength(n).v = n
                    /\ ContentLength(n) # LF /\ ContentLength(n) # CR
                    /\ ContentLength(n) # NUL
  /\ LF.kind # "content-length" /\ CR.kind # "content-length"
BY DEF LF, CR, NUL, Command, ContentLength, Token, Tokens

\* EOLs are newlines.
LEMMA EolsAre ==
  ASSUME NEW n \in Nat
  PROVE  Lfs(n) \in Seq(Tokens) /\ Len(Lfs(n)) = n /\ \A i \in 1..n : Lfs(n)[i] = LF
BY TokensAre DEF Lfs

\* Where a frame has its content-length, where the empty line begins, and how
\* many tokens it has before its body.
SizeAt(item) == IF item.crlf THEN 4 ELSE 3
BlankAt(item) == IF item.sized THEN SizeAt(item) + 1 ELSE 2
HeadSize(item) == BlankAt(item) + (IF item.crlf THEN 3 ELSE 1)

\* e has the tokens of the frame: its head, its body, a NUL, and EOLs
Framed(e, id, item) ==
  /\ \A i \in 1..HeadSize(item) : e[i] = HeadLines(id, item)[i]
  /\ \A i \in 1..Len(item.body) : e[HeadSize(item) + i] = item.body[i]
  /\ e[HeadSize(item) + Len(item.body) + 1] = NUL
  /\ \A i \in 1..item.eols : e[HeadSize(item) + Len(item.body) + 1 + i] = LF

\* after b there are the lines of a head: l is its content-length
Lines(w, b, c, l, sized, crlf) ==
  /\ w[b + 1] = c
  /\ ~crlf /\ ~sized => w[b + 2] = LF /\ w[b + 3] = LF
  /\ ~crlf /\ sized => w[b + 2] = LF /\ w[b + 3] = l /\ w[b + 4] = LF /\ w[b + 5] = LF
  /\ crlf /\ ~sized => w[b + 2] = CR /\ w[b + 3] = LF /\ w[b + 4] = CR /\ w[b + 5] = LF
  /\ crlf /\ sized => /\ w[b + 2] = CR /\ w[b + 3] = LF
                      /\ w[b + 4] = l /\ w[b + 5] = CR /\ w[b + 6] = LF
                      /\ w[b + 7] = CR /\ w[b + 8] = LF
HeadAt(w, b, id, item) ==
  Lines(w, b, Command(id), ContentLength(Len(item.body)), item.sized, item.crlf)

\* There are heads of three sizes.
LEMMA HeadSizeIs ==
  ASSUME NEW item \in Items
  PROVE  /\ HeadSize(item) \in {3, 5, 8} /\ HeadSize(item) \in Nat
         /\ BlankAt(item) \in {2, 4, 5} /\ SizeAt(item) \in {3, 4}
         /\ HeadSize(item) = BlankAt(item) + (IF item.crlf THEN 3 ELSE 1)
         /\ item.sized => BlankAt(item) = SizeAt(item) + 1
         /\ ~item.sized => BlankAt(item) = 2
         /\ SizeAt(item) = IF item.crlf THEN 4 ELSE 3
BY DEF HeadSize, BlankAt, SizeAt, Items

\* One, two or three tokens more.
LEMMA OneMore ==
  ASSUME NEW a \in Seq(Tokens), NEW b \in Seq(Tokens)
  PROVE  Len(b) = 1 =>
           /\ a \o b \in Seq(Tokens) /\ Len(a \o b) = Len(a) + 1
           /\ \A i \in 1..Len(a) : (a \o b)[i] = a[i]
           /\ (a \o b)[Len(a) + 1] = b[1]
<1>1. Len(a \o b) = Len(a) + Len(b) /\ a \o b \in Seq(Tokens)
  OBVIOUS
<1>2. \A i \in 1..Len(a) : (a \o b)[i] = a[i]
  BY TwoJoined
<1>3. ASSUME Len(b) = 1 PROVE (a \o b)[Len(a) + 1] = b[1]
  <2>1. 1 \in 1..Len(b)
    BY <1>3
  <2> QED BY <2>1, TwoJoined
<1> QED BY <1>1, <1>2, <1>3, Zenon

LEMMA TwoMore ==
  ASSUME NEW a \in Seq(Tokens), NEW b \in Seq(Tokens), Len(b) = 2
  PROVE  /\ a \o b \in Seq(Tokens) /\ Len(a \o b) = Len(a) + 2
         /\ \A i \in 1..Len(a) : (a \o b)[i] = a[i]
         /\ (a \o b)[Len(a) + 1] = b[1] /\ (a \o b)[Len(a) + 2] = b[2]
<1>1. 1 \in 1..Len(b) /\ 2 \in 1..Len(b)
  OBVIOUS
<1> QED BY <1>1, TwoJoined

LEMMA ThreeMore ==
  ASSUME NEW a \in Seq(Tokens), NEW b \in Seq(Tokens), Len(b) = 3
  PROVE  /\ a \o b \in Seq(Tokens) /\ Len(a \o b) = Len(a) + 3
         /\ \A i \in 1..Len(a) : (a \o b)[i] = a[i]
         /\ (a \o b)[Len(a) + 1] = b[1] /\ (a \o b)[Len(a) + 2] = b[2]
         /\ (a \o b)[Len(a) + 3] = b[3]
<1>1. 1 \in 1..Len(b) /\ 2 \in 1..Len(b) /\ 3 \in 1..Len(b)
  OBVIOUS
<1>2. Len(a \o b) = Len(a) + Len(b) /\ a \o b \in Seq(Tokens)
  BY TwoJoined
<1>3. \A i \in 1..Len(a) : (a \o b)[i] = a[i]
  BY TwoJoined
<1>4. \A i \in 1..Len(b) : (a \o b)[Len(a) + i] = b[i]
  BY TwoJoined
<1>5. /\ (a \o b)[Len(a) + 1] = b[1] /\ (a \o b)[Len(a) + 2] = b[2]
      /\ (a \o b)[Len(a) + 3] = b[3]
  BY <1>1, <1>4, Zenon
<1> QED BY <1>2, <1>3, <1>5, Zenon

\* The head of a frame has those lines.
LEMMA HeadIs ==
  ASSUME NEW id \in Nat, NEW item \in Items
  PROVE  /\ HeadLines(id, item) \in Seq(Tokens) /\ Len(HeadLines(id, item)) = HeadSize(item)
         /\ HeadAt(HeadLines(id, item), 0, id, item)
<1>1. PICK c, l, first, end, h :
        /\ c = Command(id) /\ l = ContentLength(Len(item.body)) /\ first = <<c>>
        /\ end = LineEnd(item.crlf) /\ h = HeadLines(id, item)
  OBVIOUS
<1>2. c \in Tokens /\ l \in Tokens /\ CR \in Tokens /\ LF \in Tokens
  BY <1>1, TokensAre DEF Items
<1>3. first \in Seq(Tokens) /\ Len(first) = 1 /\ first[1] = c
  BY <1>1, <1>2
<1>4. PICK x : x = first \o end
  OBVIOUS
<1>5. CASE item.sized
  <2>1. PICK line, y, z : line = <<l>> /\ y = line \o end /\ z = x \o y
    OBVIOUS
  <2>2. h = z \o end
    BY <1>1, <1>4, <1>5, <2>1, Zenon DEF HeadLines
  <2>3. line \in Seq(Tokens) /\ Len(line) = 1 /\ line[1] = l
    BY <1>2, <2>1
  <2>4. CASE item.crlf
    <3>1. end \in Seq(Tokens) /\ Len(end) = 2 /\ end[1] = CR /\ end[2] = LF
      BY <1>1, <1>2, <2>4 DEF LineEnd
    <3>2. x \in Seq(Tokens) /\ Len(x) = 3 /\ x[1] = c /\ x[2] = CR /\ x[3] = LF
      <4>1. /\ x \in Seq(Tokens) /\ Len(x) = Len(first) + 2
            /\ (\A i \in 1..Len(first) : x[i] = first[i]) /\ x[Len(first) + 1] = end[1]
            /\ x[Len(first) + 2] = end[2]
        BY <1>3, <3>1, <1>4, TwoMore, Zenon
      <4> QED BY <1>3, <3>1, <4>1
    <3>3. y \in Seq(Tokens) /\ Len(y) = 3 /\ y[1] = l /\ y[2] = CR /\ y[3] = LF
      <4>1. /\ y \in Seq(Tokens) /\ Len(y) = Len(line) + 2
            /\ (\A i \in 1..Len(line) : y[i] = line[i]) /\ y[Len(line) + 1] = end[1]
            /\ y[Len(line) + 2] = end[2]
        BY <2>3, <3>1, <2>1, TwoMore, Zenon
      <4> QED BY <2>3, <3>1, <4>1
    <3>4. /\ z \in Seq(Tokens) /\ Len(z) = 6 /\ z[1] = c /\ z[2] = CR /\ z[3] = LF
          /\ z[4] = l /\ z[5] = CR /\ z[6] = LF
      <4>1. /\ z \in Seq(Tokens) /\ Len(z) = Len(x) + 3
            /\ (\A i \in 1..Len(x) : z[i] = x[i]) /\ z[Len(x) + 1] = y[1]
            /\ z[Len(x) + 2] = y[2] /\ z[Len(x) + 3] = y[3]
        BY <3>2, <3>3, <2>1, ThreeMore, Zenon
      <4> QED BY <3>2, <3>3, <4>1
    <3>5. /\ h \in Seq(Tokens) /\ Len(h) = 8 /\ h[1] = c /\ h[2] = CR /\ h[3] = LF
          /\ h[4] = l /\ h[5] = CR /\ h[6] = LF /\ h[7] = CR /\ h[8] = LF
      <4>1. /\ h \in Seq(Tokens) /\ Len(h) = Len(z) + 2
            /\ (\A i \in 1..Len(z) : h[i] = z[i]) /\ h[Len(z) + 1] = end[1]
            /\ h[Len(z) + 2] = end[2]
        BY <3>4, <3>1, <2>2, TwoMore, Zenon
      <4> QED BY <3>4, <3>1, <4>1
    <3>6. Lines(h, 0, c, l, item.sized, item.crlf)
      BY <1>5, <2>4, <3>5 DEF Lines
    <3>7. HeadSize(item) = 8
      BY <1>5, <2>4 DEF HeadSize, BlankAt, SizeAt
    <3> QED BY <1>1, <3>5, <3>6, <3>7 DEF HeadAt
  <2>5. CASE ~item.crlf
    <3>1. end \in Seq(Tokens) /\ Len(end) = 1 /\ end[1] = LF
      BY <1>1, <1>2, <2>5 DEF LineEnd
    <3>2. x \in Seq(Tokens) /\ Len(x) = 2 /\ x[1] = c /\ x[2] = LF
      <4>1. /\ x \in Seq(Tokens) /\ Len(x) = Len(first) + 1
            /\ (\A i \in 1..Len(first) : x[i] = first[i]) /\ x[Len(first) + 1] = end[1]
        BY <1>3, <3>1, <1>4, OneMore, Zenon
      <4> QED BY <1>3, <3>1, <4>1
    <3>3. y \in Seq(Tokens) /\ Len(y) = 2 /\ y[1] = l /\ y[2] = LF
      <4>1. /\ y \in Seq(Tokens) /\ Len(y) = Len(line) + 1
            /\ (\A i \in 1..Len(line) : y[i] = line[i]) /\ y[Len(line) + 1] = end[1]
        BY <2>3, <3>1, <2>1, OneMore, Zenon
      <4> QED BY <2>3, <3>1, <4>1
    <3>4. /\ z \in Seq(Tokens) /\ Len(z) = 4 /\ z[1] = c /\ z[2] = LF /\ z[3] = l
          /\ z[4] = LF
      <4>1. /\ z \in Seq(Tokens) /\ Len(z) = Len(x) + 2
            /\ (\A i \in 1..Len(x) : z[i] = x[i]) /\ z[Len(x) + 1] = y[1]
            /\ z[Len(x) + 2] = y[2]
        BY <3>2, <3>3, <2>1, TwoMore, Zenon
      <4> QED BY <3>2, <3>3, <4>1
    <3>5. /\ h \in Seq(Tokens) /\ Len(h) = 5 /\ h[1] = c /\ h[2] = LF /\ h[3] = l
          /\ h[4] = LF /\ h[5] = LF
      <4>1. /\ h \in Seq(Tokens) /\ Len(h) = Len(z) + 1
            /\ (\A i \in 1..Len(z) : h[i] = z[i]) /\ h[Len(z) + 1] = end[1]
        BY <3>4, <3>1, <2>2, OneMore, Zenon
      <4> QED BY <3>4, <3>1, <4>1
    <3>6. Lines(h, 0, c, l, item.sized, item.crlf)
      BY <1>5, <2>5, <3>5 DEF Lines
    <3>7. HeadSize(item) = 5
      BY <1>5, <2>5 DEF HeadSize, BlankAt, SizeAt
    <3> QED BY <1>1, <3>5, <3>6, <3>7 DEF HeadAt
  <2> QED BY <2>4, <2>5
<1>6. CASE ~item.sized
  <2>1. PICK z : z = x \o <<>>
    OBVIOUS
  <2>2. h = z \o end
    BY <1>1, <1>4, <1>6, <2>1, Zenon DEF HeadLines
  <2>3. CASE item.crlf
    <3>1. end \in Seq(Tokens) /\ Len(end) = 2 /\ end[1] = CR /\ end[2] = LF
      BY <1>1, <1>2, <2>3 DEF LineEnd
    <3>2. x \in Seq(Tokens) /\ Len(x) = 3 /\ x[1] = c /\ x[2] = CR /\ x[3] = LF
      <4>1. /\ x \in Seq(Tokens) /\ Len(x) = Len(first) + 2
            /\ (\A i \in 1..Len(first) : x[i] = first[i]) /\ x[Len(first) + 1] = end[1]
            /\ x[Len(first) + 2] = end[2]
        BY <1>3, <3>1, <1>4, TwoMore, Zenon
      <4> QED BY <1>3, <3>1, <4>1
    <3>3. z = x
      BY <2>1, <3>2, ConcatEmptySeq
    <3>4. h = x \o end
      BY <2>2, <3>3
    <3>5. /\ h \in Seq(Tokens) /\ Len(h) = 5 /\ h[1] = c /\ h[2] = CR /\ h[3] = LF
          /\ h[4] = CR /\ h[5] = LF
      <4>1. /\ h \in Seq(Tokens) /\ Len(h) = Len(x) + 2
            /\ (\A i \in 1..Len(x) : h[i] = x[i]) /\ h[Len(x) + 1] = end[1]
            /\ h[Len(x) + 2] = end[2]
        BY <3>2, <3>1, <3>4, TwoMore, Zenon
      <4> QED BY <3>2, <3>1, <4>1
    <3>6. Lines(h, 0, c, l, item.sized, item.crlf)
      BY <1>6, <2>3, <3>5 DEF Lines
    <3>7. HeadSize(item) = 5
      BY <1>6, <2>3 DEF HeadSize, BlankAt, SizeAt
    <3> QED BY <1>1, <3>5, <3>6, <3>7 DEF HeadAt
  <2>4. CASE ~item.crlf
    <3>1. end \in Seq(Tokens) /\ Len(end) = 1 /\ end[1] = LF
      BY <1>1, <1>2, <2>4 DEF LineEnd
    <3>2. x \in Seq(Tokens) /\ Len(x) = 2 /\ x[1] = c /\ x[2] = LF
      <4>1. /\ x \in Seq(Tokens) /\ Len(x) = Len(first) + 1
            /\ (\A i \in 1..Len(first) : x[i] = first[i]) /\ x[Len(first) + 1] = end[1]
        BY <1>3, <3>1, <1>4, OneMore, Zenon
      <4> QED BY <1>3, <3>1, <4>1
    <3>3. z = x
      BY <2>1, <3>2, ConcatEmptySeq
    <3>4. h = x \o end
      BY <2>2, <3>3
    <3>5. h \in Seq(Tokens) /\ Len(h) = 3 /\ h[1] = c /\ h[2] = LF /\ h[3] = LF
      <4>1. /\ h \in Seq(Tokens) /\ Len(h) = Len(x) + 1
            /\ (\A i \in 1..Len(x) : h[i] = x[i]) /\ h[Len(x) + 1] = end[1]
        BY <3>2, <3>1, <3>4, OneMore, Zenon
      <4> QED BY <3>2, <3>1, <4>1
    <3>6. Lines(h, 0, c, l, item.sized, item.crlf)
      BY <1>6, <2>4, <3>5 DEF Lines
    <3>7. HeadSize(item) = 3
      BY <1>6, <2>4 DEF HeadSize, BlankAt, SizeAt
    <3> QED BY <1>1, <3>5, <3>6, <3>7 DEF HeadAt
  <2> QED BY <2>3, <2>4
<1> QED BY <1>5, <1>6

\* what is sent of an item when EOLs are newlines, and all of it
LfEncode(id, item) ==
  IF item.frame THEN HeadLines(id, item) \o item.body \o <<NUL>> \o Lfs(item.eols)
  ELSE Lfs(item.eols)

\* An item that is a frame.
LEMMA FrameEncoded ==
  ASSUME NEW id \in Nat, NEW item \in Items, item.frame
  PROVE  /\ LfEncode(id, item) \in Seq(Tokens) /\ Framed(LfEncode(id, item), id, item)
         /\ Len(LfEncode(id, item)) = HeadSize(item) + Len(item.body) + 1 + item.eols
<1>1. /\ item.body \in Seq(Tokens) /\ Len(item.body) \in Nat /\ item.sized \in BOOLEAN
      /\ item.eols \in Nat
  BY DEF Items
<1> DEFINE head == HeadLines(id, item)
<1>2. head \in Seq(Tokens) /\ Len(head) = HeadSize(item)
  BY HeadIs
<1>3. LfEncode(id, item) = ((head \o item.body) \o <<NUL>>) \o Lfs(item.eols)
  BY DEF LfEncode
<1> HIDE DEF head
<1> PICK h, b, n, z : h = head /\ b = item.body /\ n = <<NUL>> /\ z = Lfs(item.eols)
  OBVIOUS
<1>4. /\ h = head /\ b = item.body /\ n = <<NUL>> /\ z = Lfs(item.eols)
      /\ h \in Seq(Tokens) /\ b \in Seq(Tokens) /\ n \in Seq(Tokens) /\ z \in Seq(Tokens)
      /\ Len(n) = 1 /\ n[1] = NUL
  <2>1. z \in Seq(Tokens)
    BY <1>1, EolsAre
  <2> QED BY <1>1, <1>2, <2>1, TokensAre
<1>5. PICK x : x = h \o b
  OBVIOUS
<1>6. /\ x \in Seq(Tokens) /\ Len(x) = Len(h) + Len(b)
      /\ \A i \in 1..Len(h) : x[i] = h[i]
      /\ \A i \in 1..Len(b) : x[Len(h) + i] = b[i]
  BY <1>4, <1>5, TwoJoined
<1>7. PICK y : y = x \o n
  OBVIOUS
<1>8. /\ y \in Seq(Tokens) /\ Len(y) = Len(x) + 1
      /\ \A i \in 1..Len(x) : y[i] = x[i]
      /\ y[Len(x) + 1] = NUL
  <2>1. n \in Seq(Tokens) /\ x \in Seq(Tokens)
    BY <1>4, <1>6
  <2>2. /\ y \in Seq(Tokens) /\ Len(y) = Len(x) + Len(n)
        /\ \A i \in 1..Len(x) : y[i] = x[i]
        /\ \A i \in 1..Len(n) : y[Len(x) + i] = n[i]
    BY <2>1, <1>7, TwoJoined
  <2> QED BY <1>4, <2>2
<1>9. PICK e : e = y \o z
  OBVIOUS
<1>10. /\ e \in Seq(Tokens) /\ Len(e) = Len(y) + Len(z)
       /\ \A i \in 1..Len(y) : e[i] = y[i]
       /\ \A i \in 1..Len(z) : e[Len(y) + i] = z[i]
  <2>1. y \in Seq(Tokens) /\ z \in Seq(Tokens)
    BY <1>4, <1>8
  <2> QED BY <2>1, <1>9, TwoJoined
<1>11. Len(z) = item.eols /\ \A i \in 1..item.eols : z[i] = LF
  BY <1>1, <1>4, EolsAre
<1>12. e = LfEncode(id, item)
  BY <1>3, <1>4, <1>5, <1>7, <1>9
<1>13. HeadSize(item) \in Nat
  BY HeadSizeIs
<1>14. Len(h) \in Nat /\ Len(b) \in Nat /\ Len(x) \in Nat /\ Len(y) \in Nat
  BY <1>4, <1>6, <1>8
<1>15. PICK H, B, Z : H = HeadSize(item) /\ B = Len(item.body) /\ Z = item.eols
  OBVIOUS
<1>16. Len(h) = H /\ Len(b) = B /\ Len(x) = H + B /\ Len(y) = H + B + 1 /\ Len(z) = Z
  BY <1>2, <1>4, <1>6, <1>8, <1>11, <1>15
<1>17. /\ \A i \in 1..H : e[i] = h[i]
       /\ \A i \in 1..B : e[H + i] = b[i]
       /\ e[H + B + 1] = NUL
       /\ \A i \in 1..Z : e[H + B + 1 + i] = LF
  <2>1. H \in Nat /\ B \in Nat /\ Z \in Nat
    BY <1>1, <1>13, <1>15
  <2>2. /\ \A i \in 1..H : x[i] = h[i]
        /\ \A i \in 1..B : x[H + i] = b[i]
        /\ \A i \in 1..(H + B) : y[i] = x[i]
        /\ y[H + B + 1] = NUL
        /\ \A i \in 1..(H + B + 1) : e[i] = y[i]
    BY <1>6, <1>8, <1>10, <1>16
  <2>3. \A i \in 1..Z : e[H + B + 1 + i] = z[i]
    BY <1>10, <1>16
  <2>4. \A i \in 1..Z : z[i] = LF
    BY <1>11, <1>15
  <2>5. \A i \in 1..H : i \in 1..(H + B) /\ i \in 1..(H + B + 1)
    BY <2>1
  <2>6. \A i \in 1..B : H + i \in 1..(H + B) /\ H + i \in 1..(H + B + 1)
    BY <2>1
  <2>7. H + B + 1 \in 1..(H + B + 1)
    BY <2>1
  <2> QED BY <2>2, <2>3, <2>4, <2>5, <2>6, <2>7
<1>18. Framed(e, id, item)
  BY <1>4, <1>15, <1>17 DEF Framed, head
<1>19. Len(e) = H + B + 1 + Z
  BY <1>10, <1>16
<1> QED BY <1>10, <1>12, <1>15, <1>18, <1>19

\* An item that is none.
LEMMA EolsEncoded ==
  ASSUME NEW id \in Nat, NEW item \in Items, ~item.frame
  PROVE  /\ LfEncode(id, item) \in Seq(Tokens) /\ Len(LfEncode(id, item)) = item.eols
         /\ \A i \in 1..item.eols : LfEncode(id, item)[i] = LF
<1>1. item.eols \in Nat
  BY DEF Items
<1>2. LfEncode(id, item) = Lfs(item.eols)
  BY DEF LfEncode
<1> QED BY <1>1, <1>2, EolsAre

\* the tokens of each item
Encodings(c, st) == [i \in DOMAIN st |-> LfEncode(Ids(c, i), st[i])]
Stream(c, st) == FlattenSeq(Encodings(c, st))
\* how many tokens come before item k, and where frame k has its last NUL
Begin(c, st, k) == Len(Joined(Encodings(c, st), k - 1))
End(c, st, k) == Begin(c, st, k) + HeadSize(st[k]) + Len(st[k].body) + 1

\* from a to b there are newlines only
Newlines(w, a, b) == \A i \in (a + 1)..b : w[i] = LF
\* in w the frame begins after b and its last NUL is at e
FrameAt(w, b, e, id, item) ==
  /\ \A i \in 1..HeadSize(item) : w[b + i] = HeadLines(id, item)[i]
  /\ \A i \in 1..Len(item.body) : w[b + HeadSize(item) + i] = item.body[i]
  /\ w[e] = NUL
  /\ e = b + HeadSize(item) + Len(item.body) + 1

\* The stream is made of the items' tokens.
LEMMA EncodingsAre ==
  ASSUME NEW c \in Nat, NEW st \in Seq(Items)
  PROVE  /\ Encodings(c, st) \in Seq(Seq(Tokens)) /\ Len(Encodings(c, st)) = Len(st)
         /\ \A k \in 1..Len(st) : Encodings(c, st)[k] = LfEncode(Ids(c, k), st[k])
         /\ \A k \in 1..Len(st) : Ids(c, k) \in Nat /\ st[k] \in Items
         /\ FlattenSeq(Encodings(c, st)) = Stream(c, st)
<1>1. DOMAIN st = 1..Len(st) /\ Len(st) \in Nat
  OBVIOUS
<1>2. ASSUME NEW k \in 1..Len(st)
      PROVE  Ids(c, k) \in Nat /\ st[k] \in Items /\ LfEncode(Ids(c, k), st[k]) \in Seq(Tokens)
  <2>1. Ids(c, k) \in Nat /\ st[k] \in Items
    BY <1>1 DEF Ids
  <2>2. CASE st[k].frame
    BY <2>1, <2>2, FrameEncoded
  <2>3. CASE ~st[k].frame
    BY <2>1, <2>3, EolsEncoded
  <2> QED BY <2>1, <2>2, <2>3
<1>3. Encodings(c, st) = [k \in 1..Len(st) |-> LfEncode(Ids(c, k), st[k])]
  BY <1>1 DEF Encodings
<1>4. Encodings(c, st) \in Seq(Seq(Tokens)) /\ Len(Encodings(c, st)) = Len(st)
  BY <1>1, <1>2, <1>3
<1>5. \A k \in 1..Len(st) : Encodings(c, st)[k] = LfEncode(Ids(c, k), st[k])
  BY <1>3
<1>6. FlattenSeq(Encodings(c, st)) = Stream(c, st)
  BY DEF Stream
<1> QED BY <1>2, <1>4, <1>5, <1>6

\* Where the items begin in it.
LEMMA BeginsAre ==
  ASSUME NEW c \in Nat, NEW st \in Seq(Items)
  PROVE  /\ Stream(c, st) \in Seq(Tokens)
         /\ Begin(c, st, 1) = 0 /\ Begin(c, st, Len(st) + 1) = Len(Stream(c, st))
         /\ \A k \in 1..(Len(st) + 1) :
              Begin(c, st, k) \in Nat /\ Begin(c, st, k) <= Len(Stream(c, st))
<1>1. PICK s : s = Encodings(c, st)
  OBVIOUS
<1>2. s \in Seq(Seq(Tokens)) /\ Len(s) = Len(st) /\ FlattenSeq(s) = Stream(c, st)
  BY <1>1, EncodingsAre
<1>3. Len(s) \in 0..Len(s) /\ Joined(s, Len(s)) = FlattenSeq(s)
  BY <1>2, JoinedAll
<1>4. FlattenSeq(s) \in Seq(Tokens)
  BY <1>2, <1>3, JoinedTypes
<1>5. Begin(c, st, 1) = 0
  <2>1. 1 - 1 = 0 /\ Joined(s, 0) = <<>> /\ Len(<<>>) = 0
    BY JoinedNone
  <2> QED BY <1>1, <2>1 DEF Begin
<1>6. Begin(c, st, Len(st) + 1) = Len(Stream(c, st))
  <2>1. (Len(st) + 1) - 1 = Len(st)
    OBVIOUS
  <2> QED BY <1>1, <1>2, <1>3, <2>1 DEF Begin
<1>7. ASSUME NEW k \in 1..(Len(st) + 1)
      PROVE  Begin(c, st, k) \in Nat /\ Begin(c, st, k) <= Len(Stream(c, st))
  <2>1. k - 1 \in Nat /\ k - 1 <= Len(s) /\ k - 1 \in 0..Len(s) /\ Len(s) \in (k - 1)..Len(s)
    BY <1>2
  <2>2. Begins(Joined(s, Len(s)), Joined(s, k - 1))
    BY <1>2, <2>1, JoinedBegins
  <2>3. Joined(s, k - 1) \in Seq(Tokens)
    BY <1>2, <2>1, JoinedTypes
  <2>4. Len(Joined(s, k - 1)) \in Nat
    BY <2>3
  <2> QED BY <1>1, <1>2, <1>3, <2>2, <2>4 DEF Begin, Begins
<1> QED BY <1>2, <1>4, <1>5, <1>6, <1>7

\* A frame and the EOLs after it.
LEMMA FramePlace ==
  ASSUME NEW c \in Nat, NEW st \in Seq(Items), NEW k \in 1..Len(st), st[k].frame
  PROVE  /\ FrameAt(Stream(c, st), Begin(c, st, k), End(c, st, k), Ids(c, k), st[k])
         /\ Begin(c, st, k + 1) = End(c, st, k) + st[k].eols
         /\ Newlines(Stream(c, st), End(c, st, k), Begin(c, st, k + 1))
<1>1. PICK s, e, w, item : /\ s = Encodings(c, st) /\ e = LfEncode(Ids(c, k), st[k])
                           /\ w = Stream(c, st) /\ item = st[k]
  OBVIOUS
<1>2. /\ s \in Seq(Seq(Tokens)) /\ Len(s) = Len(st) /\ FlattenSeq(s) = w
      /\ s[k] = e /\ k \in 1..Len(s) /\ item \in Items /\ Ids(c, k) \in Nat
  BY <1>1, EncodingsAre
<1>3. /\ Framed(e, Ids(c, k), item)
      /\ Len(e) = HeadSize(item) + Len(item.body) + 1 + item.eols
  BY <1>1, <1>2, FrameEncoded
<1>4. (k + 1) - 1 = k
  OBVIOUS
<1>5. PICK b : b = Begin(c, st, k)
  OBVIOUS
<1>6. /\ Joined(s, k - 1) \in Seq(Tokens) /\ b = Len(Joined(s, k - 1))
      /\ Begin(c, st, k + 1) = b + Len(e)
      /\ \A i \in 1..Len(e) : w[b + i] = e[i]
  <2>1. /\ Joined(s, k - 1) \in Seq(Tokens)
        /\ Len(Joined(s, k)) = Len(Joined(s, k - 1)) + Len(s[k])
        /\ \A i \in 1..Len(s[k]) : FlattenSeq(s)[Len(Joined(s, k - 1)) + i] = s[k][i]
    BY ZenonT(30), <1>2, JoinedPlace
  <2> QED BY <1>1, <1>2, <1>4, <1>5, <2>1 DEF Begin
<1>7. /\ b \in Nat /\ HeadSize(item) \in Nat /\ Len(item.body) \in Nat /\ item.eols \in Nat
  BY <1>2, <1>6, HeadSizeIs DEF Items
<1>8. PICK H, B, Z : H = HeadSize(item) /\ B = Len(item.body) /\ Z = item.eols
  OBVIOUS
<1>9. H \in Nat /\ B \in Nat /\ Z \in Nat /\ Len(e) = H + B + 1 + Z
  BY <1>3, <1>7, <1>8
<1>10. /\ \A i \in 1..H : w[b + i] = e[i]
       /\ \A i \in 1..B : w[b + (H + i)] = e[H + i]
       /\ w[b + (H + B + 1)] = e[H + B + 1]
       /\ \A i \in 1..Z : w[b + (H + B + 1 + i)] = e[H + B + 1 + i]
  <2>1. /\ \A i \in 1..H : i \in 1..Len(e)
        /\ \A i \in 1..B : H + i \in 1..Len(e)
        /\ H + B + 1 \in 1..Len(e)
        /\ \A i \in 1..Z : H + B + 1 + i \in 1..Len(e)
    BY <1>9
  <2> QED BY <1>6, <2>1
<1>11. FrameAt(w, b, End(c, st, k), Ids(c, k), item)
  <2>1. /\ \A i \in 1..H : w[b + i] = HeadLines(Ids(c, k), item)[i]
        /\ w[b + (H + B + 1)] = NUL
    BY <1>3, <1>8, <1>10 DEF Framed
  <2>2. \A i \in 1..B : w[b + H + i] = item.body[i]
    <3>1. \A i \in 1..B : w[b + (H + i)] = item.body[i]
      BY <1>3, <1>8, <1>10 DEF Framed
    <3>2. \A i \in 1..B : b + (H + i) = b + H + i
      BY <1>7, <1>9
    <3> QED BY <3>1, <3>2
  <2>3. End(c, st, k) = b + H + B + 1 /\ b + (H + B + 1) = b + H + B + 1
    <3>1. End(c, st, k) = b + H + B + 1
      BY <1>1, <1>5, <1>8, Zenon DEF End
    <3>2. b + (H + B + 1) = b + H + B + 1
      BY <1>7, <1>9
    <3> QED BY <3>1, <3>2
  <2> QED BY <1>8, <2>1, <2>2, <2>3 DEF FrameAt
<1>12. Newlines(w, End(c, st, k), Begin(c, st, k + 1))
  <2>1. End(c, st, k) = b + H + B + 1 /\ Begin(c, st, k + 1) = b + H + B + 1 + Z
    <3>1. End(c, st, k) = b + H + B + 1
      BY <1>1, <1>5, <1>8 DEF End
    <3>2. Begin(c, st, k + 1) = b + (H + B + 1 + Z)
      BY <1>6, <1>9
    <3> QED BY <1>7, <1>9, <3>1, <3>2
  <2>2. ASSUME NEW i \in (b + H + B + 1 + 1)..(b + H + B + 1 + Z) PROVE w[i] = LF
    <3>1. PICK j \in 1..Z : i = b + (H + B + 1 + j)
      <4>1. i - (b + H + B + 1) \in 1..Z /\ i = b + (H + B + 1 + (i - (b + H + B + 1)))
        BY <1>7, <1>9
      <4> QED BY <4>1
    <3>2. e[H + B + 1 + j] = LF
      BY <1>3, <1>8 DEF Framed
    <3> QED BY <1>10, <3>1, <3>2
  <2> QED BY <2>1, <2>2 DEF Newlines
<1>13. Begin(c, st, k + 1) = End(c, st, k) + item.eols
  <2>1. End(c, st, k) = b + H + B + 1
    BY <1>1, <1>5, <1>8 DEF End
  <2>2. Begin(c, st, k + 1) = b + (H + B + 1 + Z)
    BY <1>6, <1>9
  <2>3. b + (H + B + 1 + Z) = (b + H + B + 1) + Z
    BY <1>7, <1>9
  <2> QED BY <1>8, <2>1, <2>2, <2>3
<1> QED BY <1>1, <1>5, <1>11, <1>12, <1>13

\* EOLs by themselves.
LEMMA EolsPlace ==
  ASSUME NEW c \in Nat, NEW st \in Seq(Items), NEW k \in 1..Len(st), ~st[k].frame
  PROVE  /\ Begin(c, st, k + 1) = Begin(c, st, k) + st[k].eols
         /\ Newlines(Stream(c, st), Begin(c, st, k), Begin(c, st, k + 1))
<1>1. PICK s, e, w : /\ s = Encodings(c, st) /\ e = LfEncode(Ids(c, k), st[k])
                     /\ w = Stream(c, st)
  OBVIOUS
<1>2. /\ s \in Seq(Seq(Tokens)) /\ Len(s) = Len(st) /\ FlattenSeq(s) = w
      /\ s[k] = e /\ k \in 1..Len(s) /\ st[k] \in Items /\ Ids(c, k) \in Nat
  BY <1>1, EncodingsAre
<1>3. Len(e) = st[k].eols /\ (\A i \in 1..st[k].eols : e[i] = LF) /\ st[k].eols \in Nat
  <2>1. st[k].eols \in Nat
    BY <1>2 DEF Items
  <2>2. /\ Len(LfEncode(Ids(c, k), st[k])) = st[k].eols
        /\ \A i \in 1..st[k].eols : LfEncode(Ids(c, k), st[k])[i] = LF
    BY <1>2, EolsEncoded
  <2> QED BY <1>1, <2>1, <2>2
<1>4. (k + 1) - 1 = k
  OBVIOUS
<1>5. PICK b : b = Begin(c, st, k)
  OBVIOUS
<1>6. /\ Joined(s, k - 1) \in Seq(Tokens) /\ b = Len(Joined(s, k - 1))
      /\ Begin(c, st, k + 1) = b + Len(e)
      /\ \A i \in 1..Len(e) : w[b + i] = e[i]
  <2>1. /\ Joined(s, k - 1) \in Seq(Tokens)
        /\ Len(Joined(s, k)) = Len(Joined(s, k - 1)) + Len(s[k])
        /\ \A i \in 1..Len(s[k]) : FlattenSeq(s)[Len(Joined(s, k - 1)) + i] = s[k][i]
    BY <1>2, JoinedPlace
  <2> QED BY <1>1, <1>2, <1>4, <1>5, <2>1 DEF Begin
<1>7. b \in Nat
  BY <1>6
<1>8. ASSUME NEW i \in (b + 1)..(b + Len(e)) PROVE w[i] = LF
  <2>1. i - b \in 1..Len(e) /\ b + (i - b) = i
    BY <1>3, <1>7
  <2> QED BY <1>3, <1>6, <2>1
<1> QED BY <1>1, <1>3, <1>5, <1>6, <1>8 DEF Newlines

-----------------------------------------------------------------------------
(* What is delivered of it *)

\* what each item is delivered as
Framing(c, st) ==
  [i \in DOMAIN st |-> IF st[i].frame THEN <<[id |-> Ids(c, i), body |-> st[i].body]>> ELSE <<>>]
\* the frames among the first n items, and their EOLs
Frames(c, st, n) == Joined(Framing(c, st), n)
\* the EOLs of each item, and how many the first n have
EolsOf(st) == [i \in DOMAIN st |-> Lfs(st[i].eols)]
EolsUpto(st, n) == Len(Joined(EolsOf(st), n))

\* what process_frame may be given
Deliveries == [id : Nat, body : Seq(Tokens)]

\* A frame is one delivery, EOLs are none.
LEMMA FramingIs ==
  ASSUME NEW c \in Nat, NEW st \in Seq(Items)
  PROVE  /\ Framing(c, st) \in Seq(Seq(Deliveries)) /\ Len(Framing(c, st)) = Len(st)
         /\ \A k \in 1..Len(st) :
              Framing(c, st)[k] = IF st[k].frame THEN <<[id |-> Ids(c, k), body |-> st[k].body]>>
                                  ELSE <<>>
<1> DEFINE part(k) == IF st[k].frame THEN <<[id |-> Ids(c, k), body |-> st[k].body]>> ELSE <<>>
<1>1. DOMAIN st = 1..Len(st) /\ Len(st) \in Nat
  OBVIOUS
<1>2. ASSUME NEW k \in 1..Len(st) PROVE part(k) \in Seq(Deliveries)
  <2>1. [id |-> Ids(c, k), body |-> st[k].body] \in Deliveries
    <3>1. Ids(c, k) \in Nat /\ st[k] \in Items
      BY DEF Ids
    <3> QED BY <3>1 DEF Items, Deliveries
  <2>2. PICK d : d = [id |-> Ids(c, k), body |-> st[k].body]
    OBVIOUS
  <2>3. <<d>> \in Seq(Deliveries) /\ <<>> \in Seq(Deliveries)
    BY <2>1, <2>2
  <2> QED BY <2>2, <2>3
<1>3. Framing(c, st) = [k \in 1..Len(st) |-> part(k)]
  BY <1>1 DEF Framing
<1>4. \A k \in 1..Len(st) : Framing(c, st)[k] = part(k)
  BY <1>3
<1>5. Framing(c, st) \in Seq(Seq(Deliveries)) /\ Len(Framing(c, st)) = Len(st)
  <2> HIDE DEF part
  <2> QED BY <1>1, <1>2, <1>3
<1> QED BY <1>4, <1>5

\* The frames of the first n items begin all the frames.
LEMMA FramesBegin ==
  ASSUME NEW c \in Nat, NEW st \in Seq(Items), NEW n \in 0..Len(st)
  PROVE  /\ Frames(c, st, n) \in Seq(Deliveries)
         /\ Begins(Frames(c, st, Len(st)), Frames(c, st, n))
         /\ Frames(c, st, Len(st)) \in Seq(Deliveries)
<1>1. PICK s : s = Framing(c, st)
  OBVIOUS
<1>2. s \in Seq(Seq(Deliveries)) /\ Len(s) = Len(st)
  BY <1>1, FramingIs
<1>3. n \in Nat /\ n <= Len(s) /\ Len(s) \in n..Len(s) /\ n \in 0..Len(s) /\ Len(s) \in 0..Len(s)
  BY <1>2
<1>4. Begins(Joined(s, Len(s)), Joined(s, n))
  BY <1>2, <1>3, JoinedBegins
<1>5. Joined(s, n) \in Seq(Deliveries) /\ Joined(s, Len(s)) \in Seq(Deliveries)
  BY <1>2, <1>3, JoinedTypes
<1> QED BY <1>1, <1>2, <1>4, <1>5 DEF Frames

\* A frame is the next one delivered.
LEMMA FramesNext ==
  ASSUME NEW c \in Nat, NEW st \in Seq(Items), NEW k \in 1..Len(st)
  PROVE  Frames(c, st, k) =
           IF st[k].frame
           THEN Append(Frames(c, st, k - 1), [id |-> Ids(c, k), body |-> st[k].body])
           ELSE Frames(c, st, k - 1)
<1>1. PICK s : s = Framing(c, st)
  OBVIOUS
<1>2. /\ s \in Seq(Seq(Deliveries)) /\ Len(s) = Len(st)
      /\ s[k] = IF st[k].frame THEN <<[id |-> Ids(c, k), body |-> st[k].body]>> ELSE <<>>
  BY <1>1, FramingIs
<1>3. k \in 1..Len(s) /\ k - 1 \in 0..Len(s)
  BY <1>2
<1>4. PICK f, g, d : f = Joined(s, k) /\ g = Joined(s, k - 1)
                     /\ d = [id |-> Ids(c, k), body |-> st[k].body]
  OBVIOUS
<1>5. f = g \o s[k]
  BY <1>2, <1>3, <1>4, JoinedNext
<1>6. g \in Seq(Deliveries)
  BY <1>2, <1>3, <1>4, JoinedTypes
<1>7. CASE st[k].frame
  <2>1. d \in Deliveries
    <3>1. Ids(c, k) \in Nat /\ st[k] \in Items
      BY DEF Ids
    <3> QED BY <1>4, <3>1 DEF Items, Deliveries
  <2>2. f = g \o <<d>>
    BY <1>2, <1>4, <1>5, <1>7
  <2>3. Append(g, d) = g \o <<d>>
    BY <1>6, <2>1, AppendIsConcat
  <2> QED BY <1>1, <1>4, <1>7, <2>2, <2>3 DEF Frames
<1>8. CASE ~st[k].frame
  <2>1. f = g \o <<>>
    BY <1>2, <1>5, <1>8
  <2>2. f = g
    BY <1>6, <2>1, ConcatEmptySeq
  <2> QED BY <1>1, <1>4, <1>8, <2>2 DEF Frames
<1> QED BY <1>7, <1>8

\* How the EOLs add up.
LEMMA EolsAddUp ==
  ASSUME NEW st \in Seq(Items)
  PROVE  /\ \A k \in 1..Len(st) : EolsUpto(st, k) = EolsUpto(st, k - 1) + st[k].eols
         /\ \A n \in 0..Len(st) :
              EolsUpto(st, n) \in Nat /\ EolsUpto(st, n) <= EolsUpto(st, Len(st))
         /\ EolsUpto(st, Len(st)) = Len(FlattenSeq(EolsOf(st)))
<1>1. PICK s : s = EolsOf(st)
  OBVIOUS
<1>2. /\ s \in Seq(Seq(Tokens)) /\ Len(s) = Len(st)
      /\ \A k \in 1..Len(st) : Len(s[k]) = st[k].eols /\ st[k].eols \in Nat
  <2>1. DOMAIN st = 1..Len(st) /\ Len(st) \in Nat
    OBVIOUS
  <2>2. \A k \in 1..Len(st) : st[k].eols \in Nat
    <3>1. \A k \in 1..Len(st) : st[k] \in Items
      OBVIOUS
    <3> QED BY <3>1 DEF Items
  <2>3. \A k \in 1..Len(st) : Lfs(st[k].eols) \in Seq(Tokens) /\ Len(Lfs(st[k].eols)) = st[k].eols
    BY <2>2, EolsAre
  <2>4. s = [k \in 1..Len(st) |-> Lfs(st[k].eols)]
    BY <1>1, <2>1 DEF EolsOf
  <2> QED BY <2>1, <2>2, <2>3, <2>4
<1>3. ASSUME NEW k \in 1..Len(st) PROVE EolsUpto(st, k) = EolsUpto(st, k - 1) + st[k].eols
  <2>1. k \in 1..Len(s)
    BY <1>2
  <2>2. Len(Joined(s, k)) = Len(Joined(s, k - 1)) + Len(s[k])
    BY <1>2, <2>1, JoinedPlace
  <2> QED BY <1>1, <1>2, <2>2 DEF EolsUpto
<1>4. ASSUME NEW n \in 0..Len(st)
      PROVE  EolsUpto(st, n) \in Nat /\ EolsUpto(st, n) <= EolsUpto(st, Len(st))
  <2>1. n \in Nat /\ n <= Len(s) /\ Len(s) \in n..Len(s) /\ n \in 0..Len(s)
    BY <1>2
  <2>2. Begins(Joined(s, Len(s)), Joined(s, n))
    BY <1>2, <2>1, JoinedBegins
  <2>3. Joined(s, n) \in Seq(Tokens)
    BY <1>2, <2>1, JoinedTypes
  <2>4. Len(Joined(s, n)) \in Nat
    BY <2>3
  <2> QED BY <1>1, <1>2, <2>2, <2>4 DEF EolsUpto, Begins
<1>5. EolsUpto(st, Len(st)) = Len(FlattenSeq(EolsOf(st)))
  BY <1>1, <1>2, JoinedAll DEF EolsUpto
<1> QED BY <1>3, <1>4, <1>5

\* the next frame after the first p items is q, and there are only EOLs before it
NextAfter(c, st, p, q) ==
  /\ q \in (p + 1)..(Len(st) + 1) /\ (q <= Len(st) => st[q].frame)
  /\ Begin(c, st, p + 1) <= Begin(c, st, q)
  /\ Newlines(Stream(c, st), Begin(c, st, p + 1), Begin(c, st, q))
  /\ Frames(c, st, q - 1) = Frames(c, st, p)
  /\ EolsUpto(st, q - 1) = EolsUpto(st, p) + (Begin(c, st, q) - Begin(c, st, p + 1))

\* After all items, and before a frame, there is nothing to skip, ...
LEMMA NextHere ==
  ASSUME NEW c \in Nat, NEW st \in Seq(Items), NEW p \in 0..Len(st),
         p < Len(st) => st[p + 1].frame
  PROVE  NextAfter(c, st, p, p + 1)
<1>1. p + 1 \in 1..(Len(st) + 1) /\ (p + 1) - 1 = p /\ p + 1 \in (p + 1)..(Len(st) + 1)
      /\ (p + 1 <= Len(st) => p < Len(st))
  OBVIOUS
<1>2. Begin(c, st, p + 1) \in Nat
  BY <1>1, BeginsAre
<1>3. EolsUpto(st, p) \in Nat
  BY EolsAddUp
<1>4. PICK b, x : b = Begin(c, st, p + 1) /\ x = EolsUpto(st, p)
  OBVIOUS
<1>5. b <= b /\ x = x + (b - b) /\ Newlines(Stream(c, st), b, b)
  BY <1>2, <1>3, <1>4 DEF Newlines
<1> QED BY <1>1, <1>4, <1>5 DEF NextAfter

\* ... and EOLs by themselves are skipped.
LEMMA NextLater ==
  ASSUME NEW c \in Nat, NEW st \in Seq(Items), NEW p \in 0..Len(st), p < Len(st),
         ~st[p + 1].frame, NEW q, NextAfter(c, st, p + 1, q)
  PROVE  NextAfter(c, st, p, q)
<1>1. PICK k \in 1..Len(st) : k = p + 1 /\ k - 1 = p
  OBVIOUS
<1>2. /\ Begin(c, st, k + 1) = Begin(c, st, k) + st[k].eols
      /\ Newlines(Stream(c, st), Begin(c, st, k), Begin(c, st, k + 1))
  BY <1>1, EolsPlace
<1>3. Frames(c, st, k) = Frames(c, st, k - 1) /\ EolsUpto(st, k) = EolsUpto(st, k - 1) + st[k].eols
  BY <1>1, FramesNext, EolsAddUp
<1>4. /\ q \in (k + 1)..(Len(st) + 1) /\ (q <= Len(st) => st[q].frame)
      /\ Begin(c, st, k + 1) <= Begin(c, st, q)
      /\ Newlines(Stream(c, st), Begin(c, st, k + 1), Begin(c, st, q))
      /\ Frames(c, st, q - 1) = Frames(c, st, k)
      /\ EolsUpto(st, q - 1) = EolsUpto(st, k) + (Begin(c, st, q) - Begin(c, st, k + 1))
  BY <1>1 DEF NextAfter
<1>5. /\ q \in 1..(Len(st) + 1) /\ q \in k..(Len(st) + 1)
      /\ k \in 1..(Len(st) + 1) /\ k + 1 \in 1..(Len(st) + 1) /\ k - 1 \in 0..Len(st)
      /\ st[k] \in Items
  BY <1>4
<1>6. /\ Begin(c, st, q) \in Nat /\ Begin(c, st, k) \in Nat /\ Begin(c, st, k + 1) \in Nat
      /\ st[k].eols \in Nat /\ EolsUpto(st, k - 1) \in Nat
  BY <1>5, BeginsAre, EolsAddUp DEF Items
<1>7. PICK b0, b1, b2, n, e0, e1, e2 :
        /\ b0 = Begin(c, st, k) /\ b1 = Begin(c, st, k + 1) /\ b2 = Begin(c, st, q)
        /\ n = st[k].eols
        /\ e0 = EolsUpto(st, k - 1) /\ e1 = EolsUpto(st, k) /\ e2 = EolsUpto(st, q - 1)
  OBVIOUS
<1>8. /\ b0 \in Nat /\ b1 = b0 + n /\ b1 <= b2 /\ b2 \in Nat /\ n \in Nat
      /\ e1 = e0 + n /\ e2 = e1 + (b2 - b1) /\ e0 \in Nat
  BY <1>2, <1>3, <1>4, <1>6, <1>7
<1>9. b0 <= b2 /\ e2 = e0 + (b2 - b0)
  BY <1>8
<1>10. Newlines(Stream(c, st), b0, b2)
  <2>1. Newlines(Stream(c, st), b0, b1) /\ Newlines(Stream(c, st), b1, b2)
    BY <1>2, <1>4, <1>7
  <2> QED BY <1>8, <2>1 DEF Newlines
<1> QED BY <1>1, <1>3, <1>4, <1>5, <1>7, <1>9, <1>10 DEF NextAfter

\* There always is one, or the end.
LEMMA NextFrame ==
  ASSUME NEW c \in Nat, NEW st \in Seq(Items), NEW p \in 0..Len(st)
  PROVE  \E q : NextAfter(c, st, p, q)
<1> DEFINE T == {d \in Nat : d <= Len(st) => \E q : NextAfter(c, st, Len(st) - d, q)}
<1>1. 0 \in T
  <2>1. Len(st) - 0 = Len(st) /\ Len(st) \in 0..Len(st) /\ ~(Len(st) < Len(st))
    OBVIOUS
  <2>2. NextAfter(c, st, Len(st), Len(st) + 1)
    BY <2>1, NextHere
  <2> QED BY <2>1, <2>2
<1>2. ASSUME NEW d \in Nat, d \in T PROVE d + 1 \in T
  <2>1. CASE d + 1 <= Len(st)
    <3>1. PICK r \in 0..Len(st) : r = Len(st) - (d + 1) /\ r + 1 = Len(st) - d /\ r < Len(st)
      <4>1. /\ Len(st) - (d + 1) \in 0..Len(st) /\ (Len(st) - (d + 1)) + 1 = Len(st) - d
            /\ Len(st) - (d + 1) < Len(st)
        BY <2>1
      <4> QED BY <4>1
    <3>2. CASE st[r + 1].frame
      <4>1. NextAfter(c, st, r, r + 1)
        BY <3>2, NextHere
      <4> QED BY <3>1, <4>1
    <3>3. CASE ~st[r + 1].frame
      <4>1. PICK q : NextAfter(c, st, r + 1, q)
        BY <1>2, <2>1, <3>1
      <4>2. NextAfter(c, st, r, q)
        BY <3>1, <3>3, <4>1, NextLater
      <4> QED BY <3>1, <4>2
    <3> QED BY <3>2, <3>3
  <2>2. CASE ~(d + 1 <= Len(st))
    BY <2>2
  <2> QED BY <2>1, <2>2
<1>3. \A d \in Nat : d \in T
  <2> HIDE DEF T
  <2> QED BY <1>1, <1>2, OneByOne
<1>4. Len(st) - p \in Nat /\ Len(st) - p <= Len(st) /\ Len(st) - (Len(st) - p) = p
  OBVIOUS
<1> QED BY <1>3, <1>4

-----------------------------------------------------------------------------
(* Where a frame ends, and what it says *)

\* The least place is Min's, ...
LEMMA LeastIs ==
  ASSUME NEW n \in Nat, NEW T \in SUBSET (1..n), NEW m \in T, \A x \in T : m <= x
  PROVE  T # {} /\ Min(T) = m
<1>1. Min(T) \in T /\ \A x \in T : Min(T) <= x
  BY MinIs
<1>2. Min(T) \in Nat /\ m \in Nat
  <2>1. T \subseteq Nat
    OBVIOUS
  <2> QED BY <1>1, <2>1
<1>3. Min(T) <= m /\ m <= Min(T)
  BY <1>1
<1> QED BY <1>2, <1>3

\* ... so a token is found where it is first, ...
LEMMA IndexOfIs ==
  ASSUME NEW s \in Seq(Tokens), NEW token, NEW n \in 1..Len(s),
         s[n] = token, \A i \in 1..(n - 1) : s[i] # token
  PROVE  IndexOf(s, token) = n
<1> DEFINE T == {i \in 1..Len(s) : s[i] = token}
<1>1. Len(s) \in Nat /\ T \in SUBSET (1..Len(s)) /\ n \in T
  OBVIOUS
<1>2. \A x \in T : n <= x
  OBVIOUS
<1>3. T # {} /\ Min(T) = n
  <2> HIDE DEF T
  <2> QED BY <1>1, <1>2, LeastIs
<1> QED BY <1>3 DEF IndexOf, SelectInSeq

\* ... or is not there; ...
LEMMA IndexOfNone ==
  ASSUME NEW s \in Seq(Tokens), NEW token, \A i \in 1..Len(s) : s[i] # token
  PROVE  IndexOf(s, token) = 0
<1>1. {i \in 1..Len(s) : s[i] = token} = {}
  OBVIOUS
<1> QED BY <1>1 DEF IndexOf, SelectInSeq

\* ... and what is found is the first.
LEMMA IndexOfFirst ==
  ASSUME NEW s \in Seq(Tokens), NEW token, NEW k \in 1..Len(s), s[k] = token
  PROVE  /\ IndexOf(s, token) \in 1..k /\ s[IndexOf(s, token)] = token
         /\ \A i \in 1..(IndexOf(s, token) - 1) : s[i] # token
<1> DEFINE T == {i \in 1..Len(s) : s[i] = token}
<1>1. Len(s) \in Nat /\ T \in SUBSET (1..Len(s)) /\ k \in T
  OBVIOUS
<1>2. Min(T) \in T /\ \A x \in T : Min(T) <= x
  <2> HIDE DEF T
  <2> QED BY <1>1, MinIs
<1>3. IndexOf(s, token) = Min(T)
  BY <1>1 DEF IndexOf, SelectInSeq
<1>4. PICK m : m = Min(T)
  OBVIOUS
<1>5. m \in 1..Len(s) /\ s[m] = token /\ m <= k
  BY <1>1, <1>2, <1>4
<1>6. \A i \in 1..(m - 1) : s[i] # token
  <2>1. ASSUME NEW i \in 1..(m - 1), s[i] = token PROVE FALSE
    <3>1. i \in T /\ i < m
      BY <1>5, <2>1
    <3> QED BY <1>2, <1>4, <3>1, <1>5
  <2> QED BY <2>1
<1> QED BY <1>3, <1>4, <1>5, <1>6

\* A part of the stream.
LEMMA Window ==
  ASSUME NEW w \in Seq(Tokens), NEW a \in Nat, NEW d \in Nat, a <= d, d <= Len(w)
  PROVE  /\ SubSeq(w, a + 1, d) \in Seq(Tokens) /\ Len(SubSeq(w, a + 1, d)) = d - a
         /\ \A i \in 1..(d - a) : SubSeq(w, a + 1, d)[i] = w[a + i]
         /\ \A i \in 1..(d - a) : w[a + i] \in Tokens
<1>1. \A i \in (a + 1)..d : w[i] \in Tokens
  OBVIOUS
<1>2. /\ SubSeq(w, a + 1, d) \in Seq(Tokens)
      /\ Len(SubSeq(w, a + 1, d)) = IF a + 1 <= d THEN d - (a + 1) + 1 ELSE 0
      /\ \A i \in 1..(d - (a + 1) + 1) : SubSeq(w, a + 1, d)[i] = w[(a + 1) + i - 1]
  BY <1>1, SubSeqProperties
<1> QED BY SMTT(20), <1>1, <1>2

\* a parse of the frame may begin at a: at its command, or at one EOL before
From1(w, a, b) == b \in Nat /\ a \in Nat /\ (b = a \/ (b = a + 1 /\ w[b] = LF))

\* A frame begins with the lines of its head.
LEMMA FrameHead ==
  ASSUME NEW w, NEW b \in Nat, NEW e, NEW id \in Nat, NEW item \in Items,
         FrameAt(w, b, e, id, item)
  PROVE  HeadAt(w, b, id, item)
<1>1. PICK c, l, h, H, sized, crlf :
        /\ c = Command(id) /\ l = ContentLength(Len(item.body)) /\ h = HeadLines(id, item)
        /\ H = HeadSize(item) /\ sized = item.sized /\ crlf = item.crlf
  OBVIOUS
<1>2. Lines(h, 0, c, l, sized, crlf)
  BY <1>1, HeadIs DEF HeadAt
<1>3. \A i \in 1..H : w[b + i] = h[i]
  BY <1>1 DEF FrameAt
<1>4. H = IF crlf THEN IF sized THEN 8 ELSE 5 ELSE IF sized THEN 5 ELSE 3
  BY <1>1 DEF HeadSize, BlankAt, SizeAt
<1>5. Lines(w, b, c, l, sized, crlf)
  BY <1>2, <1>3, <1>4 DEF Lines
<1> QED BY <1>1, <1>5 DEF HeadAt

\* how many tokens the lines have, and where the empty one begins
LinesLen(sized, crlf) == IF crlf THEN IF sized THEN 8 ELSE 5 ELSE IF sized THEN 5 ELSE 3
BlankIn(j, H, crlf) == IF crlf THEN j + H - 3 ELSE j + H - 1
\* m is where the first empty line of s begins
FirstEmpty(s, m, crlf) ==
  m \in BlankLines(s) /\ (s[m] = LF <=> ~crlf) /\ \A x \in BlankLines(s) : m <= x
\* a command and a header are no line ends
Named(c, l) == c # LF /\ c # CR /\ l # LF /\ l # CR /\ CR # LF
\* s has an empty line: the head that begins after j ends there
HeadEnds(s, j, item) == HasPreamble(s) /\ HeadEnd(s) = j + HeadSize(item)

\* Tokens that are equal are the same lines.
LEMMA LinesMoved ==
  ASSUME NEW w, NEW b, NEW s, NEW j, NEW c, NEW l, NEW sized \in BOOLEAN, NEW crlf \in BOOLEAN,
         NEW H, H = LinesLen(sized, crlf),
         Lines(w, b, c, l, sized, crlf), \A i \in 1..H : s[j + i] = w[b + i]
  PROVE  Lines(s, j, c, l, sized, crlf)
<1>1. /\ 1 \in 1..H /\ 2 \in 1..H /\ 3 \in 1..H
      /\ crlf \/ sized => 4 \in 1..H /\ 5 \in 1..H
      /\ crlf /\ sized => 6 \in 1..H /\ 7 \in 1..H /\ 8 \in 1..H
  BY DEF LinesLen
<1>2. /\ s[j + 1] = w[b + 1] /\ s[j + 2] = w[b + 2] /\ s[j + 3] = w[b + 3]
      /\ crlf \/ sized => s[j + 4] = w[b + 4] /\ s[j + 5] = w[b + 5]
      /\ crlf /\ sized =>
           s[j + 6] = w[b + 6] /\ s[j + 7] = w[b + 7] /\ s[j + 8] = w[b + 8]
  BY <1>1, Zenon
<1> QED BY <1>2, Zenon DEF Lines

\* None of them is a NUL.
LEMMA LinesHaveNoNul ==
  ASSUME NEW w, NEW b, NEW c, NEW l, NEW sized \in BOOLEAN, NEW crlf \in BOOLEAN,
         Lines(w, b, c, l, sized, crlf), c # NUL, l # NUL, LF # NUL, CR # NUL
  PROVE  /\ w[b + 1] # NUL /\ w[b + 2] # NUL /\ w[b + 3] # NUL
         /\ crlf \/ sized => w[b + 4] # NUL /\ w[b + 5] # NUL
         /\ crlf /\ sized => w[b + 6] # NUL /\ w[b + 7] # NUL /\ w[b + 8] # NUL
BY Zenon DEF Lines

\* In a sequence that has the lines of a head after j, the first empty line is
\* the one at the end of it.
LEMMA FirstBlank ==
  ASSUME NEW s \in Seq(Tokens), NEW j \in Nat, j <= 1, NEW c, NEW l,
         NEW sized \in BOOLEAN, NEW crlf \in BOOLEAN, Named(c, l),
         Lines(s, j, c, l, sized, crlf), j + LinesLen(sized, crlf) <= Len(s)
  PROVE  FirstEmpty(s, BlankIn(j, LinesLen(sized, crlf), crlf), crlf)
<1> USE DEF LinesLen, BlankIn, Named
<1> PICK H, m : H = LinesLen(sized, crlf) /\ m = BlankIn(j, H, crlf)
  OBVIOUS
<1> SUFFICES m \in BlankLines(s) /\ (s[m] = LF <=> ~crlf) /\ \A x \in BlankLines(s) : m <= x
  BY DEF FirstEmpty
<1> H \in Nat /\ m \in Nat /\ j + H <= Len(s)
  OBVIOUS
<1>1. \A x \in BlankLines(s) :
        /\ x \in 1..(Len(s) - 1)
        /\ s[x + 1] = LF
        /\ s[x] = LF \/ (s[x] = CR /\ s[x + 2] = CR)
  BY DEF BlankLines, IsCrlf
<1>2. /\ \A x \in 1..(Len(s) - 1) : s[x] = LF /\ s[x + 1] = LF => x \in BlankLines(s)
      /\ \A x \in 1..(Len(s) - 3) :
           s[x] = CR /\ s[x + 1] = LF /\ s[x + 2] = CR /\ s[x + 3] = LF => x \in BlankLines(s)
  <2>1. \A x \in 1..(Len(s) - 3) : /\ x \in 1..(Len(s) - 1) /\ x < Len(s) /\ x + 2 < Len(s)
                                   /\ (x + 2) + 1 = x + 3
    OBVIOUS
  <2> QED BY <2>1 DEF BlankLines, IsCrlf
<1>3. Len(s) \in Nat
  OBVIOUS
<1>4. CASE ~crlf /\ ~sized
  <2>1. s[j + 1] = c /\ s[j + 2] = LF /\ s[j + 3] = LF /\ m = j + 2
    BY <1>4 DEF Lines
  <2>2. m \in 1..(Len(s) - 1) /\ m + 1 = j + 3
    BY <1>3, <1>4, <2>1
  <2>3. ASSUME NEW x \in BlankLines(s), x < m PROVE FALSE
    <3>1. x = j \/ x = j + 1
      BY <1>1, <2>1, <2>3
    <3>2. s[x + 1] = LF /\ (s[x] = LF \/ s[x] = CR)
      BY <1>1
    <3> QED BY <2>1, <3>1, <3>2
  <2> QED BY <1>1, <1>2, <1>4, <2>1, <2>2, <2>3
<1>5. CASE ~crlf /\ sized
  <2>1. /\ s[j + 1] = c /\ s[j + 2] = LF /\ s[j + 3] = l /\ s[j + 4] = LF /\ s[j + 5] = LF
        /\ m = j + 4
    BY <1>5 DEF Lines
  <2>2. m \in 1..(Len(s) - 1) /\ m + 1 = j + 5
    BY <1>3, <1>5, <2>1
  <2>3. ASSUME NEW x \in BlankLines(s), x < m PROVE FALSE
    <3>1. x = j \/ x = j + 1 \/ x = j + 2 \/ x = j + 3
      BY <1>1, <2>1, <2>3
    <3>2. s[x + 1] = LF /\ (s[x] = LF \/ s[x] = CR)
      BY <1>1
    <3> QED BY <2>1, <3>1, <3>2
  <2> QED BY <1>1, <1>2, <1>5, <2>1, <2>2, <2>3
<1>6. CASE crlf /\ ~sized
  <2>1. /\ s[j + 1] = c /\ s[j + 2] = CR /\ s[j + 3] = LF /\ s[j + 4] = CR /\ s[j + 5] = LF
        /\ m = j + 2
    BY <1>6 DEF Lines
  <2>2. m \in 1..(Len(s) - 3) /\ m + 1 = j + 3 /\ m + 2 = j + 4 /\ m + 3 = j + 5
    BY <1>3, <1>6, <2>1
  <2>3. ASSUME NEW x \in BlankLines(s), x < m PROVE FALSE
    <3>1. x = j \/ x = j + 1
      BY <1>1, <2>1, <2>3
    <3>2. s[x + 1] = LF /\ (s[x] = LF \/ s[x] = CR)
      BY <1>1
    <3> QED BY <2>1, <3>1, <3>2
  <2> QED BY <1>1, <1>2, <1>6, <2>1, <2>2, <2>3
<1>7. CASE crlf /\ sized
  <2>1. /\ s[j + 1] = c /\ s[j + 2] = CR /\ s[j + 3] = LF /\ s[j + 4] = l
        /\ s[j + 5] = CR /\ s[j + 6] = LF /\ s[j + 7] = CR /\ s[j + 8] = LF /\ m = j + 5
    BY <1>7 DEF Lines
  <2>2. m \in 1..(Len(s) - 3) /\ m + 1 = j + 6 /\ m + 2 = j + 7 /\ m + 3 = j + 8
    BY <1>3, <1>7, <2>1
  <2>3. ASSUME NEW x \in BlankLines(s), x < m PROVE FALSE
    <3>1. x = j \/ x = j + 1 \/ x = j + 2 \/ x = j + 3 \/ x = j + 4
      BY SMTT(20), <1>1, <2>1, <2>3
    <3>2. s[x + 1] = LF /\ (s[x] = LF \/ (s[x] = CR /\ s[x + 2] = CR))
      BY <1>1
    <3> QED BY <2>1, <3>1, <3>2
  <2> QED BY <1>1, <1>2, <1>7, <2>1, <2>2, <2>3
<1> QED BY <1>4, <1>5, <1>6, <1>7

\* The empty line after the head is the first.
LEMMA PreambleEnds ==
  ASSUME NEW w \in Seq(Tokens), NEW a, NEW b, NEW e, NEW id \in Nat, NEW item \in Items,
         From1(w, a, b), FrameAt(w, b, e, id, item),
         NEW f \in Nat, b + HeadSize(item) <= f, f <= Len(w)
  PROVE  /\ HasPreamble(SubSeq(w, a + 1, f))
         /\ PreambleEnd(SubSeq(w, a + 1, f)) = (b - a) + BlankAt(item)
         /\ HeadEnds(SubSeq(w, a + 1, f), b - a, item)
         /\ HeadAt(SubSeq(w, a + 1, f), b - a, id, item)
<1>1. PICK s, H, c, l, sized, crlf :
        /\ s = SubSeq(w, a + 1, f) /\ H = HeadSize(item) /\ sized = item.sized
        /\ crlf = item.crlf /\ c = Command(id) /\ l = ContentLength(Len(item.body))
  OBVIOUS
<1>2. /\ a \in Nat /\ b \in Nat /\ sized \in BOOLEAN /\ crlf \in BOOLEAN /\ b - a \in {0, 1}
      /\ H = IF crlf THEN IF sized THEN 8 ELSE 5 ELSE IF sized THEN 5 ELSE 3
      /\ BlankAt(item) = (IF crlf THEN H - 3 ELSE H - 1)
  BY <1>1 DEF From1, HeadSize, BlankAt, SizeAt, Items
<1>3. H \in Nat /\ a <= f
  BY <1>1, <1>2
<1>4. s \in Seq(Tokens) /\ Len(s) = f - a /\ \A i \in 1..(f - a) : s[i] = w[a + i]
  BY <1>1, <1>2, <1>3, Window
<1>5. PICK j \in {0, 1} : b = a + j /\ j = b - a
  BY <1>2
<1>6. \A i \in 1..H : s[j + i] = w[b + i]
  <2>1. ASSUME NEW i \in 1..H PROVE j + i \in 1..(f - a) /\ a + (j + i) = b + i
    BY <1>1, <1>2, <1>3, <1>5
  <2> QED BY <1>4, <2>1
<1>7. Lines(s, j, c, l, sized, crlf)
  <2>1. Lines(w, b, c, l, sized, crlf)
    BY <1>1, <1>2, FrameHead DEF HeadAt
  <2>2. sized \in BOOLEAN /\ crlf \in BOOLEAN /\ H = LinesLen(sized, crlf)
    BY <1>2 DEF LinesLen
  <2> QED BY <1>6, <2>1, <2>2, LinesMoved
<1>8. c # LF /\ c # CR /\ l # LF /\ l # CR /\ CR # LF
  <2>1. Len(item.body) \in Nat
    BY DEF Items
  <2> QED BY <1>1, <2>1, TokensAre
<1>9. PICK m : m = j + BlankAt(item)
  OBVIOUS
<1>10. m \in Nat /\ m = (IF crlf THEN j + H - 3 ELSE j + H - 1) /\ j + H <= Len(s)
  <2>1. j \in Nat /\ H \in {3, 5, 8} /\ (crlf => H \in {5, 8})
    BY <1>2
  <2>2. m = (IF crlf THEN j + H - 3 ELSE j + H - 1)
    BY <1>2, <1>3, <1>9, <2>1
  <2>3. m \in Nat
    BY <2>1, <2>2
  <2>4. j + H <= Len(s)
    BY <1>1, <1>2, <1>3, <1>4, <1>5, <2>1
  <2> QED BY <2>2, <2>3, <2>4
<1>11. /\ m \in BlankLines(s) /\ (s[m] = LF <=> ~crlf)
       /\ \A x \in BlankLines(s) : m <= x
  <2>1. /\ j \in Nat /\ j <= 1 /\ s \in Seq(Tokens) /\ sized \in BOOLEAN /\ crlf \in BOOLEAN
    BY <1>2, <1>3, <1>4
  <2>2. Named(c, l)
    BY <1>8 DEF Named
  <2>3. H = LinesLen(sized, crlf) /\ m = BlankIn(j, H, crlf) /\ j + H <= Len(s)
    BY <1>2, <1>10 DEF LinesLen, BlankIn
  <2>4. FirstEmpty(s, BlankIn(j, H, crlf), crlf)
    BY <1>7, <2>1, <2>2, <2>3, FirstBlank
  <2> QED BY <2>3, <2>4 DEF FirstEmpty
<1>12. BlankLines(s) # {} /\ Min(BlankLines(s)) = m
  <2>1. BlankLines(s) \in SUBSET (1..Len(s)) /\ Len(s) \in Nat
    BY <1>4 DEF BlankLines
  <2> QED BY <1>11, <2>1, LeastIs
<1>13. HasPreamble(s) /\ PreambleEnd(s) = m
  BY <1>12 DEF HasPreamble, PreambleEnd
<1>14. HeadEnd(s) = j + H
  <2>1. HeadEnd(s) = m + (IF crlf THEN 3 ELSE 1)
    BY <1>2, <1>11, <1>13 DEF HeadEnd
  <2> QED BY <1>2, <1>3, <1>10, <2>1
<1> QED BY <1>1, <1>5, <1>7, <1>9, <1>13, <1>14 DEF HeadAt, HeadEnds

\* The first tokens of a sequence.
LEMMA FirstTokens ==
  ASSUME NEW s \in Seq(Tokens), NEW n \in Nat, n <= Len(s)
  PROVE  /\ SubSeq(s, 1, n) \in Seq(Tokens) /\ Len(SubSeq(s, 1, n)) = n
         /\ \A i \in 1..n : SubSeq(s, 1, n)[i] = s[i]
OBVIOUS

\* the preamble of s: j EOLs, and the head up to its empty line
HeadOf(s, j, id, item) ==
  LET p == Preamble(s) IN
  /\ p \in Seq(Tokens) /\ Len(p) = j + BlankAt(item) - 1
  /\ p[j + 1] = Command(id) /\ (j = 1 => p[1] = LF)
  /\ item.sized =>
       /\ p[j + SizeAt(item)] = ContentLength(Len(item.body))
       /\ s[j + SizeAt(item)] = ContentLength(Len(item.body))
       /\ IF item.crlf THEN p[j + 2] = CR /\ p[j + 3] = LF ELSE p[j + 2] = LF

\* What comes before it: an EOL perhaps, the command, the header.
LEMMA PreambleIs ==
  ASSUME NEW w \in Seq(Tokens), NEW a, NEW b, NEW e, NEW id \in Nat, NEW item \in Items,
         From1(w, a, b), FrameAt(w, b, e, id, item),
         NEW f \in Nat, b + HeadSize(item) <= f, f <= Len(w)
  PROVE  HeadOf(SubSeq(w, a + 1, f), b - a, id, item)
<1>0. PICK s, p, j, H, B : /\ s = SubSeq(w, a + 1, f) /\ p = Preamble(s) /\ j = b - a
                           /\ H = HeadSize(item) /\ B = BlankAt(item)
  OBVIOUS
<1>1. PICK c, l, sized, crlf : /\ c = Command(id) /\ l = ContentLength(Len(item.body))
                               /\ sized = item.sized /\ crlf = item.crlf
  OBVIOUS
<1>2. /\ a \in Nat /\ b \in Nat /\ H \in Nat /\ B \in Nat /\ B >= 2 /\ H = B + (IF crlf THEN 3 ELSE 1)
      /\ sized => B = (IF crlf THEN 5 ELSE 4)
      /\ sized \in BOOLEAN /\ crlf \in BOOLEAN
  <2>1. a \in Nat /\ b \in Nat /\ sized \in BOOLEAN /\ crlf \in BOOLEAN
    BY <1>1 DEF From1, Items
  <2> QED BY SMTT(20), <1>0, <1>1, <2>1, HeadSizeIs
<1>3. j \in {0, 1} /\ b = a + j
  BY <1>0, <1>2 DEF From1
<1>4. a <= f
  BY SMTT(20), <1>0, <1>2, <1>3
<1>5. s \in Seq(Tokens) /\ Len(s) = f - a /\ \A i \in 1..(f - a) : s[i] = w[a + i]
  BY SMTT(20), <1>0, <1>2, <1>4, Window
<1>6. HasPreamble(s) /\ PreambleEnd(s) = j + B /\ Lines(s, j, c, l, sized, crlf)
  <2>1. /\ HasPreamble(SubSeq(w, a + 1, f))
        /\ PreambleEnd(SubSeq(w, a + 1, f)) = (b - a) + BlankAt(item)
        /\ HeadAt(SubSeq(w, a + 1, f), b - a, id, item)
    BY PreambleEnds
  <2> QED BY <1>0, <1>1, <2>1 DEF HeadAt
<1>7. PICK n : n = j + B - 1 /\ n \in 1..(f - a) /\ (j + B) - 1 = n
  <2>1. j + B - 1 \in 1..(f - a) /\ (j + B) - 1 = j + B - 1
    <3>1. b + H <= f
      BY <1>0
    <3> QED BY <1>2, <1>3, <3>1
  <2> QED BY <2>1
<1>8. p = SubSeq(s, 1, n)
  BY <1>0, <1>6, <1>7 DEF Preamble
<1>9. p \in Seq(Tokens) /\ Len(p) = n /\ \A i \in 1..n : p[i] = s[i]
  <2>1. n \in Nat /\ n <= Len(s)
    BY <1>2, <1>5, <1>7
  <2>2. /\ SubSeq(s, 1, n) \in Seq(Tokens) /\ Len(SubSeq(s, 1, n)) = n
        /\ \A i \in 1..n : SubSeq(s, 1, n)[i] = s[i]
    BY <1>5, <2>1, FirstTokens
  <2> QED BY <1>8, <2>2
<1>10. p[j + 1] = c
  <2>1. j + 1 \in 1..n
    BY <1>2, <1>3, <1>7
  <2> QED BY <1>6, <1>9, <2>1 DEF Lines
<1>11. j = 1 => p[1] = LF
  <2>1. j = 1 => 1 \in 1..n /\ 1 \in 1..(f - a) /\ a + 1 = b /\ b # a
    BY <1>2, <1>3, <1>7
  <2> QED BY <1>5, <1>9, <2>1 DEF From1
<1>12. ASSUME sized
       PROVE  LET k == IF crlf THEN 4 ELSE 3
              IN p[j + k] = l /\ s[j + k] = l
                 /\ IF crlf THEN p[j + 2] = CR /\ p[j + 3] = LF ELSE p[j + 2] = LF
  <2>1. CASE crlf
    <3>1. j + 2 \in 1..n /\ j + 3 \in 1..n /\ j + 4 \in 1..n
      BY <1>2, <1>3, <1>7, <1>12, <2>1
    <3>2. s[j + 2] = CR /\ s[j + 3] = LF /\ s[j + 4] = l
      BY <1>6, <1>12, <2>1 DEF Lines
    <3> QED BY <1>9, <2>1, <3>1, <3>2
  <2>2. CASE ~crlf
    <3>1. j + 2 \in 1..n /\ j + 3 \in 1..n
      BY <1>2, <1>3, <1>7, <1>12, <2>2
    <3>2. s[j + 2] = LF /\ s[j + 3] = l
      BY <1>6, <1>12, <2>2 DEF Lines
    <3> QED BY <1>9, <2>2, <3>1, <3>2
  <2> QED BY <2>1, <2>2
<1>13. HeadOf(s, j, id, item)
  BY <1>0, <1>1, <1>7, <1>9, <1>10, <1>11, <1>12 DEF HeadOf, SizeAt
<1> QED BY <1>0, <1>13

\* The length the header gives reaches to the last NUL.
LEMMA SizeIs ==
  ASSUME NEW w \in Seq(Tokens), NEW a, NEW b, NEW e, NEW id \in Nat, NEW item \in Items,
         From1(w, a, b), FrameAt(w, b, e, id, item),
         NEW f \in Nat, b + HeadSize(item) <= f, f <= Len(w)
  PROVE  Size(SubSeq(w, a + 1, f)) = IF item.sized THEN e - 1 - a ELSE 0
<1>1. PICK s, p, H, k, n : /\ s = SubSeq(w, a + 1, f) /\ p = Preamble(s)
                           /\ H = HeadSize(item) /\ k = SizeAt(item) /\ n = Len(item.body)
  OBVIOUS
<1>2. /\ a \in Nat /\ b \in Nat /\ H \in Nat /\ k \in {3, 4} /\ n \in Nat
      /\ e = b + H + n + 1 /\ item.sized \in BOOLEAN
      /\ k = (IF item.crlf THEN 4 ELSE 3)
  <2>1. a \in Nat /\ b \in Nat /\ n \in Nat /\ e = b + H + n + 1 /\ item.sized \in BOOLEAN
    BY <1>1 DEF From1, Items, FrameAt
  <2> QED BY <1>1, <2>1, HeadSizeIs
<1>3. PICK j \in {0, 1} : b = a + j /\ b - a = j
  BY <1>2 DEF From1
<1>4. /\ p \in Seq(Tokens) /\ Len(p) = (IF item.sized THEN j + k ELSE j + 1)
      /\ p[j + 1] = Command(id) /\ (j = 1 => p[1] = LF)
      /\ item.sized =>
           /\ p[j + k] = ContentLength(n) /\ s[j + k] = ContentLength(n)
           /\ IF item.crlf THEN p[j + 2] = CR /\ p[j + 3] = LF ELSE p[j + 2] = LF
  <2>1. HeadOf(s, j, id, item)
    BY <1>1, <1>3, PreambleIs
  <2>2. j + BlankAt(item) - 1 = IF item.sized THEN j + k ELSE j + 1
    <3>1. BlankAt(item) = IF item.sized THEN k + 1 ELSE 2
      BY <1>1 DEF BlankAt
    <3> QED BY <1>2, <3>1
  <2> QED BY <1>1, <2>1, <2>2 DEF HeadOf
<1>5. HasPreamble(s) /\ HeadEnd(s) = j + H
  <2>1. HeadEnds(s, j, item)
    BY ZenonT(30), <1>1, <1>3, PreambleEnds
  <2> QED BY <1>1, <2>1 DEF HeadEnds
<1>6. /\ LF.kind # "content-length" /\ CR.kind # "content-length"
      /\ Command(id).kind # "content-length"
      /\ ContentLength(n).kind = "content-length" /\ ContentLength(n).v = n
  BY <1>2, TokensAre
<1> DEFINE T == {i \in 1..Len(p) : p[i].kind = "content-length"}
           header == IF T # {} THEN Min(T) ELSE 0
<1>7. Size(s) = IF header # 0 THEN j + H + s[header].v ELSE 0
  BY <1>1, <1>5 DEF Size, SelectInSeq
<1>8. CASE item.sized
  <2>1. j + k \in T /\ \A x \in T : j + k <= x
    <3>1. Len(p) = j + k /\ j + k \in 1..Len(p)
      BY <1>2, <1>4, <1>8
    <3>2. p[j + k].kind = "content-length"
      BY <1>4, <1>6, <1>8
    <3>3. ASSUME NEW x \in T, x < j + k PROVE FALSE
      <4>1. (x = j /\ j = 1) \/ x = j + 1 \/ x = j + 2 \/ (k = 4 /\ x = j + 3)
        BY <1>2, <3>1, <3>3
      <4>2. p[x] = LF \/ p[x] = Command(id) \/ p[x] = CR
        BY SMTT(20), <1>2, <1>4, <1>8, <4>1
      <4> QED BY <1>6, <3>3, <4>2
    <3>4. \A x \in T : x \in Int
      OBVIOUS
    <3> QED BY <3>1, <3>2, <3>3, <3>4
  <2>2. header = j + k
    <3>1. T \in SUBSET (1..Len(p)) /\ Len(p) \in Nat
      BY <1>4
    <3>2. T # {} /\ Min(T) = j + k
      <4> HIDE DEF T
      <4> QED BY <2>1, <3>1, LeastIs
    <3> QED BY <3>2
  <2>3. s[header].v = n
    BY <1>4, <1>6, <1>8, <2>2
  <2> HIDE DEF header
  <2>4. Size(s) = j + H + n
    <3>1. header # 0
      BY <1>2, <2>2
    <3> QED BY <1>7, <2>3, <3>1
  <2>5. j + H + n = e - 1 - a
    BY <1>2, <1>3
  <2> QED BY <1>1, <1>8, <2>4, <2>5
<1>9. CASE ~item.sized
  <2>1. T = {}
    <3>1. ASSUME NEW x \in T PROVE FALSE
      <4>1. (x = j /\ j = 1) \/ x = j + 1
        BY <1>2, <1>4, <1>9, <3>1
      <4>2. p[x] = LF \/ p[x] = Command(id)
        BY <1>4, <4>1
      <4> QED BY <1>6, <3>1, <4>2
    <3> QED BY <3>1
  <2> QED BY <1>1, <1>7, <1>9, <2>1
<1> QED BY <1>8, <1>9

\* A sequence of one token.
LEMMA OneToken ==
  ASSUME NEW l \in Seq(Tokens), Len(l) = 1
  PROVE  l = <<l[1]>>
OBVIOUS

\* One token of a sequence.
LEMMA OneAt ==
  ASSUME NEW p \in Seq(Tokens), NEW n \in 1..Len(p)
  PROVE  SubSeq(p, n, n) = <<p[n]>>
<1>1. PICK m : m = SubSeq(p, n, n)
  OBVIOUS
<1>2. m \in Seq(Tokens) /\ Len(m) = 1 /\ m[1] = p[n]
  BY <1>1
<1>3. m = <<m[1]>>
  BY <1>2, OneToken
<1> QED BY <1>1, <1>2, <1>3

\* The command is the first line of the head, ...
LEMMA CommandIs ==
  ASSUME NEW w \in Seq(Tokens), NEW a, NEW b, NEW e, NEW id \in Nat, NEW item \in Items,
         From1(w, a, b), FrameAt(w, b, e, id, item),
         NEW f \in Nat, b + HeadSize(item) <= f, f <= Len(w)
  PROVE  CommandLine(SubSeq(w, a + 1, f)) = <<Command(id)>>
<1>1. PICK s, p, k, c : /\ s = SubSeq(w, a + 1, f) /\ p = Preamble(s)
                        /\ k = SizeAt(item) /\ c = Command(id)
  OBVIOUS
<1>2. /\ a \in Nat /\ b \in Nat /\ k = (IF item.crlf THEN 4 ELSE 3)
      /\ item.sized \in BOOLEAN /\ item.crlf \in BOOLEAN
  BY <1>1 DEF From1, SizeAt, Items
<1>3. PICK j \in {0, 1} : b = a + j /\ b - a = j
  BY <1>2 DEF From1
<1>4. /\ p \in Seq(Tokens) /\ Len(p) = (IF item.sized THEN j + k ELSE j + 1)
      /\ p[j + 1] = c /\ (j = 1 => p[1] = LF)
      /\ item.sized => IF item.crlf THEN p[j + 2] = CR /\ p[j + 3] = LF ELSE p[j + 2] = LF
  <2>1. HeadOf(s, j, id, item)
    BY <1>1, <1>3, PreambleIs
  <2>2. j + BlankAt(item) - 1 = IF item.sized THEN j + k ELSE j + 1
    <3>1. BlankAt(item) = IF item.sized THEN k + 1 ELSE 2
      BY <1>1 DEF BlankAt
    <3> QED BY <1>2, <3>1
  <2> QED BY <1>1, <2>1, <2>2 DEF HeadOf
<1>5. c # LF /\ c # CR /\ Len(p) \in Nat
  BY <1>1, <1>4, TokensAre
<1> DEFINE T == {i \in DOMAIN p : ~InLineEnd(p, i)}
           A == {i \in Min(T)..Len(p) : InLineEnd(p, i)}
<1>6. CommandLine(s) =
        IF T = {} THEN <<>>
        ELSE SubSeq(p, Min(T), (IF A = {} THEN Len(p) ELSE Min(A) - 1))
  BY <1>1 DEF CommandLine
<1>7. \A i \in 1..Len(p) : /\ p[i] = LF => InLineEnd(p, i)
                           /\ i < Len(p) /\ p[i] = CR /\ p[i + 1] = LF => InLineEnd(p, i)
                           /\ p[i] # LF /\ p[i] # CR => ~InLineEnd(p, i)
  BY DEF InLineEnd, IsCrlf
<1>8. j + 1 \in 1..Len(p)
  BY <1>2, <1>4
<1>9. T # {} /\ Min(T) = j + 1
  <2>1. j + 1 \in T
    BY <1>4, <1>5, <1>7, <1>8
  <2>2. ASSUME NEW x \in T, x < j + 1 PROVE FALSE
    <3>1. x \in 1..Len(p) /\ ~InLineEnd(p, x)
      BY <1>4
    <3>2. x = 1 /\ j = 1
      BY <2>2, <3>1
    <3> QED BY <1>4, <1>7, <3>1, <3>2
  <2>3. T \in SUBSET (1..Len(p)) /\ \A x \in T : x \in Int
    BY <1>4
  <2>4. \A x \in T : j + 1 <= x
    <3> HIDE DEF T
    <3> QED BY <2>2, <2>3
  <2> HIDE DEF T
  <2> QED BY <1>5, <2>1, <2>3, <2>4, LeastIs
<1> HIDE DEF T
<1>10. CASE item.sized
  <2>1. j + 2 \in 1..Len(p) /\ InLineEnd(p, j + 2)
    <3>1. j + 2 \in 1..Len(p) /\ j + 2 < Len(p) /\ (j + 2) + 1 = j + 3
      BY <1>2, <1>4, <1>10
    <3>2. p[j + 2] = LF \/ (p[j + 2] = CR /\ p[j + 3] = LF)
      BY <1>2, <1>4, <1>10
    <3> QED BY <1>7, <3>1, <3>2
  <2>2. j + 2 \in A
    <3>1. j + 2 \in (j + 1)..Len(p)
      BY <1>5, <2>1
    <3> QED BY <1>9, <2>1, <3>1
  <2>3. \A x \in A : x \in (j + 1)..Len(p) /\ x # j + 1
    BY <1>4, <1>5, <1>7, <1>8, <1>9
  <2>4. \A x \in A : j + 2 <= x /\ x \in 1..Len(p)
    <3> HIDE DEF A
    <3> QED BY <1>5, <2>3
  <2>5. A # {} /\ Min(A) = j + 2
    <3> HIDE DEF A
    <3>1. A \in SUBSET (1..Len(p))
      BY <2>4
    <3> QED BY <1>5, <2>2, <2>4, <3>1, LeastIs
  <2> HIDE DEF A
  <2>6. CommandLine(s) = SubSeq(p, j + 1, (j + 2) - 1) /\ (j + 2) - 1 = j + 1
    BY <1>6, <1>9, <2>5
  <2>7. CommandLine(s) = SubSeq(p, j + 1, j + 1)
    BY <2>6
  <2> QED BY <1>1, <1>4, <1>8, <2>7, OneAt
<1>11. CASE ~item.sized
  <2>1. Len(p) = j + 1
    BY <1>4, <1>11
  <2>2. A = {}
    <3>1. ~InLineEnd(p, j + 1)
      BY <1>4, <1>5, <1>7, <1>8
    <3>2. \A i \in (j + 1)..Len(p) : i = j + 1
      BY <2>1
    <3> QED BY <1>9, <3>1, <3>2
  <2> HIDE DEF A
  <2>3. CommandLine(s) = SubSeq(p, j + 1, j + 1)
    BY <1>6, <1>9, <2>1, <2>2
  <2> QED BY <1>1, <1>4, <1>8, <2>3, OneAt
<1> QED BY <1>10, <1>11

\* ... and the body is what follows the head.
LEMMA BodyIs ==
  ASSUME NEW w \in Seq(Tokens), NEW a, NEW b, NEW e, NEW id \in Nat, NEW item \in Items,
         From1(w, a, b), FrameAt(w, b, e, id, item), e <= Len(w)
  PROVE  Body(SubSeq(w, a + 1, e - 1)) = item.body
<1>1. PICK s, H, n : s = SubSeq(w, a + 1, e - 1) /\ H = HeadSize(item) /\ n = Len(item.body)
  OBVIOUS
<1>2. /\ a \in Nat /\ b \in Nat /\ H \in Nat /\ n \in Nat /\ item.body \in Seq(Tokens)
      /\ e = b + H + n + 1
  BY <1>1, HeadSizeIs DEF From1, Items, FrameAt
<1>3. PICK j \in {0, 1} : b = a + j /\ b - a = j
  BY <1>2 DEF From1
<1>4. /\ e - 1 \in Nat /\ b + H <= e - 1 /\ e - 1 <= Len(w) /\ a <= e - 1
      /\ (e - 1) - a = j + H + n
  BY <1>2, <1>3
<1>5. HasPreamble(s) /\ HeadEnd(s) = j + H
  <2>1. PICK f \in Nat : f = e - 1 /\ b + HeadSize(item) <= f /\ f <= Len(w)
    BY <1>1, <1>4
  <2>2. HeadEnds(SubSeq(w, a + 1, f), b - a, item)
    BY <2>1, PreambleEnds
  <2> QED BY <1>1, <1>3, <2>1, <2>2 DEF HeadEnds
<1>6. s \in Seq(Tokens) /\ Len(s) = j + H + n /\ \A i \in 1..(j + H + n) : s[i] = w[a + i]
  <2>1. PICK f : f = e - 1
    OBVIOUS
  <2>2. s = SubSeq(w, a + 1, f) /\ f \in Nat /\ a <= f /\ f <= Len(w) /\ f - a = j + H + n
    BY <1>1, <1>4, <2>1
  <2> QED BY <1>2, <2>2, Window
<1>7. PICK k : k = j + H /\ k \in Nat
  BY <1>2
<1>8. Body(s) = SubSeq(s, k + 1, k + n)
  BY <1>5, <1>6, <1>7 DEF Body, From
<1>9. PICK t : t = Body(s)
  OBVIOUS
<1>10. t \in Seq(Tokens) /\ Len(t) = n /\ \A i \in 1..n : t[i] = s[k + i]
  <2>1. t = SubSeq(s, k + 1, k + n) /\ Len(s) = k + n /\ k \in Nat /\ n \in Nat
    BY <1>2, <1>6, <1>7, <1>8, <1>9
  <2>2. PICK z : z = k + n
    OBVIOUS
  <2>3. t = SubSeq(s, k + 1, z) /\ k <= z /\ z \in Nat /\ z <= Len(s) /\ z - k = n
    BY <2>1, <2>2
  <2> QED BY <1>6, <2>1, <2>3, Window
<1>11. \A i \in 1..n : s[k + i] = item.body[i]
  <2>1. ASSUME NEW i \in 1..n PROVE s[k + i] = item.body[i]
    <3>1. k + i \in 1..(j + H + n) /\ a + (k + i) = b + H + i
      BY <1>2, <1>3, <1>7
    <3> QED BY <1>1, <1>6, <3>1 DEF FrameAt
  <2> QED BY <2>1
<1>12. t = item.body
  <2>1. \A i \in 1..n : t[i] = item.body[i]
    BY <1>10, <1>11
  <2>2. Len(item.body) = n
    BY <1>1
  <2> QED BY <1>2, <1>10, <2>1, <2>2, SeqEqual
<1> QED BY <1>1, <1>9, <1>12

\* A part of a part is a part.
LEMMA WindowOfWindow ==
  ASSUME NEW w \in Seq(Tokens), NEW a \in Nat, NEW d \in Nat, a <= d, d <= Len(w),
         NEW m \in 0..(d - a)
  PROVE  SubSeq(SubSeq(w, a + 1, d), 1, m) = SubSeq(w, a + 1, a + m)
<1>1. PICK s, f : s = SubSeq(w, a + 1, d) /\ f = a + m
  OBVIOUS
<1>2. s \in Seq(Tokens) /\ Len(s) = d - a /\ \A i \in 1..(d - a) : s[i] = w[a + i]
  BY <1>1, Window
<1>3. f \in Nat /\ a <= f /\ f <= Len(w) /\ f - a = m /\ m \in Nat /\ m <= Len(s)
  BY <1>1, <1>2
<1>4. PICK t, u : t = SubSeq(w, a + 1, f) /\ u = SubSeq(s, 1, m)
  OBVIOUS
<1>5. t \in Seq(Tokens) /\ Len(t) = m /\ \A i \in 1..m : t[i] = w[a + i]
  BY <1>3, <1>4, Window
<1>6. u \in Seq(Tokens) /\ Len(u) = m /\ \A i \in 1..m : u[i] = s[i]
  BY <1>2, <1>3, <1>4, FirstTokens
<1>7. \A i \in 1..m : u[i] = t[i]
  <2>1. \A i \in 1..m : i \in 1..(d - a)
    OBVIOUS
  <2> QED BY <1>2, <1>5, <1>6, <2>1
<1>8. u = t
  BY <1>5, <1>6, <1>7, SeqEqual
<1> QED BY <1>1, <1>4, <1>8

\* There is no NUL before the body of a frame, ...
LEMMA NoNulInHead ==
  ASSUME NEW w \in Seq(Tokens), NEW a, NEW b, NEW e, NEW id \in Nat, NEW item \in Items,
         From1(w, a, b), FrameAt(w, b, e, id, item)
  PROVE  \A k \in (a + 1)..(b + HeadSize(item)) : w[k] # NUL
<1>1. PICK H, c, l, sized, crlf :
        /\ H = HeadSize(item) /\ c = Command(id) /\ l = ContentLength(Len(item.body))
        /\ sized = item.sized /\ crlf = item.crlf
  OBVIOUS
<1>2. /\ a \in Nat /\ b \in Nat /\ (b = a \/ (b = a + 1 /\ w[b] = LF))
      /\ sized \in BOOLEAN /\ crlf \in BOOLEAN
      /\ H = IF crlf THEN IF sized THEN 8 ELSE 5 ELSE IF sized THEN 5 ELSE 3
  BY <1>1 DEF From1, HeadSize, BlankAt, SizeAt, Items
<1>3. c # NUL /\ l # NUL /\ LF # NUL /\ CR # NUL
  BY <1>1, TokensAre DEF Items
<1>4. Lines(w, b, c, l, sized, crlf)
  BY <1>1, <1>2, FrameHead DEF HeadAt
<1>5. ASSUME NEW k \in (a + 1)..(b + H) PROVE w[k] # NUL
  <2>1. CASE k <= b
    <3>1. k = b /\ b = a + 1 /\ b # a
      BY <1>2, <1>5, <2>1
    <3> QED BY <1>2, <1>3, <3>1
  <2>2. CASE ~(k <= b)
    <3>1. PICK i \in 1..H : k = b + i
      <4>1. k - b \in 1..H /\ k = b + (k - b)
        BY <1>2, <1>5, <2>2
      <4> QED BY <4>1
    <3>2. i \in 1..8 /\ (~sized => i \in 1..5) /\ (~crlf => i \in 1..5)
          /\ (~crlf /\ ~sized => i \in 1..3)
      BY <1>2, <3>1
    <3>3. i \in {1, 2, 3} \/ (i \in {4, 5} /\ (crlf \/ sized)) \/ (i \in {6, 7, 8} /\ crlf /\ sized)
      BY <1>2, <3>2
    <3>4. /\ w[b + 1] # NUL /\ w[b + 2] # NUL /\ w[b + 3] # NUL
          /\ crlf \/ sized => w[b + 4] # NUL /\ w[b + 5] # NUL
          /\ crlf /\ sized => w[b + 6] # NUL /\ w[b + 7] # NUL /\ w[b + 8] # NUL
      BY <1>2, <1>3, <1>4, LinesHaveNoNul
    <3>5. w[b + i] # NUL
      BY <3>3, <3>4
    <3> QED BY <3>1, <3>5
  <2> QED BY <2>1, <2>2
<1> QED BY <1>1, <1>5

\* ... and none before its end when it does not say how long it is.
LEMMA NoNulBeforeEnd ==
  ASSUME NEW w \in Seq(Tokens), NEW a, NEW b, NEW e, NEW id \in Nat, NEW item \in Items,
         From1(w, a, b), FrameAt(w, b, e, id, item), ~Contains(item.body, NUL)
  PROVE  \A k \in (a + 1)..(e - 1) : w[k] # NUL
<1>1. PICK H, n : H = HeadSize(item) /\ n = Len(item.body)
  OBVIOUS
<1>2. /\ a \in Nat /\ b \in Nat /\ H \in Nat /\ n \in Nat /\ item.body \in Seq(Tokens)
      /\ e = b + H + n + 1
  BY <1>1, HeadSizeIs DEF From1, Items, FrameAt
<1>3. \A i \in 1..n : item.body[i] # NUL
  BY <1>1, <1>2 DEF Contains
<1>4. ASSUME NEW k \in (a + 1)..(e - 1) PROVE w[k] # NUL
  <2>1. CASE k <= b + H
    <3>1. k \in (a + 1)..(b + H)
      BY <1>2, <2>1
    <3> QED BY <1>1, <3>1, NoNulInHead
  <2>2. CASE ~(k <= b + H)
    <3>1. PICK i \in 1..n : k = b + H + i
      <4>1. k - (b + H) \in 1..n /\ k = b + H + (k - (b + H))
        BY <1>2, <2>2
      <4> QED BY <4>1
    <3>2. w[b + H + i] = item.body[i]
      BY <1>1 DEF FrameAt
    <3> QED BY <1>3, <3>1, <3>2
  <2> QED BY <2>1, <2>2
<1> QED BY <1>4

\* The end of a frame is found once it is there, and not before.
LEMMA EndFound ==
  ASSUME NEW w \in Seq(Tokens), NEW a, NEW b, NEW e, NEW id \in Nat, NEW item \in Items,
         From1(w, a, b), FrameAt(w, b, e, id, item), item.frame, Carried(item),
         NEW d \in Nat, a <= d, d <= Len(w)
  PROVE  FrameEnd(SubSeq(w, a + 1, d)) = IF e <= d THEN e - a ELSE 0
<1>1. PICK s, H, n : s = SubSeq(w, a + 1, d) /\ H = HeadSize(item) /\ n = Len(item.body)
  OBVIOUS
<1>2. /\ a \in Nat /\ b \in Nat /\ H \in Nat /\ n \in Nat /\ a <= b
      /\ e = b + H + n + 1 /\ w[e] = NUL /\ item.sized \in BOOLEAN
  BY <1>1, HeadSizeIs DEF From1, Items, FrameAt
<1>3. s \in Seq(Tokens) /\ Len(s) = d - a /\ \A i \in 1..(d - a) : s[i] = w[a + i]
  BY ZenonT(30), <1>1, <1>2, Window
<1>4. e <= d => e - a \in 1..(d - a) /\ s[e - a] = NUL
  <2>1. e <= d => e - a \in 1..(d - a) /\ a + (e - a) = e
    BY <1>2
  <2> QED BY <1>2, <1>3, <2>1
<1>5. CASE \A i \in 1..Len(s) : s[i] # NUL
  <2>1. IndexOf(s, NUL) = 0
    BY <1>3, <1>5, IndexOfNone
  <2>2. ~(e <= d)
    BY <1>3, <1>4, <1>5
  <2> QED BY <1>1, <2>1, <2>2 DEF FrameEnd
<1>6. CASE \E i \in 1..Len(s) : s[i] = NUL
  <2>1. PICK k \in 1..Len(s) : s[k] = NUL
    BY <1>6
  <2>2. PICK first : first = IndexOf(s, NUL)
    OBVIOUS
  <2>3. /\ first \in 1..Len(s) /\ s[first] = NUL /\ \A i \in 1..(first - 1) : s[i] # NUL
    <3>1. /\ first \in 1..k /\ s[first] = NUL /\ \A i \in 1..(first - 1) : s[i] # NUL
      BY <1>3, <2>1, <2>2, IndexOfFirst
    <3> QED BY <1>3, <3>1
  <2>4. w[a + first] = NUL /\ a + first \in (a + 1)..d /\ first \in Nat
    BY <1>2, <1>3, <2>3
  <2>5. e <= d => first <= e - a
    <3>1. ASSUME e <= d, ~(first <= e - a) PROVE FALSE
      <4>1. e - a \in 1..(first - 1)
        BY <1>2, <1>4, <2>4, <3>1
      <4> QED BY <1>4, <2>3, <3>1, <4>1
    <3> QED BY <3>1
  <2>6. a + first > b + H
    <3>1. ASSUME a + first <= b + H PROVE FALSE
      <4>1. a + first \in (a + 1)..(b + H)
        BY <1>2, <2>4, <3>1
      <4> QED BY <1>1, <2>4, <4>1, NoNulInHead
    <3> QED BY <1>2, <2>4, <3>1
  <2>7. PICK f : f = a + (first - 1) /\ first - 1 \in 0..(d - a)
    BY <1>3, <2>3
  <2>8. f \in Nat /\ b + H <= f /\ f <= Len(w)
    BY <1>2, <2>4, <2>6, <2>7
  <2>9. SubSeq(s, 1, first - 1) = SubSeq(w, a + 1, f)
    BY ZenonT(30), <1>1, <1>2, <2>7, WindowOfWindow
  <2>10. PICK size : size = Size(SubSeq(s, 1, first - 1))
    OBVIOUS
  <2>11. size = IF item.sized THEN e - 1 - a ELSE 0
    <3>1. b + HeadSize(item) <= f
      BY <1>1, <2>8
    <3>2. Size(SubSeq(w, a + 1, f)) = IF item.sized THEN e - 1 - a ELSE 0
      BY <2>8, <3>1, SizeIs
    <3> QED BY <2>9, <2>10, <3>2
  <2>12. FrameEnd(s) = IF first = 0 \/ size < first THEN first
                       ELSE IF size < Len(s) THEN size + 1 ELSE 0
    BY <2>2, <2>10 DEF FrameEnd
  <2>13. CASE ~item.sized
    <3>1. ~Contains(item.body, NUL)
      BY <2>13 DEF Carried
    <3>2. ~(a + first \in (a + 1)..(e - 1))
      BY <2>4, <3>1, NoNulBeforeEnd
    <3>3. first = e - a /\ e <= d
      BY <1>2, <2>4, <2>5, <3>2
    <3>4. size = 0 /\ size < first
      BY <2>3, <2>11, <2>13
    <3>5. FrameEnd(s) = first
      BY <2>12, <3>4
    <3>6. FrameEnd(s) = e - a
      BY <3>3, <3>5
    <3> QED BY <1>1, <3>3, <3>6
  <2>14. CASE item.sized
    <3>1. size = e - 1 - a
      BY <2>11, <2>14
    <3>2. CASE size < first
      <4>1. first = e - a /\ e <= d
        BY <1>2, <2>4, <2>5, <3>1, <3>2
      <4>2. FrameEnd(s) = first
        BY <2>12, <3>2
      <4>3. FrameEnd(s) = e - a
        BY <4>1, <4>2
      <4> QED BY <1>1, <4>1, <4>3
    <3>3. CASE ~(size < first)
      <4>1. first # 0 /\ size + 1 = e - a
        BY <1>2, <2>3, <3>1
      <4>2. size < Len(s) <=> e <= d
        BY <1>2, <1>3, <3>1
      <4>3. FrameEnd(s) = IF size < Len(s) THEN size + 1 ELSE 0
        BY <2>12, <3>3, <4>1
      <4>4. FrameEnd(s) = IF e <= d THEN e - a ELSE 0
        <5>1. CASE e <= d
          BY <4>1, <4>2, <4>3, <5>1
        <5>2. CASE ~(e <= d)
          BY <4>2, <4>3, <5>2
        <5> QED BY <5>1, <5>2
      <4> QED BY <1>1, <4>4
    <3> QED BY <3>2, <3>3
  <2> QED BY <1>2, <2>13, <2>14
<1> QED BY <1>5, <1>6

\* In an empty buffer no frame ends.
LEMMA NothingEnds ==
  FrameEnd(<<>>) = 0
<1>1. <<>> \in Seq(Tokens) /\ \A i \in 1..Len(<<>>) : <<>>[i] # NUL
  OBVIOUS
<1>2. IndexOf(<<>>, NUL) = 0
  BY <1>1, IndexOfNone
<1> QED BY <1>2 DEF FrameEnd

\* beyond e the buffer is cut at g, where what is no EOL begins
Left(w, a, e, d, g) ==
  /\ Beyond(SubSeq(w, a + 1, d), e - a) = SubSeq(w, g + 1, d)
  /\ Newlines(w, e, g) /\ (g < d => w[g + 1] # LF)

\* What is left beyond the end of a frame begins with what is no EOL.
LEMMA BeyondIs ==
  ASSUME NEW w \in Seq(Tokens), NEW a \in Nat, NEW e \in Nat, NEW d \in Nat,
         a < e, e <= d, d <= Len(w)
  PROVE  \E g \in e..d : Left(w, a, e, d, g)
<1>1. PICK s, rest : s = SubSeq(w, a + 1, d) /\ rest = From(s, (e - a) + 1)
  OBVIOUS
<1>2. s \in Seq(Tokens) /\ Len(s) = d - a /\ \A i \in 1..(d - a) : s[i] = w[a + i]
  BY <1>1, Window
<1>3. PICK k : k = e - a /\ k \in Nat /\ k <= Len(s) /\ a + k = e /\ (d - a) - k = d - e
  BY <1>2
<1>4. rest = SubSeq(s, k + 1, Len(s)) /\ Len(s) \in Nat /\ Len(s) - k = d - e
  <2>1. rest = SubSeq(s, k + 1, Len(s))
    BY <1>1, <1>3 DEF From
  <2>2. Len(s) \in Nat /\ Len(s) - k = d - e
    BY <1>2, <1>3
  <2> QED BY <2>1, <2>2
<1>5. rest \in Seq(Tokens) /\ Len(rest) = d - e /\ \A i \in 1..(d - e) : rest[i] = s[k + i]
  BY <1>2, <1>3, <1>4, Window
<1>6. \A i \in 1..(d - e) : rest[i] = w[e + i]
  <2>1. \A i \in 1..(d - e) : k + i \in 1..(d - a) /\ a + (k + i) = e + i
    BY <1>3
  <2> QED BY <1>2, <1>5, <2>1
<1> DEFINE T == {i \in 1..Len(rest) : rest[i] # LF}
<1>7. Beyond(s, k) = IF T = {} THEN <<>>
                     ELSE IF Min(T) = 0 THEN <<>> ELSE From(rest, Min(T))
  BY <1>1, <1>3 DEF Beyond, SelectInSeq
<1>8. CASE T = {}
  <2>1. Newlines(w, e, d)
    <3>1. ASSUME NEW i \in (e + 1)..d PROVE w[i] = LF
      <4>1. i - e \in 1..(d - e) /\ e + (i - e) = i
        OBVIOUS
      <4>2. rest[i - e] = LF
        BY <1>5, <1>8, <4>1
      <4> QED BY <1>6, <4>1, <4>2
    <3> QED BY <3>1 DEF Newlines
  <2>2. SubSeq(w, d + 1, d) = <<>>
    BY SubSeqEmpty
  <2>3. d \in e..d
    OBVIOUS
  <2>4. Beyond(s, k) = <<>>
    BY <1>7, <1>8
  <2>5. Beyond(SubSeq(w, a + 1, d), e - a) = SubSeq(w, d + 1, d)
    <3> HIDE DEF T
    <3> QED BY <1>1, <1>3, <2>2, <2>4, Zenon
  <2>6. ~(d < d)
    OBVIOUS
  <2>7. Left(w, a, e, d, d)
    BY <2>1, <2>5, <2>6 DEF Left
  <2> QED BY <2>3, <2>7
<1>9. CASE T # {}
  <2>1. PICK m : m = Min(T)
    OBVIOUS
  <2>2. m \in T /\ \A x \in T : m <= x
    <3>1. T \in SUBSET (1..Len(rest)) /\ Len(rest) \in Nat
      BY <1>5
    <3> HIDE DEF T
    <3> QED BY <1>9, <2>1, <3>1, MinIs
  <2>3. m \in 1..(d - e) /\ rest[m] # LF
    BY <1>5, <2>2
  <2>4. PICK g : g = e + (m - 1) /\ g \in e..d /\ g < d /\ g + 1 = e + m
    BY <2>3
  <2>5. w[g + 1] # LF
    BY <1>6, <2>3, <2>4
  <2>6. Newlines(w, e, g)
    <3>1. ASSUME NEW i \in (e + 1)..g PROVE w[i] = LF
      <4>1. i - e \in 1..(d - e) /\ e + (i - e) = i /\ i - e < m
        BY <2>3, <2>4
      <4>2. i - e \notin T
        BY <2>2, <2>3, <4>1
      <4>3. rest[i - e] = LF
        BY <1>5, <4>1, <4>2
      <4> QED BY <1>6, <4>1, <4>3
    <3> QED BY <3>1 DEF Newlines
  <2>7. Beyond(s, k) = From(rest, m)
    <3>1. m # 0
      BY <2>3
    <3> HIDE DEF T
    <3> QED BY <1>7, <1>9, <2>1, <3>1
  <2>8. From(rest, m) = SubSeq(w, g + 1, d)
    <3>1. PICK l : l = m - 1 /\ l \in Nat /\ m = l + 1 /\ l <= d - e
      <4>1. m - 1 \in Nat /\ m = (m - 1) + 1 /\ m - 1 <= d - e
        BY <2>3
      <4> QED BY <4>1
    <3>0. PICK t, u : t = From(rest, m) /\ u = SubSeq(w, g + 1, d)
      OBVIOUS
    <3>2. u \in Seq(Tokens) /\ Len(u) = d - g /\ \A i \in 1..(d - g) : u[i] = w[g + i]
      <4>1. g \in Nat /\ g <= d
        BY <2>4
      <4> QED BY <3>0, <4>1, Window
    <3>3. t = SubSeq(rest, l + 1, Len(rest)) /\ l <= Len(rest) /\ Len(rest) \in Nat
      <4>1. l <= Len(rest) /\ Len(rest) \in Nat
        BY <1>5, <3>1
      <4> QED BY <3>0, <3>1, <4>1 DEF From
    <3>4. /\ t \in Seq(Tokens) /\ Len(t) = Len(rest) - l
          /\ \A i \in 1..(Len(rest) - l) : t[i] = rest[l + i]
      <4>1. Len(rest) <= Len(rest)
        BY <3>3
      <4> QED BY <1>5, <3>1, <3>3, <4>1, Window
    <3>5. Len(rest) - l = d - g
      BY <1>5, <2>3, <2>4, <3>1
    <3>6. \A i \in 1..(d - g) : l + i \in 1..(d - e) /\ e + (l + i) = g + i
      BY <2>3, <2>4, <3>1
    <3>7. \A i \in 1..(d - g) : t[i] = u[i]
      BY <1>6, <3>2, <3>4, <3>5, <3>6
    <3>8. t = u
      BY <3>2, <3>4, <3>5, <3>7, SeqEqual
    <3> QED BY <3>0, <3>8
  <2>9. Beyond(SubSeq(w, a + 1, d), e - a) = SubSeq(w, g + 1, d)
    BY <1>1, <1>3, <2>7, <2>8
  <2>10. Left(w, a, e, d, g)
    BY <2>5, <2>6, <2>9 DEF Left
  <2> QED BY <2>4, <2>10
<1> QED BY <1>8, <1>9

-----------------------------------------------------------------------------
(* The reader's place in the stream *)

\* what a server may send on connection c
Sends(c, st) == c \in Nat /\ st \in Seq(Items) /\ \A i \in 1..Len(st) : Carried(st[i])

\* all up to g has been received, all up to a has been cut, q is the next frame
Place(c, st, a, q, g) ==
  /\ a \in Nat /\ g \in Nat /\ a <= g /\ g <= Len(Stream(c, st))
  /\ q \in 1..(Len(st) + 1) /\ (q <= Len(st) => st[q].frame)
  /\ a <= Begin(c, st, q) /\ Newlines(Stream(c, st), a, Begin(c, st, q))

\* what lies between is in the buffers, and is none of it or reaches into the
\* frame q; what comes after it is on its way
Held(c, st, a, q, g, buffer, coming) ==
  /\ buffer = SubSeq(Stream(c, st), a + 1, g)
  /\ coming = SubSeq(Stream(c, st), g + 1, Len(Stream(c, st)))
  /\ a < g => Begin(c, st, q) <= a + 1 /\ Begin(c, st, q) < g

\* and the end of the frame has not come
Short(c, st, a, q, g) == a < g => g < End(c, st, q)

\* from the tokens of a frame its delivery is read
Reads(frame, f) == CommandLine(frame) = <<Command(f.id)>> /\ Body(frame) = f.body

\* the frames before q are the ones delivered and the ones cut, and there are
\* EOLs enough before it for the heartbeats
Said(c, st, a, q, done, cut, beats) ==
  /\ Len(done) + Len(cut) = Len(Frames(c, st, q - 1))
  /\ \A i \in 1..Len(done) : done[i] = Frames(c, st, q - 1)[i]
  /\ \A i \in 1..Len(cut) : Reads(cut[i], Frames(c, st, q - 1)[Len(done) + i])
  /\ beats + (Begin(c, st, q) - a) <= EolsUpto(st, q - 1)

\* frame q is in the stream, and nothing but EOLs between it and the next item
There(c, st, q) ==
  /\ q \in 1..Len(st) /\ st[q] \in Items /\ st[q].frame /\ Carried(st[q])
  /\ Ids(c, q) \in Nat /\ st[q].eols \in Nat
  /\ FrameAt(Stream(c, st), Begin(c, st, q), End(c, st, q), Ids(c, q), st[q])
  /\ Begin(c, st, q) \in Nat /\ End(c, st, q) \in Nat
  /\ Begin(c, st, q) + 3 < End(c, st, q)
  /\ Begin(c, st, q + 1) = End(c, st, q) + st[q].eols
  /\ Newlines(Stream(c, st), End(c, st, q), Begin(c, st, q + 1))
  /\ Begin(c, st, q + 1) \in Nat /\ Begin(c, st, q + 1) <= Len(Stream(c, st))
  /\ Stream(c, st)[Begin(c, st, q) + 1] # LF /\ Stream(c, st)[End(c, st, q)] = NUL

\* Before the end of the stream the next frame is there.
LEMMA FrameThere ==
  ASSUME NEW c, NEW st, NEW q, Sends(c, st), q \in 1..(Len(st) + 1),
         q <= Len(st) => st[q].frame, Begin(c, st, q) < Len(Stream(c, st))
  PROVE  There(c, st, q)
<1>1. c \in Nat /\ st \in Seq(Items)
  BY DEF Sends
<1>2. q \in 1..Len(st)
  <2>1. Len(Stream(c, st)) \in Nat /\ Begin(c, st, Len(st) + 1) = Len(Stream(c, st))
    BY <1>1, BeginsAre
  <2>2. q # Len(st) + 1
    BY <2>1
  <2>3. Len(st) \in Nat
    BY <1>1
  <2> QED BY <2>2, <2>3
<1>3. st[q].frame
  BY <1>1, <1>2
<1>4. st[q] \in Items /\ Ids(c, q) \in Nat /\ Carried(st[q])
  BY <1>1, <1>2, EncodingsAre DEF Sends
<1>5. /\ FrameAt(Stream(c, st), Begin(c, st, q), End(c, st, q), Ids(c, q), st[q])
      /\ Begin(c, st, q + 1) = End(c, st, q) + st[q].eols
      /\ Newlines(Stream(c, st), End(c, st, q), Begin(c, st, q + 1))
  BY <1>1, <1>2, <1>3, FramePlace
<1>6. q \in 1..(Len(st) + 1) /\ q + 1 \in 1..(Len(st) + 1)
  BY <1>1, <1>2
<1>7. /\ Begin(c, st, q) \in Nat /\ Begin(c, st, q + 1) \in Nat
      /\ Begin(c, st, q + 1) <= Len(Stream(c, st))
  BY <1>1, <1>6, BeginsAre
<1>8. /\ HeadSize(st[q]) \in {3, 5, 8} /\ Len(st[q].body) \in Nat /\ st[q].eols \in Nat
  BY <1>4, HeadSizeIs DEF Items
<1>9. End(c, st, q) \in Nat /\ Begin(c, st, q) + 3 < End(c, st, q)
  <2>1. PICK b, H, n, e : /\ b = Begin(c, st, q) /\ H = HeadSize(st[q]) /\ n = Len(st[q].body)
                          /\ e = End(c, st, q)
    OBVIOUS
  <2>2. e = b + H + n + 1 /\ b \in Nat /\ H \in {3, 5, 8} /\ n \in Nat
    BY <1>7, <1>8, <2>1 DEF End
  <2>3. e \in Nat /\ b + 3 < e
    BY <2>2
  <2> QED BY <2>1, <2>3
<1>10. Stream(c, st)[Begin(c, st, q) + 1] # LF /\ Stream(c, st)[End(c, st, q)] = NUL
  <2>1. Command(Ids(c, q)) # LF
    BY <1>4, TokensAre
  <2>2. HeadAt(Stream(c, st), Begin(c, st, q), Ids(c, q), st[q])
    BY <1>4, <1>5, <1>7, FrameHead
  <2> QED BY <1>5, <2>1, <2>2 DEF FrameAt, HeadAt, Lines
<1> QED BY <1>2, <1>3, <1>4, <1>5, <1>7, <1>8, <1>9, <1>10 DEF There

\* Nothing is held at the beginning of a connection.
LEMMA PlaceAtFirst ==
  ASSUME NEW c, NEW st, Sends(c, st)
  PROVE  \E q : /\ Place(c, st, 0, q, 0) /\ Held(c, st, 0, q, 0, <<>>, Stream(c, st))
                /\ Short(c, st, 0, q, 0) /\ Said(c, st, 0, q, <<>>, <<>>, 0)
<1>1. c \in Nat /\ st \in Seq(Items) /\ 0 \in 0..Len(st)
  BY DEF Sends
<1>2. PICK q : NextAfter(c, st, 0, q)
  BY <1>1, NextFrame
<1>3. PICK w, b : w = Stream(c, st) /\ b = Begin(c, st, q)
  OBVIOUS
<1>4. /\ w \in Seq(Tokens) /\ Len(w) \in Nat /\ Begin(c, st, 1) = 0
  <2>1. w \in Seq(Tokens) /\ Begin(c, st, 1) = 0
    BY <1>1, <1>3, BeginsAre
  <2> QED BY <2>1
<1>5. /\ q \in 1..(Len(st) + 1) /\ (q <= Len(st) => st[q].frame)
      /\ 0 <= b /\ Newlines(w, 0, b)
      /\ Frames(c, st, q - 1) = Frames(c, st, 0)
      /\ EolsUpto(st, q - 1) = EolsUpto(st, 0) + (b - 0)
  <2>1. 0 + 1 = 1
    OBVIOUS
  <2> QED BY <1>2, <1>3, <1>4, <2>1 DEF NextAfter
<1>6. b \in Nat
  BY <1>1, <1>3, <1>5, BeginsAre
<1>7. Place(c, st, 0, q, 0)
  BY <1>3, <1>4, <1>5 DEF Place
<1>8. Held(c, st, 0, q, 0, <<>>, w)
  <2>1. SubSeq(w, 0 + 1, 0) = <<>> /\ SubSeq(w, 0 + 1, Len(w)) = w
    BY <1>4, SubSeqEmpty, SubSeqFull
  <2> QED BY <1>3, <2>1 DEF Held
<1>9. Short(c, st, 0, q, 0)
  BY DEF Short
<1>10. Said(c, st, 0, q, <<>>, <<>>, 0)
  <2>1. Frames(c, st, q - 1) = <<>>
    BY <1>5, JoinedNone DEF Frames
  <2>2. 0 + (b - 0) <= EolsUpto(st, q - 1)
    <3>1. EolsUpto(st, 0) \in Nat
      BY <1>1, EolsAddUp
    <3> QED BY <1>5, <1>6, <3>1
  <2>3. Len(<<>>) = 0
    OBVIOUS
  <2> QED BY <1>3, <2>1, <2>2, <2>3 DEF Said
<1> QED BY <1>3, <1>7, <1>8, <1>9, <1>10

\* A chunk of what is on its way lies where the received part ends.
LEMMA ChunkIs ==
  ASSUME NEW w \in Seq(Tokens), NEW g \in Nat, g <= Len(w), NEW n \in 1..(Len(w) - g)
  PROVE  LET coming == SubSeq(w, g + 1, Len(w)) IN
         /\ SubSeq(coming, 1, n) = SubSeq(w, g + 1, g + n)
         /\ From(coming, n + 1) = SubSeq(w, (g + n) + 1, Len(w))
         /\ Len(coming) = Len(w) - g
<1>1. PICK d, x : d = Len(w) /\ x = SubSeq(w, g + 1, d) /\ d \in Nat /\ g <= d /\ d <= Len(w)
  <2>1. Len(w) \in Nat /\ Len(w) <= Len(w)
    OBVIOUS
  <2> QED BY <2>1
<1>2. x \in Seq(Tokens) /\ Len(x) = d - g /\ \A i \in 1..(d - g) : x[i] = w[g + i]
  BY <1>1, Window
<1>3. SubSeq(x, 1, n) = SubSeq(w, g + 1, g + n)
  BY <1>1, WindowOfWindow
<1>4. From(x, n + 1) = SubSeq(w, (g + n) + 1, d)
  <2>1. PICK y, z, m : /\ y = From(x, n + 1) /\ z = SubSeq(w, (g + n) + 1, d)
                       /\ m = g + n
    OBVIOUS
  <2>2. m \in Nat /\ m <= d /\ d - m = Len(x) - n /\ n \in Nat /\ n <= Len(x)
        /\ Len(x) <= Len(x) /\ Len(x) \in Nat
    BY <1>1, <1>2, <2>1
  <2>3. z \in Seq(Tokens) /\ Len(z) = d - m /\ \A i \in 1..(d - m) : z[i] = w[m + i]
    BY <1>1, <2>1, <2>2, Window
  <2>4. /\ y \in Seq(Tokens) /\ Len(y) = Len(x) - n
        /\ \A i \in 1..(Len(x) - n) : y[i] = x[n + i]
    <3>1. y = SubSeq(x, n + 1, Len(x))
      BY <2>1 DEF From
    <3> QED BY <1>2, <2>2, <3>1, Window
  <2>5. \A i \in 1..(d - m) : n + i \in 1..(d - g) /\ g + (n + i) = m + i
    BY <1>1, <2>1, <2>2
  <2>6. \A i \in 1..(d - m) : y[i] = z[i]
    BY <1>2, <2>2, <2>3, <2>4, <2>5
  <2>7. y = z
    BY <2>2, <2>3, <2>4, <2>6, SeqEqual
  <2> QED BY <2>1, <2>7
<1> QED BY <1>1, <1>2, <1>3, <1>4

\* A newline read by itself, when nothing is held, lies between the frames.
LEMMA HeartbeatRead ==
  ASSUME NEW c, NEW st, NEW a, NEW q, NEW g, NEW coming, NEW n, NEW done, NEW beats \in Nat,
         Sends(c, st), Place(c, st, a, q, g), Held(c, st, a, q, g, <<>>, coming),
         Said(c, st, a, q, done, <<>>, beats),
         n \in 1..Len(coming), SubSeq(coming, 1, n) = <<LF>>
  PROVE  /\ Place(c, st, g + 1, q, g + 1)
         /\ Held(c, st, g + 1, q, g + 1, <<>>, From(coming, n + 1))
         /\ Short(c, st, g + 1, q, g + 1) /\ Said(c, st, g + 1, q, done, <<>>, beats + 1)
<1>1. PICK w, b, z : /\ w = Stream(c, st) /\ b = Begin(c, st, q)
                     /\ z = EolsUpto(st, q - 1)
  OBVIOUS
<1>2. c \in Nat /\ st \in Seq(Items) /\ q \in 1..(Len(st) + 1)
  BY DEF Sends, Place
<1>3. w \in Seq(Tokens) /\ b \in Nat /\ b <= Len(w)
  BY <1>1, <1>2, BeginsAre
<1>4. z \in Nat
  <2>1. q - 1 \in 0..Len(st)
    BY <1>2
  <2> QED BY <1>1, <1>2, <2>1, EolsAddUp
<1>5. /\ a \in Nat /\ g \in Nat /\ a <= g /\ g <= Len(w) /\ a <= b /\ Newlines(w, a, b)
      /\ q <= Len(st) => st[q].frame
      /\ <<>> = SubSeq(w, a + 1, g) /\ coming = SubSeq(w, g + 1, Len(w))
  BY <1>1 DEF Place, Held
<1>6. a = g
  <2>1. Len(<<>>) = g - a
    BY <1>3, <1>5, Window
  <2>2. Len(<<>>) = 0
    OBVIOUS
  <2> QED BY <1>5, <2>1, <2>2
<1>7. Len(coming) = Len(w) - g
  <2>1. Len(w) \in Nat /\ Len(w) <= Len(w)
    BY <1>3
  <2> QED BY <1>3, <1>5, <2>1, Window
<1>8. n \in 1..(Len(w) - g)
  BY <1>7
<1>9. <<LF>> = SubSeq(w, g + 1, g + n) /\ From(coming, n + 1) = SubSeq(w, (g + n) + 1, Len(w))
  BY <1>3, <1>5, <1>8, ChunkIs
<1>10. n = 1 /\ w[g + 1] = LF /\ g + 1 <= Len(w)
  <2>1. PICK d : d = g + n /\ d \in Nat /\ g <= d /\ d <= Len(w) /\ d - g = n
    <3>1. Len(w) \in Nat
      BY <1>3
    <3> QED BY <1>5, <1>8, <3>1
  <2>2. PICK x : x = <<LF>> /\ Len(x) = 1 /\ x[1] = LF
    <3>1. PICK l, x : l = LF /\ x = <<l>>
      OBVIOUS
    <3>2. Len(x) = 1 /\ x[1] = l
      BY <3>1
    <3> QED BY <3>1, <3>2
  <2>3. Len(x) = n /\ \A i \in 1..n : x[i] = w[g + i]
    BY <1>3, <1>5, <1>9, <2>1, <2>2, Window
  <2>4. n = 1 /\ 1 \in 1..n
    BY <2>2, <2>3
  <2>5. w[g + 1] = LF
    BY <2>2, <2>3, <2>4
  <2> QED BY <2>1, <2>4, <2>5
<1>11. g + 1 <= b
  <2>1. ASSUME b = g PROVE FALSE
    <3>1. Begin(c, st, q) < Len(Stream(c, st))
      <4>1. Len(w) \in Nat
        BY <1>3
      <4> QED BY <1>1, <1>3, <1>5, <1>10, <2>1, <4>1
    <3>2. Stream(c, st)[Begin(c, st, q) + 1] # LF
      BY <1>2, <1>5, <3>1, FrameThere DEF There
    <3> QED BY <1>1, <1>10, <2>1, <3>2
  <2> QED BY <1>3, <1>5, <1>6, <2>1
<1>12. Place(c, st, g + 1, q, g + 1)
  <2>1. Newlines(w, g + 1, b)
    BY <1>5, <1>6, <1>3 DEF Newlines
  <2>2. g + 1 \in Nat /\ g + 1 <= g + 1
    BY <1>5
  <2> QED BY <1>1, <1>2, <1>5, <1>10, <1>11, <2>1, <2>2 DEF Place
<1>13. Held(c, st, g + 1, q, g + 1, <<>>, From(coming, n + 1))
  <2>1. SubSeq(w, (g + 1) + 1, g + 1) = <<>> /\ ~(g + 1 < g + 1)
    BY <1>5, SubSeqEmpty
  <2>2. From(coming, n + 1) = SubSeq(w, (g + 1) + 1, Len(w))
    BY <1>9, <1>10
  <2> QED BY <1>1, <2>1, <2>2 DEF Held
<1>14. Short(c, st, g + 1, q, g + 1)
  <2>1. ~(g + 1 < g + 1)
    BY <1>5
  <2> QED BY <2>1 DEF Short
<1>15. Said(c, st, g + 1, q, done, <<>>, beats + 1)
  <2>1. beats + (b - a) <= z
    BY <1>1 DEF Said
  <2>2. (beats + 1) + (b - (g + 1)) <= z
    BY <1>3, <1>4, <1>5, <1>6, <2>1
  <2> QED BY <1>1, <2>2 DEF Said
<1> QED BY <1>12, <1>13, <1>14, <1>15

\* Any other chunk comes after what is held.
LEMMA ChunkRead ==
  ASSUME NEW c, NEW st, NEW a, NEW q, NEW g, NEW buffer, NEW coming, NEW n, NEW chunk,
         Sends(c, st), Place(c, st, a, q, g), Held(c, st, a, q, g, buffer, coming),
         n \in 1..Len(coming), chunk = SubSeq(coming, 1, n),
         ~(chunk = <<LF>> /\ buffer = <<>>),
         ~(buffer = <<>> /\ n > 1 /\ chunk[1] = LF /\ chunk[2] = LF)
  PROVE  /\ Place(c, st, a, q, g + n)
         /\ Held(c, st, a, q, g + n, buffer \o chunk, From(coming, n + 1))
         /\ Short(c, st, a, q, g) /\ ~HasNul(chunk) => Short(c, st, a, q, g + n)
         /\ chunk \in Seq(Tokens)
<1>1. PICK w, b : w = Stream(c, st) /\ b = Begin(c, st, q)
  OBVIOUS
<1>2. c \in Nat /\ st \in Seq(Items) /\ q \in 1..(Len(st) + 1)
  BY DEF Sends, Place
<1>3. w \in Seq(Tokens) /\ b \in Nat /\ b <= Len(w) /\ Len(w) \in Nat
  <2>1. w \in Seq(Tokens) /\ b \in Nat /\ b <= Len(w)
    BY <1>1, <1>2, BeginsAre
  <2> QED BY <2>1
<1>4. /\ a \in Nat /\ g \in Nat /\ a <= g /\ g <= Len(w) /\ a <= b /\ Newlines(w, a, b)
      /\ q <= Len(st) => st[q].frame
      /\ buffer = SubSeq(w, a + 1, g) /\ coming = SubSeq(w, g + 1, Len(w))
      /\ a < g => b <= a + 1 /\ b < g
  BY <1>1 DEF Place, Held
<1>5. Len(coming) = Len(w) - g
  BY <1>3, <1>4, Window
<1>6. n \in 1..(Len(w) - g)
  BY <1>5
<1>7. chunk = SubSeq(w, g + 1, g + n) /\ From(coming, n + 1) = SubSeq(w, (g + n) + 1, Len(w))
  BY <1>3, <1>4, <1>6, ChunkIs
<1>8. PICK d : d = g + n /\ d \in Nat /\ g < d /\ g <= d /\ d <= Len(w) /\ d - g = n
  BY SMTT(20), <1>3, <1>4, <1>6
<1>9. chunk \in Seq(Tokens) /\ Len(chunk) = n /\ \A i \in 1..n : chunk[i] = w[g + i]
  <2>1. chunk = SubSeq(w, g + 1, d)
    BY <1>7, <1>8
  <2>2. chunk \in Seq(Tokens) /\ Len(chunk) = d - g /\ \A i \in 1..(d - g) : chunk[i] = w[g + i]
    <3>1. g \in Nat /\ d \in Nat /\ g <= d /\ d <= Len(w)
      BY <1>4, <1>8
    <3>2. /\ SubSeq(w, g + 1, d) \in Seq(Tokens) /\ Len(SubSeq(w, g + 1, d)) = d - g
          /\ \A i \in 1..(d - g) : SubSeq(w, g + 1, d)[i] = w[g + i]
      BY <1>3, <3>1, Window
    <3> QED BY <2>1, <3>2
  <2> QED BY <1>8, <2>2
<1>10. buffer \o chunk = SubSeq(w, a + 1, d)
  <2>1. a + 1 \in 1..(Len(w) + 1) /\ g \in ((a + 1) - 1)..Len(w) /\ d \in g..Len(w)
    BY <1>3, <1>4, <1>8
  <2>2. SubSeq(w, a + 1, g) \o SubSeq(w, g + 1, d) = SubSeq(w, a + 1, d)
    BY <1>3, <2>1, ConcatAdjacentSubSeq
  <2> QED BY <1>4, <1>7, <1>8, <2>2
<1>11. ASSUME a = g PROVE buffer = <<>>
  BY <1>4, <1>11, SubSeqEmpty
<1>12. b <= a + 1 /\ b < d
  <2>1. CASE a < g
    BY <1>3, <1>4, <1>8, <2>1
  <2>2. CASE a = g
    <3>1. ~(n = 1 /\ w[a + 1] = LF)
      <4>1. ASSUME n = 1, w[a + 1] = LF PROVE FALSE
        <5>1. 1 \in 1..n
          BY <4>1
        <5>2. chunk[1] = LF
          BY <1>9, <2>2, <4>1, <5>1
        <5>3. chunk = <<LF>>
          BY <1>9, <4>1, <5>2, OneToken
        <5> QED BY <1>11, <2>2, <5>3
      <4> QED BY <4>1
    <3>2. ~(n > 1 /\ w[a + 1] = LF /\ w[a + 2] = LF)
      <4>1. ASSUME n > 1, w[a + 1] = LF, w[a + 2] = LF PROVE FALSE
        <5>1. 1 \in 1..n /\ 2 \in 1..n
          BY <1>6, <4>1
        <5>2. chunk[1] = LF /\ chunk[2] = LF
          BY <1>9, <2>2, <4>1, <5>1
        <5> QED BY <1>11, <2>2, <4>1, <5>2
      <4> QED BY <4>1
    <3>3. \A i \in (a + 1)..b : w[i] = LF
      BY <1>4 DEF Newlines
    <3>4. b <= a + 1
      <4>1. ASSUME ~(b <= a + 1) PROVE FALSE
        <5>1. a + 1 \in (a + 1)..b /\ a + 2 \in (a + 1)..b
          BY <1>3, <1>4, <4>1
        <5>2. w[a + 1] = LF /\ w[a + 2] = LF
          BY <3>3, <5>1
        <5>3. n = 1 \/ n > 1
          BY <1>6
        <5> QED BY <3>1, <3>2, <5>2, <5>3
      <4> QED BY <4>1
    <3>5. b < d
      <4>1. ASSUME ~(b < d) PROVE FALSE
        <5>1. n = 1 /\ a + 1 \in (a + 1)..b
          BY <1>3, <1>4, <1>6, <1>8, <2>2, <3>4, <4>1
        <5> QED BY <3>1, <3>3, <5>1
      <4> QED BY <4>1
    <3> QED BY <3>4, <3>5
  <2> QED BY <1>4, <2>1, <2>2
<1>13. Place(c, st, a, q, g + n)
  <2>1. a <= d
    BY <1>4, <1>8
  <2> QED BY <1>1, <1>2, <1>4, <1>8, <2>1 DEF Place
<1>14. Held(c, st, a, q, g + n, buffer \o chunk, From(coming, n + 1))
  BY <1>1, <1>7, <1>8, <1>10, <1>12 DEF Held
<1>15. ASSUME Short(c, st, a, q, g), ~HasNul(chunk) PROVE Short(c, st, a, q, g + n)
  <2>1. PICK e : e = End(c, st, q)
    OBVIOUS
  <2>2. b < Len(w)
    BY <1>3, <1>8, <1>12
  <2>3. e \in Nat /\ b + 3 < e /\ w[e] = NUL
    BY <1>1, <1>2, <1>4, <2>1, <2>2, FrameThere DEF There
  <2>4. g < e
    <3>1. a < g => g < e
      BY <1>15, <2>1 DEF Short
    <3> QED BY <1>3, <1>4, <2>3, <3>1
  <2>5. d < e
    <3>1. ASSUME ~(d < e) PROVE FALSE
      <4>1. e - g \in 1..n /\ g + (e - g) = e
        BY <1>4, <1>8, <2>3, <2>4, <3>1
      <4>2. chunk[e - g] = NUL
        BY <1>9, <2>3, <4>1
      <4>3. HasNul(chunk)
        BY <1>9, <4>1, <4>2 DEF HasNul, Contains
      <4> QED BY <1>15, <4>3
    <3> QED BY <3>1
  <2> QED BY <1>8, <2>1, <2>5 DEF Short
<1> QED BY <1>9, <1>13, <1>14, <1>15

\* Where no frame ends in the buffer, its end has not come.
LEMMA CutNone ==
  ASSUME NEW c, NEW st, NEW a, NEW q, NEW g, NEW buffer, NEW coming,
         Sends(c, st), Place(c, st, a, q, g), Held(c, st, a, q, g, buffer, coming),
         FrameEnd(buffer) = 0
  PROVE  Short(c, st, a, q, g)
<1>1. PICK w, b, e : w = Stream(c, st) /\ b = Begin(c, st, q) /\ e = End(c, st, q)
  OBVIOUS
<1>2. c \in Nat /\ st \in Seq(Items) /\ q \in 1..(Len(st) + 1)
  BY DEF Sends, Place
<1>3. w \in Seq(Tokens) /\ b \in Nat /\ b <= Len(w) /\ Len(w) \in Nat
  <2>1. w \in Seq(Tokens) /\ b \in Nat /\ b <= Len(w)
    BY <1>1, <1>2, BeginsAre
  <2> QED BY <2>1
<1>4. /\ a \in Nat /\ g \in Nat /\ a <= g /\ g <= Len(w) /\ a <= b /\ Newlines(w, a, b)
      /\ q <= Len(st) => st[q].frame
      /\ buffer = SubSeq(w, a + 1, g)
      /\ a < g => b <= a + 1 /\ b < g
  BY <1>1 DEF Place, Held
<1>5. ASSUME a < g PROVE g < e
  <2>1. b < Len(w) /\ a + 1 \in (a + 1)..(a + 1)
    BY <1>3, <1>4, <1>5
  <2>2. /\ st[q] \in Items /\ st[q].frame /\ Carried(st[q]) /\ Ids(c, q) \in Nat
        /\ FrameAt(w, b, e, Ids(c, q), st[q]) /\ e \in Nat /\ b + 3 < e
    BY <1>1, <1>2, <1>4, <2>1, FrameThere DEF There
  <2>3. From1(w, a, b)
    <3>1. b = a \/ (b = a + 1 /\ b \in (a + 1)..b)
      BY <1>3, <1>4, <1>5
    <3> QED BY <1>3, <1>4, <3>1 DEF From1, Newlines
  <2>4. FrameEnd(SubSeq(w, a + 1, g)) = IF e <= g THEN e - a ELSE 0
    BY <1>3, <1>4, <2>2, <2>3, EndFound
  <2>5. e - a # 0
    BY <1>3, <1>4, <2>2
  <2> QED BY <1>4, <2>2, <2>4, <2>5
<1> QED BY <1>1, <1>5 DEF Short

\* Where a frame ends, it is the next one, and the EOLs after it are dropped.
LEMMA CutOne ==
  ASSUME NEW c, NEW st, NEW a, NEW q, NEW g, NEW buffer, NEW coming,
         NEW done, Len(done) \in Nat, NEW cut, cut \in Seq(Seq(Tokens)), NEW beats \in Nat,
         Sends(c, st), Place(c, st, a, q, g), Held(c, st, a, q, g, buffer, coming),
         Said(c, st, a, q, done, cut, beats), FrameEnd(buffer) # 0
  PROVE  \E x, p : /\ Place(c, st, x, p, g)
                   /\ Held(c, st, x, p, g, Beyond(buffer, FrameEnd(buffer)), coming)
                   /\ Said(c, st, x, p, done,
                           Append(cut, SubSeq(buffer, 1, FrameEnd(buffer) - 1)), beats)
                   /\ SubSeq(buffer, 1, FrameEnd(buffer) - 1) \in Seq(Tokens)
                   /\ Beyond(buffer, FrameEnd(buffer)) \in Seq(Tokens)
<1>1. PICK w, b, e : w = Stream(c, st) /\ b = Begin(c, st, q) /\ e = End(c, st, q)
  OBVIOUS
<1>2. c \in Nat /\ st \in Seq(Items) /\ q \in 1..(Len(st) + 1)
  BY DEF Sends, Place
<1>3. w \in Seq(Tokens) /\ b \in Nat /\ b <= Len(w) /\ Len(w) \in Nat
  <2>1. w \in Seq(Tokens) /\ b \in Nat /\ b <= Len(w)
    BY <1>1, <1>2, BeginsAre
  <2> QED BY <2>1
<1>4. /\ a \in Nat /\ g \in Nat /\ a <= g /\ g <= Len(w) /\ a <= b /\ Newlines(w, a, b)
      /\ q <= Len(st) => st[q].frame
      /\ buffer = SubSeq(w, a + 1, g) /\ coming = SubSeq(w, g + 1, Len(w))
      /\ a < g => b <= a + 1 /\ b < g
  BY <1>1 DEF Place, Held
<1>5. a < g
  <2>1. ASSUME a = g PROVE FALSE
    <3>1. buffer = <<>>
      BY <1>4, <2>1, SubSeqEmpty
    <3> QED BY <3>1, NothingEnds
  <2> QED BY <1>4, <2>1
<1>6. b < Len(w)
  BY <1>3, <1>4, <1>5
<1>7. /\ q \in 1..Len(st) /\ st[q] \in Items /\ st[q].frame /\ Carried(st[q])
      /\ Ids(c, q) \in Nat /\ st[q].eols \in Nat
      /\ FrameAt(w, b, e, Ids(c, q), st[q]) /\ e \in Nat /\ b + 3 < e
      /\ Begin(c, st, q + 1) = e + st[q].eols
      /\ Newlines(w, e, Begin(c, st, q + 1))
      /\ Begin(c, st, q + 1) \in Nat /\ Begin(c, st, q + 1) <= Len(w)
  <2>1. Begin(c, st, q) < Len(Stream(c, st))
    BY <1>1, <1>6
  <2>2. q <= Len(st) => st[q].frame
    BY <1>4
  <2>3. There(c, st, q)
    BY <1>2, <2>1, <2>2, FrameThere
  <2> QED BY <1>1, <2>3 DEF There
<1>8. From1(w, a, b)
  <2>1. b = a \/ (b = a + 1 /\ b \in (a + 1)..b)
    BY <1>3, <1>4, <1>5
  <2> QED BY <1>3, <1>4, <2>1 DEF From1, Newlines
<1>9. e <= g /\ FrameEnd(buffer) = e - a
  <2>1. FrameEnd(SubSeq(w, a + 1, g)) = IF e <= g THEN e - a ELSE 0
    BY <1>3, <1>4, <1>7, <1>8, EndFound
  <2> QED BY <1>4, <2>1
<1>38. PICK L, n : L = Len(w) /\ n = st[q].eols
  OBVIOUS
<1>34. L = Len(w) /\ n = st[q].eols /\ L \in Nat /\ n \in Nat
  BY <1>3, <1>7, <1>38
<1>32. /\ a \in Nat /\ g \in Nat /\ b \in Nat /\ e \in Nat /\ L \in Nat /\ n \in Nat
       /\ a <= b /\ b + 3 < e /\ e <= g /\ g <= L
  BY <1>3, <1>4, <1>7, <1>9, <1>34
<1>10. PICK x \in e..g : Left(w, a, e, g, x)
  <2>1. a < e /\ e <= g /\ g <= Len(w) /\ a \in Nat /\ e \in Nat /\ g \in Nat
    BY <1>32, <1>34
  <2> QED BY <1>3, <2>1, BeyondIs
<1>37. /\ Beyond(buffer, e - a) = SubSeq(w, x + 1, g) /\ Newlines(w, e, x)
       /\ x < g => w[x + 1] # LF
  BY <1>4, <1>10 DEF Left
<1>11. x \in Nat /\ x <= g /\ e <= x /\ x <= L
  BY <1>32, <1>10
<1>12. PICK p : NextAfter(c, st, q, p)
  <2>1. q \in 0..Len(st)
    BY <1>7
  <2> QED BY <1>2, <2>1, NextFrame
<1>13. PICK y, l : y = Begin(c, st, p) /\ l = Begin(c, st, q + 1)
  OBVIOUS
<1>14. /\ p \in (q + 1)..(Len(st) + 1) /\ (p <= Len(st) => st[p].frame)
       /\ l <= y /\ Newlines(w, l, y) /\ Frames(c, st, p - 1) = Frames(c, st, q)
       /\ EolsUpto(st, p - 1) = EolsUpto(st, q) + (y - l)
  BY <1>1, <1>12, <1>13 DEF NextAfter
<1>15. p \in 1..(Len(st) + 1) /\ y \in Nat /\ y <= L
  <2>1. p \in 1..(Len(st) + 1)
    BY <1>2, <1>14
  <2> QED BY <1>1, <1>2, <1>13, <1>34, <2>1, BeginsAre
<1>35. Newlines(w, e, l) /\ l = e + n
  BY <1>7, <1>13, <1>34
<1>36. y \in Nat /\ y <= L
  BY <1>15
<1>33. l = e + n /\ l \in Nat /\ l <= y /\ e <= y
  <2>1. l <= y
    BY <1>14
  <2>2. l = e + n /\ l \in Nat
    BY <1>32, <1>35
  <2> QED BY <1>32, <1>36, <2>1, <2>2
<1>16. Newlines(w, e, y)
  <2>1. Newlines(w, l, y)
    BY <1>14
  <2>2. \A i \in (e + 1)..y : i \in (e + 1)..l \/ i \in (l + 1)..y
    BY <1>32, <1>33, <1>36
  <2> QED BY <1>35, <2>1, <2>2 DEF Newlines
<1>17. x <= y
  <2>1. ASSUME y < x PROVE FALSE
    <3>1. y < Len(w)
      <4>1. y < L
        BY <1>11, <1>32, <1>36, <2>1
      <4> QED BY <1>34, <4>1
    <3>2. w[y + 1] # LF
      <4>1. Begin(c, st, p) < Len(Stream(c, st)) /\ (p <= Len(st) => st[p].frame)
        BY <1>1, <1>13, <1>14, <3>1
      <4>2. Stream(c, st)[Begin(c, st, p) + 1] # LF
        BY <1>15, <4>1, FrameThere DEF There
      <4> QED BY <1>1, <1>13, <4>2
    <3>3. y + 1 \in (e + 1)..x
      BY <1>11, <1>32, <1>33, <1>36, <2>1
    <3> QED BY <1>37, <3>2, <3>3 DEF Newlines
  <2> QED BY <1>11, <1>15, <2>1
<1>18. Place(c, st, x, p, g)
  <2>1. Newlines(w, x, y)
    <3>1. \A i \in (x + 1)..y : i \in (e + 1)..y
      BY <1>11, <1>32, <1>36
    <3> QED BY <1>16, <3>1 DEF Newlines
  <2>2. x \in Nat /\ g \in Nat /\ x <= g /\ g <= Len(w) /\ x <= y
    BY <1>11, <1>17, <1>32, <1>34
  <2>3. p \in 1..(Len(st) + 1) /\ (p <= Len(st) => st[p].frame)
    BY <1>14, <1>15
  <2> QED BY <1>1, <1>13, <2>1, <2>2, <2>3 DEF Place
<1>19. x < g => y <= x + 1 /\ y < g
  <2>1. ASSUME x < g, y # x PROVE FALSE
    <3>1. x + 1 \in (e + 1)..y
      BY <1>11, <1>17, <1>32, <1>36, <2>1
    <3> QED BY <1>37, <1>16, <2>1, <3>1 DEF Newlines
  <2> QED BY <1>11, <1>32, <1>36, <2>1
<1>20. Held(c, st, x, p, g, Beyond(buffer, e - a), coming)
  BY <1>1, <1>4, <1>37, <1>13, <1>19 DEF Held
<1>21. PICK s : s = SubSeq(buffer, 1, (e - a) - 1)
  OBVIOUS
<1>22. s = SubSeq(w, a + 1, e - 1)
  <2>1. PICK m : m = (e - a) - 1 /\ m \in 0..(g - a) /\ a + m = e - 1
    <3>1. (e - a) - 1 \in 0..(g - a) /\ a + ((e - a) - 1) = e - 1
      BY <1>32
    <3> QED BY <3>1
  <2>2. SubSeq(SubSeq(w, a + 1, g), 1, m) = SubSeq(w, a + 1, a + m)
    BY <1>3, <1>4, <2>1, WindowOfWindow
  <2> QED BY <1>4, <1>21, <2>1, <2>2
<1>23. s \in Seq(Tokens) /\ Beyond(buffer, e - a) \in Seq(Tokens)
  <2>1. PICK f : f = e - 1 /\ f \in Nat /\ a <= f /\ f <= Len(w)
    <3>1. e - 1 \in Nat /\ a <= e - 1 /\ e - 1 <= Len(w)
      BY <1>32, <1>34
    <3> QED BY <3>1
  <2>2. s \in Seq(Tokens)
    BY <1>3, <1>22, <1>32, <2>1, Window
  <2>3. SubSeq(w, x + 1, g) \in Seq(Tokens)
    BY <1>3, <1>11, <1>32, <1>34, Window
  <2> QED BY <1>37, <2>2, <2>3
<1>24. PICK d : d = [id |-> Ids(c, q), body |-> st[q].body]
  OBVIOUS
<1>25. Reads(s, d)
  <2>1. PICK f : f = e - 1
    OBVIOUS
  <2>2. f \in Nat /\ f <= Len(w) /\ b + HeadSize(st[q]) <= f
    <3>1. e = b + HeadSize(st[q]) + Len(st[q].body) + 1
      BY <1>7 DEF FrameAt
    <3>2. HeadSize(st[q]) \in Nat /\ Len(st[q].body) \in Nat
      BY SMTT(20), <1>7, HeadSizeIs DEF Items
    <3>3. PICK H, m : H = HeadSize(st[q]) /\ m = Len(st[q].body)
      OBVIOUS
    <3>5. e = b + H + m + 1 /\ H \in Nat /\ m \in Nat
      BY <3>1, <3>2, <3>3
    <3>4. f \in Nat /\ f <= Len(w) /\ b + H <= f
      BY <1>32, <1>34, <2>1, <3>5
    <3> QED BY <3>3, <3>4
  <2>3. CommandLine(SubSeq(w, a + 1, f)) = <<Command(Ids(c, q))>>
    BY <1>3, <1>7, <1>8, <2>2, CommandIs
  <2>4. e <= Len(w)
    BY <1>32, <1>34
  <2>5. Body(SubSeq(w, a + 1, e - 1)) = st[q].body
    BY <1>3, <1>7, <1>8, <2>4, BodyIs
  <2>6. d.id = Ids(c, q) /\ d.body = st[q].body
    BY <1>24
  <2> QED BY <1>22, <2>1, <2>3, <2>5, <2>6 DEF Reads
<1>26. PICK F, G : F = Frames(c, st, q - 1) /\ G = Frames(c, st, p - 1)
  OBVIOUS
<1>27. /\ F \in Seq(Deliveries) /\ G = Append(F, d)
       /\ Len(G) = Len(F) + 1 /\ Len(F) \in Nat /\ G[Len(F) + 1] = d
       /\ \A i \in 1..Len(F) : G[i] = F[i]
  <2>1. q - 1 \in 0..Len(st)
    BY <1>7
  <2>2. F \in Seq(Deliveries)
    BY <1>2, <1>26, <2>1, FramesBegin
  <2>3. G = Append(F, d)
    BY <1>2, <1>7, <1>14, <1>24, <1>26, FramesNext
  <2>4. d \in Deliveries
    BY <1>7, <1>24 DEF Items, Deliveries
  <2> QED BY <2>2, <2>3, <2>4
<1>28. PICK r : r = Append(cut, s)
  OBVIOUS
<1>29. /\ Len(r) = Len(cut) + 1 /\ Len(cut) \in Nat /\ r[Len(cut) + 1] = s
       /\ \A i \in 1..Len(cut) : r[i] = cut[i]
  BY <1>23, <1>28
<1>30. /\ Len(done) + Len(cut) = Len(F)
       /\ \A i \in 1..Len(done) : done[i] = F[i]
       /\ \A i \in 1..Len(cut) : Reads(cut[i], F[Len(done) + i])
       /\ beats + (b - a) <= EolsUpto(st, q - 1)
  BY <1>1, <1>26 DEF Said
<1>31. Said(c, st, x, p, done, r, beats)
  <2>1. Len(done) + Len(r) = Len(G)
    <3>1. PICK u, v, z : u = Len(done) /\ v = Len(cut) /\ z = Len(F)
      OBVIOUS
    <3>2. u \in Nat /\ v \in Nat /\ z \in Nat /\ u + v = z
      BY <1>27, <1>29, <1>30, <3>1
    <3>3. Len(r) = v + 1 /\ Len(G) = z + 1
      BY <1>27, <1>29, <3>1
    <3>4. u + (v + 1) = z + 1
      BY <3>2
    <3> QED BY <3>1, <3>3, <3>4
  <2>2. \A i \in 1..Len(done) : done[i] = G[i]
    <3>1. \A i \in 1..Len(done) : i \in 1..Len(F)
      BY <1>29, <1>30
    <3> QED BY <1>27, <1>30, <3>1
  <2>3. ASSUME NEW i \in 1..Len(r) PROVE Reads(r[i], G[Len(done) + i])
    <3>1. CASE i \in 1..Len(cut)
      <4>1. Len(done) + i \in 1..Len(F)
        BY <1>29, <1>30, <3>1
      <4>2. r[i] = cut[i] /\ G[Len(done) + i] = F[Len(done) + i]
        BY <1>27, <1>29, <3>1, <4>1
      <4> QED BY <1>30, <3>1, <4>2
    <3>2. CASE i = Len(cut) + 1
      <4>1. Len(done) + i = Len(F) + 1
        BY <1>27, <1>29, <1>30, <3>2
      <4> QED BY <1>25, <1>27, <1>29, <3>2, <4>1
    <3> QED BY <1>29, <3>1, <3>2
  <2>4. beats + (y - x) <= EolsUpto(st, p - 1)
    <3>1. EolsUpto(st, q - 1) \in Nat /\ EolsUpto(st, q) = EolsUpto(st, q - 1) + st[q].eols
      <4>1. q - 1 \in 0..Len(st)
        BY <1>7
      <4> QED BY <1>2, <1>7, <4>1, EolsAddUp
    <3>2. PICK E0, E1, E2 : /\ E0 = EolsUpto(st, q - 1) /\ E1 = EolsUpto(st, q)
                            /\ E2 = EolsUpto(st, p - 1)
      OBVIOUS
    <3>3. /\ E0 \in Nat /\ E1 = E0 + n /\ E2 = E1 + (y - l) /\ beats + (b - a) <= E0
      BY <1>14, <1>30, <1>34, <3>1, <3>2
    <3>4. beats <= E0
      BY <1>32, <3>3
    <3>5. E2 = E0 + (y - e)
      <4>1. E2 = (E0 + n) + (y - (e + n))
        BY <1>33, <3>3
      <4>2. (E0 + n) + (y - (e + n)) = E0 + (y - e)
        <5>1. E0 \in Int /\ n \in Int /\ y \in Int /\ e \in Int
          BY <1>32, <1>36, <3>3
        <5> QED BY <5>1
      <4> QED BY <4>1, <4>2
    <3>6. beats + (y - x) <= E2
      <4>1. beats + (y - x) <= E0 + (y - e)
        BY <1>11, <1>32, <1>36, <3>3, <3>4
      <4> QED BY <3>5, <4>1
    <3> QED BY <3>2, <3>6
  <2> QED BY <1>13, <1>26, <2>1, <2>2, <2>3, <2>4 DEF Said
<1> QED BY <1>9, <1>18, <1>20, <1>21, <1>23, <1>28, <1>31

-----------------------------------------------------------------------------
(* The invariant and the steps *)

\* the types, and the server keeps to what a server may send
Typed ==
  /\ Sends(connection, items)
  /\ running \in BOOLEAN /\ heartbeats \in Nat /\ delivered \in Seq(Deliveries)
  /\ recvbuf \in Seq(Tokens) /\ fastbuf \in Seq(Tokens) /\ result \in Seq(Seq(Tokens))
  /\ pc \in {"loop", "recv", "split", "frames", "ended"}

\* Between two reads nothing is left to process, and while frames are cut and
\* processed all that was read is in __recvbuf.  When the receiver has ended,
\* nothing of a connection that was lost is left.
Rest ==
  /\ pc \in {"loop", "recv"} => result = <<>>
  /\ pc \in {"split", "frames"} => fastbuf = <<>>
  /\ ~running /\ pc # "ended" => stopped # {}
  /\ pc = "ended" => /\ result = <<>> /\ fastbuf = <<>>
                     /\ stopped = {} => recvbuf = <<>>

\* The reader is at its place in the stream.
At(a, q, g) ==
  /\ Place(connection, items, a, q, g)
  /\ Held(connection, items, a, q, g, recvbuf \o fastbuf, wire)
  /\ pc # "split" /\ (running \/ pc = "recv") => Short(connection, items, a, q, g)
  /\ Said(connection, items, a, q, delivered, result, heartbeats)

\* what is said of a connection also when it is over
Honest == DeliveredAsSent /\ HeartbeatsHonest

\* the inductive invariant
RInv ==
  /\ Typed /\ Rest
  /\ pc # "ended" => \E a, q, g : At(a, q, g)
  /\ pc = "ended" => Honest

\* What is said of a place is what was sent.
LEMMA SaidIsHonest ==
  ASSUME Typed, NEW a, NEW q, NEW g, Place(connection, items, a, q, g),
         NEW d \in Seq(Deliveries), NEW r \in Seq(Seq(Tokens)),
         Said(connection, items, a, q, d, r, heartbeats)
  PROVE  IsPrefix(d, Sent) /\ HeartbeatsHonest
<1>1. PICK c, st, F, G : /\ c = connection /\ st = items /\ F = Frames(c, st, q - 1)
                         /\ G = Frames(c, st, Len(st))
  OBVIOUS
<1>2. /\ c \in Nat /\ st \in Seq(Items) /\ q \in 1..(Len(st) + 1) /\ a \in Nat
      /\ a <= Begin(c, st, q)
  BY <1>1 DEF Typed, Sends, Place
<1>3. q - 1 \in 0..Len(st)
  BY <1>2
<1>4. F \in Seq(Deliveries) /\ Begins(G, F) /\ G \in Seq(Deliveries)
  BY <1>1, <1>2, <1>3, FramesBegin
<1>6. /\ d \in Seq(Deliveries) /\ Len(r) \in Nat
      /\ Len(d) + Len(r) = Len(F) /\ \A i \in 1..Len(d) : d[i] = F[i]
      /\ heartbeats + (Begin(c, st, q) - a) <= EolsUpto(st, q - 1)
  <2>1. Len(r) \in Nat
    OBVIOUS
  <2> QED BY <1>1, <2>1 DEF Said
<1>7. IsPrefix(d, Sent)
  <2>1. Framing(c, st) \in Seq(Seq(Deliveries)) /\ Len(Framing(c, st)) = Len(st)
    BY <1>2, FramingIs
  <2>2. FlattenSeq(Framing(c, st)) = G
    BY <1>1, <2>1, JoinedAll DEF Frames
  <2>3. Sent = G
    BY <1>1, <2>2 DEF Sent, Framing
  <2>4. Len(d) \in Nat /\ Len(d) <= Len(F) /\ Len(F) <= Len(G) /\ Len(F) \in Nat /\ Len(G) \in Nat
    BY <1>4, <1>6 DEF Begins
  <2>5. \A i \in 1..Len(d) : d[i] = G[i]
    <3>1. \A i \in 1..Len(d) : i \in 1..Len(F)
      BY <2>4
    <3> QED BY <1>4, <1>6, <3>1 DEF Begins
  <2>6. PICK n : n = Len(d)
    OBVIOUS
  <2>7. n \in Nat /\ n <= Len(G) /\ n <= Len(d)
    BY <2>4, <2>6
  <2>8. PICK x, y : x = SubSeq(d, 1, n) /\ y = SubSeq(G, 1, n)
    OBVIOUS
  <2>9. /\ x \in Seq(Deliveries) /\ Len(x) = n /\ \A i \in 1..n : x[i] = d[i]
        /\ y \in Seq(Deliveries) /\ Len(y) = n /\ \A i \in 1..n : y[i] = G[i]
    BY <1>4, <1>6, <2>7, <2>8
  <2>10. \A i \in 1..n : x[i] = y[i]
    BY <2>5, <2>6, <2>9
  <2>11. x = y
    BY <2>9, <2>10, SeqEqual
  <2> QED BY <2>3, <2>6, <2>7, <2>8, <2>11 DEF IsPrefix
<1>8. HeartbeatsHonest
  <2>1. Begin(c, st, q) \in Nat
    BY <1>2, BeginsAre
  <2>2. /\ EolsUpto(st, q - 1) \in Nat /\ EolsUpto(st, q - 1) <= EolsUpto(st, Len(st))
        /\ EolsUpto(st, Len(st)) = Len(FlattenSeq(EolsOf(st)))
    BY <1>2, <1>3, EolsAddUp
  <2>3. EolsUpto(st, Len(st)) \in Nat
    <3>1. Len(st) \in 0..Len(st)
      BY <1>2
    <3> QED BY <1>2, <3>1, EolsAddUp
  <2>4. PICK b, x, y : /\ b = Begin(c, st, q) /\ x = EolsUpto(st, q - 1)
                       /\ y = EolsUpto(st, Len(st))
    OBVIOUS
  <2>5. heartbeats \in Nat
    BY DEF Typed
  <2>6. /\ b \in Nat /\ x \in Nat /\ y \in Nat /\ x <= y /\ a <= b /\ a \in Nat
        /\ heartbeats + (b - a) <= x
    BY <1>2, <1>6, <2>1, <2>2, <2>3, <2>4
  <2>7. heartbeats <= y
    BY <2>5, <2>6
  <2>8. y = Len(FlattenSeq([i \in DOMAIN items |-> Lfs(items[i].eols)]))
    BY <1>1, <2>2, <2>4 DEF EolsOf
  <2> QED BY <2>7, <2>8 DEF HeartbeatsHonest
<1> QED BY <1>7, <1>8

\* At its place it has delivered what was sent.
LEMMA PlaceIsHonest ==
  ASSUME Typed, NEW a, NEW q, NEW g, At(a, q, g)
  PROVE  Honest
<1>1. PICK d, r : d = delivered /\ r = result
  OBVIOUS
<1>2. d \in Seq(Deliveries) /\ r \in Seq(Seq(Tokens))
  BY <1>1 DEF Typed
<1>3. Place(connection, items, a, q, g) /\ Said(connection, items, a, q, d, r, heartbeats)
  BY <1>1 DEF At
<1>4. IsPrefix(d, Sent) /\ HeartbeatsHonest
  BY <1>2, <1>3, SaidIsHonest
<1> QED BY <1>1, <1>4 DEF Honest, DeliveredAsSent

\* What is sent is the stream of the items, when EOLs are newlines.
LEMMA StreamIs ==
  ASSUME ~CrlfEols, NEW c, NEW st
  PROVE  EncodeAll(c, st) = Stream(c, st)
<1>1. \A id, item : Encode(id, item) = LfEncode(id, item)
  BY DEF Encode, LfEncode, Eols
<1>2. [i \in DOMAIN st |-> Encode(Ids(c, i), st[i])] = Encodings(c, st)
  BY <1>1, Zenon DEF Encodings
<1> QED BY <1>2 DEF EncodeAll, Stream

\* The first connection begins so.
LEMMA RInvInit == ~CrlfEols /\ Init => RInv
<1> SUFFICES ASSUME ~CrlfEols, Init PROVE RInv
  OBVIOUS
<1>1. Sends(connection, items)
  <2>1. items \in Seq(Items) /\ \A i \in DOMAIN items : Carried(items[i])
    BY StreamsAssumption DEF Init
  <2>2. DOMAIN items = 1..Len(items)
    BY <2>1
  <2>3. connection \in Nat
    BY DEF Init
  <2> QED BY <2>1, <2>2, <2>3 DEF Sends
<1>2. /\ running = TRUE /\ recvbuf = <<>> /\ fastbuf = <<>> /\ result = <<>> /\ pc = "loop"
      /\ wire = Stream(connection, items) /\ delivered = <<>> /\ heartbeats = 0
  <2>1. connection = 1 /\ wire = EncodeAll(1, items)
    BY DEF Init
  <2>2. wire = Stream(connection, items)
    BY <2>1, StreamIs
  <2> QED BY <2>2 DEF Init
<1>3. /\ <<>> \in Seq(Tokens) /\ <<>> \in Seq(Seq(Tokens)) /\ <<>> \in Seq(Deliveries)
  OBVIOUS
<1>4. recvbuf \o fastbuf = <<>>
  BY <1>2, <1>3, ConcatEmptySeq
<1>5. Typed /\ Rest
  BY <1>1, <1>2, <1>3 DEF Typed, Rest
<1>6. PICK q : /\ Place(connection, items, 0, q, 0)
               /\ Held(connection, items, 0, q, 0, <<>>, Stream(connection, items))
               /\ Short(connection, items, 0, q, 0)
               /\ Said(connection, items, 0, q, <<>>, <<>>, 0)
  BY <1>1, PlaceAtFirst
<1>7. At(0, q, 0)
  BY <1>2, <1>4, <1>6 DEF At
<1> QED BY <1>2, <1>5, <1>7 DEF RInv

\* A step that leaves the buffers and what was said alone leaves the place.
LEMMA PlaceStays ==
  ASSUME RInv, pc # "ended", pc' # "ended",
         recvbuf' = recvbuf, fastbuf' = fastbuf, wire' = wire, result' = result,
         connection' = connection, items' = items, delivered' = delivered,
         heartbeats' = heartbeats,
         pc' # "split" /\ (running' \/ pc' = "recv") => pc # "split" /\ (running \/ pc = "recv")
  PROVE  \E a, q, g : At(a, q, g)'
<1>1. PICK a, q, g : At(a, q, g)
  BY DEF RInv
<1>2. At(a, q, g)'
  BY <1>1 DEF At
<1> QED BY <1>2

\* The loop goes on, or the receiver ends.
LEMMA RInvLoop ==
  ASSUME RInv, Loop
  PROVE  RInv'
<1>1. Typed /\ Rest /\ pc = "loop"
  BY DEF RInv, Loop
<1>2. CASE running
  <2>1. /\ pc' = "recv" /\ UNCHANGED <<recvbuf, fastbuf>>
        /\ UNCHANGED <<running, result, wire, server, given, stopped>>
    BY <1>2 DEF Loop
  <2>2. connection' = connection /\ items' = items /\ delivered' = delivered
        /\ heartbeats' = heartbeats
    BY <2>1 DEF server, given
  <2>3. \E a, q, g : At(a, q, g)'
    BY <1>1, <1>2, <2>1, <2>2, PlaceStays
  <2>4. Typed' /\ Rest'
    BY <1>1, <1>2, <2>1, <2>2 DEF Typed, Rest
  <2> QED BY <2>1, <2>3, <2>4 DEF RInv
<1>3. CASE ~running
  <2>1. /\ pc' = "ended" /\ recvbuf' = recvbuf \o fastbuf /\ fastbuf' = <<>>
        /\ UNCHANGED <<running, result, wire, server, given, stopped>>
    BY <1>3 DEF Loop
  <2>2. connection' = connection /\ items' = items /\ delivered' = delivered
        /\ heartbeats' = heartbeats
    BY <2>1 DEF server, given
  <2>3. Honest
    <3>1. PICK a, q, g : At(a, q, g)
      BY <1>1 DEF RInv
    <3> QED BY <1>1, <3>1, PlaceIsHonest
  <2>4. Honest'
    BY <2>2, <2>3 DEF Honest, DeliveredAsSent, HeartbeatsHonest, Sent
  <2>5. recvbuf \o fastbuf \in Seq(Tokens)
    BY <1>1 DEF Typed
  <2>6. Typed'
    BY <1>1, <2>1, <2>2, <2>5 DEF Typed
  <2>7. Rest'
    BY <1>1, <1>3, <2>1 DEF Rest
  <2> QED BY <2>1, <2>4, <2>6, <2>7 DEF RInv
<1> QED BY <1>2, <1>3

\* recv() returns n bytes.
LEMMA RInvReceive ==
  ASSUME RInv, ~SlowReader, NEW n \in 1..Len(wire), Receive(n)
  PROVE  RInv'
<1>1. Typed /\ Rest /\ pc = "recv" /\ result = <<>>
  BY DEF RInv, Rest, Receive
<1>2. PICK a, q, g : At(a, q, g)
  BY <1>1 DEF RInv
<1>3. PICK c, st, buffer, chunk, done : /\ c = connection /\ st = items
                                        /\ buffer = recvbuf \o fastbuf
                                        /\ chunk = SubSeq(wire, 1, n) /\ done = delivered
  OBVIOUS
<1>4. /\ wire' = From(wire, n + 1) /\ running' = running /\ result' = result
      /\ connection' = connection /\ items' = items /\ delivered' = delivered
      /\ stopped' = stopped
  BY DEF Receive, server
<1>5. /\ recvbuf \in Seq(Tokens) /\ fastbuf \in Seq(Tokens) /\ Sends(c, st)
      /\ heartbeats \in Nat
  BY <1>1, <1>3 DEF Typed
<1>6. /\ Place(c, st, a, q, g) /\ Held(c, st, a, q, g, buffer, wire)
      /\ Short(c, st, a, q, g) /\ Said(c, st, a, q, done, <<>>, heartbeats)
  BY <1>1, <1>2, <1>3 DEF At
<1>7. recvbuf = <<>> /\ fastbuf = <<>> <=> buffer = <<>>
  BY <1>3, <1>5
<1>8. ~(buffer = <<>> /\ n > 1 /\ chunk[1] = LF /\ chunk[2] = LF)
  BY <1>3, <1>7 DEF Receive
<1>9. CASE IsHeartbeat(chunk)
  <2>1. /\ chunk = <<LF>> /\ recvbuf = <<>> /\ fastbuf = <<>> /\ buffer = <<>>
    BY <1>7, <1>9 DEF IsHeartbeat
  <2>2. heartbeats' = heartbeats + 1 /\ pc' = "loop" /\ UNCHANGED <<recvbuf, fastbuf>>
    BY <1>3, <1>9 DEF Receive
  <2>3. Held(c, st, a, q, g, <<>>, wire) /\ SubSeq(wire, 1, n) = <<LF>>
    BY <1>3, <1>6, <2>1
  <2>4. /\ Place(c, st, g + 1, q, g + 1)
        /\ Held(c, st, g + 1, q, g + 1, <<>>, From(wire, n + 1))
        /\ Short(c, st, g + 1, q, g + 1)
        /\ Said(c, st, g + 1, q, done, <<>>, heartbeats + 1)
    BY <1>5, <1>6, <2>3, HeartbeatRead
  <2>5. At(g + 1, q, g + 1)'
    <3>1. (recvbuf \o fastbuf)' = <<>>
      BY <1>3, <2>1, <2>2
    <3> QED BY <1>1, <1>3, <1>4, <2>2, <2>4, <3>1 DEF At
  <2>6. Typed' /\ Rest'
    BY <1>1, <1>4, <2>2 DEF Typed, Rest
  <2> QED BY <2>2, <2>5, <2>6 DEF RInv
<1>10. CASE ~IsHeartbeat(chunk)
  <2>1. ~(chunk = <<LF>> /\ buffer = <<>>)
    BY <1>7, <1>10 DEF IsHeartbeat
  <2>2. /\ Place(c, st, a, q, g + n)
        /\ Held(c, st, a, q, g + n, buffer \o chunk, From(wire, n + 1))
        /\ ~HasNul(chunk) => Short(c, st, a, q, g + n)
        /\ chunk \in Seq(Tokens)
    BY <1>3, <1>5, <1>6, <1>8, <2>1, ChunkRead
  <2>3. CASE HasNul(chunk)
    <3>1. /\ recvbuf' = recvbuf \o fastbuf \o chunk /\ fastbuf' = <<>>
          /\ pc' = "split" /\ heartbeats' = heartbeats
      BY <1>3, <1>10, <2>3 DEF Receive
    <3>2. recvbuf' = buffer \o chunk /\ recvbuf' \in Seq(Tokens) /\ fastbuf' \in Seq(Tokens)
      <4>1. recvbuf' = buffer \o chunk /\ buffer \in Seq(Tokens) /\ <<>> \in Seq(Tokens)
        BY <1>3, <1>5, <3>1
      <4> QED BY <2>2, <3>1, <4>1
    <3>3. (recvbuf \o fastbuf)' = buffer \o chunk
      <4>1. recvbuf' \o <<>> = recvbuf'
        BY <3>2, ConcatEmptySeq
      <4> QED BY <3>1, <3>2, <4>1
    <3>4. At(a, q, g + n)'
      BY <1>1, <1>3, <1>4, <1>6, <2>2, <3>1, <3>3 DEF At
    <3>5. Typed' /\ Rest'
      BY <1>1, <1>4, <3>1, <3>2 DEF Typed, Rest
    <3> QED BY <3>1, <3>4, <3>5 DEF RInv
  <2>4. CASE ~HasNul(chunk)
    <3>1. /\ recvbuf' = recvbuf /\ fastbuf' = fastbuf \o chunk
          /\ pc' = "loop" /\ heartbeats' = heartbeats
      BY <1>3, <1>10, <2>4 DEF Receive
    <3>2. fastbuf' \in Seq(Tokens)
      BY <1>5, <2>2, <3>1
    <3>3. (recvbuf \o fastbuf)' = buffer \o chunk
      <4>1. (recvbuf \o fastbuf) \o chunk = recvbuf \o (fastbuf \o chunk)
        BY SMTT(20), <1>5, <2>2, ConcatAssociative
      <4> QED BY <1>3, <3>1, <4>1
    <3>4. At(a, q, g + n)'
      BY <1>1, <1>3, <1>4, <1>6, <2>2, <2>4, <3>1, <3>3 DEF At
    <3>5. Typed' /\ Rest'
      BY <1>1, <1>4, <3>1, <3>2 DEF Typed, Rest
    <3> QED BY <3>1, <3>4, <3>5 DEF RInv
  <2> QED BY <2>3, <2>4
<1> QED BY <1>9, <1>10

\* The connection is lost, or was ended.
LEMMA RInvLoseConnection ==
  ASSUME RInv, LoseConnection
  PROVE  RInv'
<1>1. Typed /\ Rest /\ pc = "recv" /\ result = <<>>
  BY DEF RInv, Rest, LoseConnection
<1>2. /\ recvbuf' = (IF running THEN <<>> ELSE recvbuf)
      /\ running' = FALSE /\ fastbuf' = <<>> /\ pc' = "ended"
      /\ result' = result /\ connection' = connection /\ items' = items
      /\ delivered' = delivered /\ heartbeats' = heartbeats /\ stopped' = stopped
  BY DEF LoseConnection, server, given
<1>3. Honest
  <2>1. PICK a, q, g : At(a, q, g)
    BY <1>1 DEF RInv
  <2> QED BY <1>1, <2>1, PlaceIsHonest
<1>4. Honest'
  BY <1>2, <1>3 DEF Honest, DeliveredAsSent, HeartbeatsHonest, Sent
<1>5. Typed'
  <2>1. <<>> \in Seq(Tokens)
    OBVIOUS
  <2> QED BY <1>1, <1>2, <2>1 DEF Typed
<1>6. Rest'
  BY <1>1, <1>2 DEF Rest
<1> QED BY <1>2, <1>4, <1>5, <1>6 DEF RInv

\* A frame is cut, or there is none.
LEMMA RInvSplit ==
  ASSUME RInv, Split
  PROVE  RInv'
<1>1. Typed /\ Rest /\ pc = "split" /\ fastbuf = <<>>
  BY DEF RInv, Rest, Split
<1>2. PICK a, q, g : At(a, q, g)
  BY <1>1 DEF RInv
<1>3. PICK c, st, done, cut, buffer :
        /\ c = connection /\ st = items /\ done = delivered /\ cut = result /\ buffer = recvbuf
  OBVIOUS
<1>4. /\ running' = running /\ fastbuf' = fastbuf /\ wire' = wire /\ stopped' = stopped
      /\ connection' = connection /\ items' = items /\ delivered' = delivered
      /\ heartbeats' = heartbeats
  BY DEF Split, server, given
<1>5. /\ buffer \in Seq(Tokens) /\ Sends(c, st) /\ heartbeats \in Nat
      /\ cut \in Seq(Seq(Tokens)) /\ done \in Seq(Deliveries)
  BY <1>1, <1>3 DEF Typed
<1>6. recvbuf \o fastbuf = buffer
  BY <1>1, <1>3, <1>5, ConcatEmptySeq
<1>7. /\ Place(c, st, a, q, g) /\ Held(c, st, a, q, g, buffer, wire)
      /\ Said(c, st, a, q, done, cut, heartbeats)
  BY <1>2, <1>3, <1>6 DEF At
<1>8. CASE FrameEnd(buffer) # 0
  <2>1. PICK frame, rest : /\ frame = SubSeq(buffer, 1, FrameEnd(buffer) - 1)
                           /\ rest = Beyond(buffer, FrameEnd(buffer))
    OBVIOUS
  <2>2. pc' = pc /\ result' = Append(cut, frame) /\ recvbuf' = rest
    BY <1>3, <1>8, <2>1 DEF Split
  <2>3. Len(done) \in Nat
    BY <1>5
  <2>4. PICK x, p : /\ Place(c, st, x, p, g) /\ Held(c, st, x, p, g, rest, wire)
                    /\ Said(c, st, x, p, done, Append(cut, frame), heartbeats)
                    /\ frame \in Seq(Tokens) /\ rest \in Seq(Tokens)
    BY <1>5, <1>7, <1>8, <2>1, <2>3, CutOne
  <2>5. (recvbuf \o fastbuf)' = rest
    BY <1>1, <1>4, <2>2, <2>4, ConcatEmptySeq
  <2>6. At(x, p, g)'
    BY <1>1, <1>3, <1>4, <2>2, <2>4, <2>5 DEF At
  <2>7. Typed' /\ Rest'
    <3>1. Append(cut, frame) \in Seq(Seq(Tokens))
      BY <1>5, <2>4
    <3> QED BY <1>1, <1>4, <2>2, <2>4, <3>1 DEF Typed, Rest
  <2> QED BY <1>1, <2>2, <2>6, <2>7 DEF RInv
<1>9. CASE FrameEnd(buffer) = 0
  <2>1. pc' = "frames" /\ result' = result /\ recvbuf' = recvbuf
    BY <1>3, <1>9 DEF Split
  <2>2. Short(c, st, a, q, g)
    BY <1>5, <1>7, <1>9, CutNone
  <2>3. At(a, q, g)'
    BY <1>2, <1>3, <1>4, <2>1, <2>2 DEF At
  <2>4. Typed' /\ Rest'
    BY <1>1, <1>4, <2>1 DEF Typed, Rest
  <2> QED BY <2>1, <2>3, <2>4 DEF RInv
<1> QED BY <1>8, <1>9

\* Nothing is cut after the client ended the connection.
LEMMA RInvSkipSplit ==
  ASSUME RInv, SkipSplit
  PROVE  RInv'
<1>1. Typed /\ Rest /\ pc = "split" /\ ~running
  BY DEF RInv, SkipSplit
<1>2. /\ pc' = "frames" /\ running' = running /\ recvbuf' = recvbuf /\ fastbuf' = fastbuf
      /\ result' = result /\ wire' = wire /\ stopped' = stopped
      /\ connection' = connection /\ items' = items /\ delivered' = delivered
      /\ heartbeats' = heartbeats
  BY DEF SkipSplit, server, given
<1>3. \E a, q, g : At(a, q, g)'
  BY <1>1, <1>2, PlaceStays
<1>4. Typed' /\ Rest'
  BY <1>1, <1>2 DEF Typed, Rest
<1> QED BY <1>2, <1>3, <1>4 DEF RInv

\* A frame is delivered as it is read.
LEMMA FrameHandled ==
  ASSUME Typed, NEW a, NEW q, NEW g, At(a, q, g), result # <<>>
  PROVE  /\ Handled(Head(result)) \in Seq(Deliveries) /\ Tail(result) \in Seq(Seq(Tokens))
         /\ Said(connection, items, a, q, Handled(Head(result)), Tail(result), heartbeats)
<1>3. PICK c, st, done, cut, frame, F :
        /\ c = connection /\ st = items /\ done = delivered /\ cut = result
        /\ frame = Head(result) /\ F = Frames(c, st, q - 1)
  OBVIOUS
<1>5. /\ Sends(c, st) /\ cut \in Seq(Seq(Tokens)) /\ cut # <<>> /\ done \in Seq(Deliveries)
  BY <1>3 DEF Typed
<1>6. Said(c, st, a, q, done, cut, heartbeats) /\ Place(c, st, a, q, g)
  BY <1>3 DEF At
<1>7. /\ Len(done) + Len(cut) = Len(F)
      /\ \A i \in 1..Len(done) : done[i] = F[i]
      /\ \A i \in 1..Len(cut) : Reads(cut[i], F[Len(done) + i])
      /\ heartbeats + (Begin(c, st, q) - a) <= EolsUpto(st, q - 1)
  BY <1>3, <1>6 DEF Said
<1>8. F \in Seq(Deliveries)
  <2>1. c \in Nat /\ st \in Seq(Items) /\ q - 1 \in 0..Len(st)
    <3>1. c \in Nat /\ st \in Seq(Items) /\ q \in 1..(Len(st) + 1)
      BY <1>5, <1>6 DEF Sends, Place
    <3> QED BY <3>1
  <2> QED BY <1>3, <2>1, FramesBegin
<1>9. PICK u, v : u = Len(done) /\ v = Len(cut)
  OBVIOUS
<1>10. u \in Nat /\ v \in Nat /\ v >= 1 /\ u + v = Len(F) /\ 1 \in 1..v /\ u + 1 \in 1..Len(F)
  <2>1. u \in Nat /\ v \in Nat /\ v # 0
    BY <1>5, <1>9
  <2>2. u + v = Len(F)
    BY <1>7, <1>9
  <2> QED BY <2>1, <2>2
<1>11. PICK f : f = F[u + 1]
  OBVIOUS
<1>12. f \in Deliveries
  BY <1>8, <1>10, <1>11
<1>13. Reads(frame, f)
  <2>1. frame = cut[1]
    BY <1>3, <1>5
  <2>2. Reads(cut[1], F[Len(done) + 1])
    BY <1>7, <1>9, <1>10
  <2> QED BY <1>9, <1>11, <2>1, <2>2
<1>14. Handled(frame) = Append(done, f)
  <2>1. PICK line, t : line = CommandLine(frame) /\ t = Command(f.id)
    OBVIOUS
  <2>2. line = <<t>> /\ Body(frame) = f.body
    BY <1>13, <2>1 DEF Reads
  <2>3. t.kind = "command" /\ t.v = f.id
    BY <2>1 DEF Command, Token
  <2>4. Len(line) = 1 /\ line[1] = t
    BY <2>2
  <2>5. KnownCommand(line)
    BY <2>3, <2>4 DEF KnownCommand
  <2>6. f = [id |-> f.id, body |-> f.body]
    BY <1>12 DEF Deliveries
  <2>7. Handled(frame) = Append(done, [id |-> line[1].v, body |-> Body(frame)])
    BY <1>3, <2>1, <2>5 DEF Handled
  <2> QED BY <2>2, <2>3, <2>4, <2>6, <2>7
<1>15. PICK d, r : d = Append(done, f) /\ r = Tail(cut)
  OBVIOUS
<1>16. /\ d \in Seq(Deliveries) /\ Len(d) = u + 1 /\ d[u + 1] = f
       /\ \A i \in 1..u : d[i] = done[i]
       /\ r \in Seq(Seq(Tokens)) /\ Len(r) = v - 1 /\ \A i \in 1..(v - 1) : r[i] = cut[i + 1]
  BY <1>5, <1>9, <1>12, <1>15
<1>17. Said(c, st, a, q, d, r, heartbeats)
  <2>1. Len(d) + Len(r) = Len(F)
    <3>1. (u + 1) + (v - 1) = u + v
      BY <1>10
    <3> QED BY <1>10, <1>16, <3>1
  <2>2. \A i \in 1..Len(d) : d[i] = F[i]
    <3>1. \A i \in 1..(u + 1) : i \in 1..u \/ i = u + 1
      BY <1>10
    <3>2. \A i \in 1..u : d[i] = F[i]
      BY <1>7, <1>9, <1>16
    <3> QED BY <1>11, <1>16, <3>1, <3>2
  <2>3. ASSUME NEW i \in 1..Len(r) PROVE Reads(r[i], F[Len(d) + i])
    <3>1. i \in 1..(v - 1) /\ i + 1 \in 1..v /\ (u + 1) + i = u + (i + 1)
      BY <1>10, <1>16
    <3>2. Reads(cut[i + 1], F[u + (i + 1)])
      BY <1>7, <1>9, <3>1
    <3>3. r[i] = cut[i + 1] /\ Len(d) + i = u + (i + 1)
      BY <1>16, <3>1
    <3> QED BY <3>2, <3>3
  <2> QED BY <1>3, <1>7, <2>1, <2>2, <2>3 DEF Said
<1> QED BY <1>3, <1>14, <1>15, <1>16, <1>17

LEMMA RInvProcess ==
  ASSUME RInv, Process
  PROVE  RInv'
<1>1. Typed /\ Rest /\ pc = "frames" /\ result # <<>>
  BY DEF RInv, Process
<1>2. PICK a, q, g : At(a, q, g)
  BY <1>1 DEF RInv
<1>3. PICK d, r : d = Handled(Head(result)) /\ r = Tail(result)
  OBVIOUS
<1>4. /\ running' = running /\ recvbuf' = recvbuf /\ fastbuf' = fastbuf /\ wire' = wire
      /\ stopped' = stopped /\ pc' = pc /\ connection' = connection /\ items' = items
      /\ heartbeats' = heartbeats /\ delivered' = d /\ result' = r
  BY <1>3 DEF Process, server
<1>5. /\ d \in Seq(Deliveries) /\ r \in Seq(Seq(Tokens))
      /\ Said(connection, items, a, q, d, r, heartbeats)
  BY <1>1, <1>2, <1>3, FrameHandled
<1>6. At(a, q, g)'
  BY <1>2, <1>4, <1>5 DEF At
<1>7. Typed' /\ Rest'
  BY <1>1, <1>4, <1>5 DEF Typed, Rest
<1> QED BY <1>1, <1>4, <1>6, <1>7 DEF RInv

\* The receiver ends over a frame that cannot be handled.
LEMMA RInvProcessRaises ==
  ASSUME RInv, ProcessRaises
  PROVE  RInv'
<1>1. Typed /\ Rest /\ pc = "frames" /\ result # <<>>
  BY DEF RInv, ProcessRaises
<1>2. PICK a, q, g : At(a, q, g)
  BY <1>1 DEF RInv
<1>3. PICK d, r, h : d = delivered' /\ r = Tail(result) /\ h = Handled(Head(result))
  OBVIOUS
<1>4. /\ running' = running /\ recvbuf' = recvbuf /\ fastbuf' = fastbuf /\ wire' = wire
      /\ stopped' = stopped \cup {connection} /\ pc' = "ended"
      /\ connection' = connection /\ items' = items
      /\ heartbeats' = heartbeats /\ result' = <<>> /\ (d = delivered \/ d = h)
  BY <1>3 DEF ProcessRaises, server
<1>5. d \in Seq(Deliveries) /\ IsPrefix(d, Sent) /\ HeartbeatsHonest
  <2>1. CASE d = delivered
    <3>1. Honest
      BY <1>1, <1>2, PlaceIsHonest
    <3> QED BY <1>1, <2>1, <3>1 DEF Honest, DeliveredAsSent, Typed
  <2>2. CASE d = h
    <3>1. /\ h \in Seq(Deliveries) /\ r \in Seq(Seq(Tokens))
          /\ Said(connection, items, a, q, h, r, heartbeats)
      BY <1>1, <1>2, <1>3, FrameHandled
    <3>2. Place(connection, items, a, q, g)
      BY <1>2 DEF At
    <3>3. IsPrefix(h, Sent) /\ HeartbeatsHonest
      BY <1>1, <3>1, <3>2, SaidIsHonest
    <3> QED BY <2>2, <3>1, <3>3
  <2> QED BY <1>4, <2>1, <2>2
<1>6. Honest'
  <2>1. Sent' = Sent
    BY <1>4 DEF Sent
  <2>2. DeliveredAsSent'
    BY <1>3, <1>5, <2>1 DEF DeliveredAsSent
  <2>3. HeartbeatsHonest'
    BY <1>4, <1>5 DEF HeartbeatsHonest
  <2> QED BY <2>2, <2>3 DEF Honest
<1>7. <<>> \in Seq(Seq(Tokens))
  OBVIOUS
<1>8. Typed' /\ Rest'
  BY <1>1, <1>3, <1>4, <1>5, <1>7 DEF Typed, Rest
<1> QED BY <1>4, <1>6, <1>8 DEF RInv

\* The next read begins.
LEMMA RInvReadAgain ==
  ASSUME RInv, ReadAgain
  PROVE  RInv'
<1>1. Typed /\ Rest /\ pc = "frames" /\ result = <<>>
  BY DEF RInv, ReadAgain
<1>2. /\ pc' = "loop" /\ running' = running /\ recvbuf' = recvbuf /\ fastbuf' = fastbuf
      /\ result' = result /\ wire' = wire /\ stopped' = stopped
      /\ connection' = connection /\ items' = items /\ delivered' = delivered
      /\ heartbeats' = heartbeats
  BY DEF ReadAgain, server, given
<1>3. \E a, q, g : At(a, q, g)'
  BY <1>1, <1>2, PlaceStays
<1>4. Typed' /\ Rest'
  BY <1>1, <1>2 DEF Typed, Rest
<1> QED BY <1>2, <1>3, <1>4 DEF RInv

\* Another thread ends the connection.
LEMMA RInvStopRunning ==
  ASSUME RInv, StopRunning
  PROVE  RInv'
<1>1. Typed /\ Rest /\ running
  BY DEF RInv, StopRunning
<1>2. /\ running' = FALSE /\ stopped' = stopped \cup {connection} /\ pc' = pc
      /\ recvbuf' = recvbuf /\ fastbuf' = fastbuf /\ result' = result /\ wire' = wire
      /\ connection' = connection /\ items' = items /\ delivered' = delivered
      /\ heartbeats' = heartbeats
  BY DEF StopRunning, server, given
<1>3. CASE pc # "ended"
  <2>1. \E a, q, g : At(a, q, g)'
    BY <1>1, <1>2, <1>3, PlaceStays
  <2>2. Typed' /\ Rest'
    BY <1>1, <1>2 DEF Typed, Rest
  <2> QED BY <1>2, <1>3, <2>1, <2>2 DEF RInv
<1>4. CASE pc = "ended"
  <2>1. Honest
    BY <1>4 DEF RInv
  <2>2. Honest'
    BY <1>2, <2>1 DEF Honest, DeliveredAsSent, HeartbeatsHonest, Sent
  <2>3. Typed' /\ Rest'
    BY <1>1, <1>2 DEF Typed, Rest
  <2> QED BY <1>2, <1>4, <2>2, <2>3 DEF RInv
<1> QED BY <1>3, <1>4

\* The transport is connected again, with nothing left of the last connection.
LEMMA RInvReconnect ==
  ASSUME RInv, ~CrlfEols, ~ReuseStopped, Reconnect
  PROVE  RInv'
<1>1. Typed /\ Rest /\ pc = "ended" /\ stopped = {}
  BY DEF RInv, Reconnect
<1>2. result = <<>> /\ fastbuf = <<>> /\ recvbuf = <<>>
  BY <1>1 DEF Rest
<1>3. /\ connection' = connection + 1 /\ items' \in Streams
      /\ wire' = Stream(connection', items') /\ running' = TRUE /\ pc' = "loop"
      /\ delivered' = <<>> /\ heartbeats' = 0
      /\ recvbuf' = recvbuf /\ fastbuf' = fastbuf /\ result' = result /\ stopped' = stopped
  <2>1. connection' = connection + 1 /\ wire' = EncodeAll(connection + 1, items')
    BY DEF Reconnect
  <2>2. PICK n, st : n = connection + 1 /\ st = items'
    OBVIOUS
  <2>3. EncodeAll(n, st) = Stream(n, st)
    BY StreamIs
  <2>4. wire' = Stream(connection', items')
    BY <2>1, <2>2, <2>3
  <2> QED BY <2>4 DEF Reconnect
<1>4. Sends(connection', items')
  <2>1. items' \in Seq(Items) /\ \A i \in DOMAIN items' : Carried(items'[i])
    BY <1>3, StreamsAssumption
  <2>2. DOMAIN items' = 1..Len(items')
    BY <2>1
  <2>3. connection' \in Nat
    <3>1. connection \in Nat
      BY <1>1 DEF Typed, Sends
    <3> QED BY <1>3, <3>1
  <2> QED BY <2>1, <2>2, <2>3 DEF Sends
<1>5. <<>> \in Seq(Tokens) /\ <<>> \in Seq(Seq(Tokens)) /\ <<>> \in Seq(Deliveries)
  OBVIOUS
<1>6. (recvbuf \o fastbuf)' = <<>>
  BY <1>2, <1>3, <1>5, ConcatEmptySeq
<1>7. Typed' /\ Rest'
  BY <1>2, <1>3, <1>4, <1>5 DEF Typed, Rest
<1>8. PICK c, st : c = connection' /\ st = items'
  OBVIOUS
<1>9. PICK q : /\ Place(c, st, 0, q, 0) /\ Held(c, st, 0, q, 0, <<>>, Stream(c, st))
               /\ Short(c, st, 0, q, 0) /\ Said(c, st, 0, q, <<>>, <<>>, 0)
  BY <1>4, <1>8, PlaceAtFirst
<1>10. At(0, q, 0)'
  BY <1>2, <1>3, <1>6, <1>8, <1>9 DEF At
<1> QED BY <1>3, <1>7, <1>10 DEF RInv

\* No step takes the reader from its place.
LEMMA RInvStep ==
  ASSUME ~CrlfEols, ~SlowReader, ~ReuseStopped, RInv, [Next]_vars
  PROVE  RInv'
<1>1. CASE Loop
  BY <1>1, RInvLoop
<1>2. CASE \E n \in 1..Len(wire) : Receive(n)
  BY <1>2, RInvReceive
<1>3. CASE LoseConnection
  BY <1>3, RInvLoseConnection
<1>4. CASE Split
  BY <1>4, RInvSplit
<1>5. CASE SkipSplit
  BY <1>5, RInvSkipSplit
<1>6. CASE Process
  BY <1>6, RInvProcess
<1>7. CASE ReadAgain
  BY <1>7, RInvReadAgain
<1>8. CASE StopRunning
  BY <1>8, RInvStopRunning
<1>9. CASE Reconnect
  BY <1>9, RInvReconnect
<1>10. CASE ProcessRaises
  BY <1>10, RInvProcessRaises
<1>11. CASE Finished \/ UNCHANGED vars
  <2>1. UNCHANGED vars
    BY <1>11 DEF Finished
  <2> QED BY <2>1 DEF RInv, Typed, Rest, At, Honest, DeliveredAsSent, HeartbeatsHonest, Sent,
                      vars, server, given
<1> QED BY <1>1, <1>2, <1>3, <1>4, <1>5, <1>6, <1>7, <1>8, <1>9, <1>10, <1>11
        DEF Next

\* So it never leaves it.
LEMMA AlwaysAtPlace == ~CrlfEols /\ ~SlowReader /\ ~ReuseStopped /\ Spec => []RInv
<1> SUFFICES ASSUME ~CrlfEols, ~SlowReader, ~ReuseStopped PROVE Spec => []RInv
  OBVIOUS
<1>1. RInv /\ [Next]_vars => RInv'
  BY RInvStep
<1> QED BY <1>1, RInvInit, PTL DEF Spec

-----------------------------------------------------------------------------
(* Theorems *)

\* However the stream is cut into chunks, and over every connection that is made
\* after one that was lost, the frames delivered are the first ones sent, whole,
\* in order, none twice: whatever the bodies hold, however many EOLs follow a
\* frame, wherever a connection is lost or ended (__read, parse_frame).
THEOREM FramesAsSent == ~CrlfEols /\ ~SlowReader /\ ~ReuseStopped /\ Spec => []DeliveredAsSent
<1> SUFFICES ASSUME ~CrlfEols, ~SlowReader, ~ReuseStopped PROVE Spec => []DeliveredAsSent
  OBVIOUS
<1>1. RInv => DeliveredAsSent
  BY PlaceIsHonest DEF RInv, Honest
<1> QED BY <1>1, AlwaysAtPlace, PTL

\* No newline of a frame is ever taken for a heartbeat (is_eol in __read).
THEOREM HeartbeatsAreHonest == ~CrlfEols /\ ~SlowReader /\ ~ReuseStopped /\ Spec => []HeartbeatsHonest
<1> SUFFICES ASSUME ~CrlfEols, ~SlowReader, ~ReuseStopped PROVE Spec => []HeartbeatsHonest
  OBVIOUS
<1>1. RInv => HeartbeatsHonest
  BY PlaceIsHonest DEF RInv, Honest
<1> QED BY <1>1, AlwaysAtPlace, PTL

\* When all that was sent has been read and the receiver waits for more, every
\* frame has been delivered and no byte is held back (the loop of __read that
\* cuts frames goes on until there is none).
THEOREM NothingIsHeldBack == ~CrlfEols /\ ~SlowReader /\ ~ReuseStopped /\ Spec => []NothingHeldBack
<1> SUFFICES ASSUME ~CrlfEols, ~SlowReader, ~ReuseStopped PROVE Spec => []NothingHeldBack
  OBVIOUS
<1>1. RInv => NothingHeldBack
  <2> SUFFICES ASSUME RInv, pc = "recv", wire = <<>>
               PROVE  Len(delivered) = Len(Sent) /\ recvbuf = <<>> /\ fastbuf = <<>>
    BY DEF NothingHeldBack
  <2>1. PICK a, q, g : At(a, q, g)
    BY DEF RInv
  <2>2. PICK c, st, w, b, buffer :
          /\ c = connection /\ st = items /\ w = Stream(c, st) /\ b = Begin(c, st, q)
          /\ buffer = recvbuf \o fastbuf
    OBVIOUS
  <2>3. /\ Sends(c, st) /\ recvbuf \in Seq(Tokens) /\ fastbuf \in Seq(Tokens)
        /\ result = <<>> /\ delivered \in Seq(Deliveries)
    BY <2>2 DEF RInv, Typed, Rest
  <2>4. /\ Place(c, st, a, q, g) /\ Held(c, st, a, q, g, buffer, <<>>)
        /\ Short(c, st, a, q, g) /\ Said(c, st, a, q, delivered, <<>>, heartbeats)
    BY <2>1, <2>2, <2>3 DEF At
  <2>5. c \in Nat /\ st \in Seq(Items) /\ q \in 1..(Len(st) + 1) /\ (q <= Len(st) => st[q].frame)
    BY <2>3, <2>4 DEF Sends, Place
  <2>6. w \in Seq(Tokens) /\ b \in Nat /\ b <= Len(w) /\ Len(w) \in Nat
    <3>1. w \in Seq(Tokens) /\ b \in Nat /\ b <= Len(w)
      BY <2>2, <2>5, BeginsAre
    <3> QED BY <3>1
  <2>7. /\ a \in Nat /\ g \in Nat /\ a <= g /\ g <= Len(w) /\ a <= b
        /\ buffer = SubSeq(w, a + 1, g) /\ <<>> = SubSeq(w, g + 1, Len(w))
        /\ a < g => b <= a + 1 /\ b < g
    BY <2>2, <2>4 DEF Place, Held
  <2>8. g = Len(w)
    <3>1. Len(w) <= Len(w)
      BY <2>6
    <3>2. Len(<<>>) = Len(w) - g
      BY <2>6, <2>7, <3>1, Window
    <3>3. Len(<<>>) = 0
      OBVIOUS
    <3> QED BY <2>6, <2>7, <3>2, <3>3
  <2>9. b = Len(w)
    <3>1. ASSUME b < Len(w) PROVE FALSE
      <4>1. There(c, st, q)
        <5>1. Begin(c, st, q) < Len(Stream(c, st))
          BY <2>2, <3>1
        <5> QED BY <2>3, <2>5, <5>1, FrameThere
      <4>2. PICK e, l, n : /\ e = End(c, st, q) /\ l = Begin(c, st, q + 1)
                           /\ n = st[q].eols
        OBVIOUS
      <4>3. /\ e \in Nat /\ l \in Nat /\ n \in Nat /\ l = e + n /\ l <= Len(w) /\ b + 3 < e
        BY <2>2, <4>1, <4>2 DEF There
      <4>4. a < g => g < e
        BY <2>4, <4>2 DEF Short
      <4> QED BY <2>6, <2>7, <2>8, <3>1, <4>3, <4>4
    <3> QED BY <2>6, <3>1
  <2>10. a = g
    BY <2>6, <2>7, <2>8, <2>9
  <2>11. buffer = <<>>
    BY <2>7, <2>10, SubSeqEmpty
  <2>12. recvbuf = <<>> /\ fastbuf = <<>>
    <3>1. PICK x, y : x = recvbuf /\ y = fastbuf
      OBVIOUS
    <3>2. x \in Seq(Tokens) /\ y \in Seq(Tokens) /\ x \o y = <<>>
      BY <2>2, <2>3, <2>11, <3>1
    <3>3. x = <<>> /\ y = <<>>
      BY <3>2
    <3> QED BY <3>1, <3>3
  <2>13. q = Len(st) + 1
    <3>1. ASSUME q # Len(st) + 1 PROVE FALSE
      <4>1. q \in 1..Len(st) /\ st[q].frame
        BY <2>5, <3>1
      <4>2. /\ FrameAt(w, b, End(c, st, q), Ids(c, q), st[q])
            /\ Begin(c, st, q + 1) = End(c, st, q) + st[q].eols
        BY <2>2, <2>5, <4>1, FramePlace
      <4>3. q + 1 \in 1..(Len(st) + 1)
        BY <2>5, <4>1
      <4>4. Begin(c, st, q + 1) <= Len(w)
        BY <2>2, <2>5, <4>3, BeginsAre
      <4>5. st[q] \in Items
        BY <2>5, <4>1
      <4>6. HeadSize(st[q]) \in Nat /\ Len(st[q].body) \in Nat /\ st[q].eols \in Nat
        BY <4>5, HeadSizeIs DEF Items
      <4>7. PICK H, m, n, e, l : /\ H = HeadSize(st[q]) /\ m = Len(st[q].body)
                                 /\ n = st[q].eols /\ e = End(c, st, q)
                                 /\ l = Begin(c, st, q + 1)
        OBVIOUS
      <4>8. /\ H \in Nat /\ m \in Nat /\ n \in Nat /\ e = b + H + m + 1
            /\ l = e + n /\ l <= Len(w)
        BY <4>2, <4>4, <4>6, <4>7 DEF FrameAt
      <4> QED BY <2>6, <2>9, <4>8
    <3> QED BY <3>1
  <2>14. Len(delivered) = Len(Frames(c, st, Len(st)))
    <3>1. q - 1 = Len(st)
      BY <2>5, <2>13
    <3>2. Len(delivered) + Len(<<>>) = Len(Frames(c, st, q - 1))
      BY <2>4 DEF Said
    <3>3. Len(<<>>) = 0 /\ Len(delivered) \in Nat
      BY <2>3
    <3> QED BY <3>1, <3>2, <3>3
  <2>15. Frames(c, st, Len(st)) = Sent
    <3>1. Framing(c, st) \in Seq(Seq(Deliveries)) /\ Len(Framing(c, st)) = Len(st)
      BY <2>5, FramingIs
    <3>2. Frames(c, st, Len(st)) = FlattenSeq(Framing(c, st))
      BY <3>1, JoinedAll DEF Frames
    <3> QED BY <2>2, <3>2 DEF Sent, Framing
  <2> QED BY <2>12, <2>14, <2>15
<1> QED BY <1>1, AlwaysAtPlace, PTL

===============================================================================
