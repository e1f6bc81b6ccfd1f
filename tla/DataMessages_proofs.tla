------------------------ MODULE DataMessages_proofs --------------------------
(***************************************************************************)
(* What TLAPS proves of the frame of the protocol (FrameRead) and of the files *)
(* of messages (MsgFileMgr), as DataParts composes them.                      *)
(*                                                                         *)
(* The frame, for every sequence of bytes, every way it is cut into calls and  *)
(* every set of senders: the invariant is FrameRuns.  The loop of             *)
(* readDataImpl() keeps, round by round, that the messages found, the noise   *)
(* and what is left are the bytes that came (Whole), and that the pairs of    *)
(* header and payload before the place it is at have been found (AllFound);   *)
(* it ends with less than a message left (StoppedIsShort).                    *)
(*                                                                         *)
(* The files, for all protocols and lists: the invariant is MsgFilesRuns.  A   *)
(* list is of received messages or of composed ones, the file is the list,     *)
(* what was loaded is what the file gives, and an open recording is a prefix   *)
(* of a list (Body).                                                        *)
(***************************************************************************)
EXTENDS DataParts, Integers, Sequences, SequenceTheorems, FiniteSetTheorems, WellFoundedInduction, TLAPS

-----------------------------------------------------------------------------
(* Induction, over a set of numbers.                                         *)
LEMMA NatLess == IsWellFoundedOn({ss \in Nat \X Nat : ss[1] < ss[2]}, Nat)
BY NatLessThanWellFounded, Zenon DEF OpToRel

LEMMA Least ==
  ASSUME NEW T, T \subseteq Nat, T # {}
  PROVE  \E x \in T : \A y \in T : x <= y
<1> DEFINE R == {ss \in Nat \X Nat : ss[1] < ss[2]}
<1>1. IsWellFoundedOn(R, Nat)
  BY NatLess
<1>2. \A a, b \in Nat : a < b => <<a, b>> \in R
  OBVIOUS
<1> HIDE DEF R
<1>3. PICK x \in T : \A y \in T : <<y, x>> \notin R
  BY <1>1, WFMin, Zenon
<1>4. ASSUME NEW y \in T PROVE x <= y
  <2>1. x \in Nat /\ y \in Nat
    OBVIOUS
  <2>2. ~(y < x)
    BY <1>2, <1>3, <2>1
  <2> QED BY <2>1, <2>2
<1> QED BY <1>4

LEMMA UpTo ==
  ASSUME NEW n \in Nat, NEW T, 0 \in T, \A k \in 0 .. n : k < n /\ k \in T => k + 1 \in T
  PROVE  \A k \in 0 .. n : k \in T
<1> DEFINE U == {k \in 0 .. n : k \notin T}
<1> SUFFICES ASSUME U # {} PROVE FALSE
  OBVIOUS
<1>1. PICK x \in U : \A y \in U : x <= y
  <2>1. U \subseteq Nat
    OBVIOUS
  <2> HIDE DEF U
  <2> QED BY <2>1, Least
<1>2. x \in 0 .. n /\ x # 0 /\ x \notin T
  BY <1>1
<1>3. x - 1 \in 0 .. n /\ x - 1 < n /\ x - 1 \notin U /\ (x - 1) + 1 = x
  BY <1>1, <1>2
<1> QED BY <1>2, <1>3

-----------------------------------------------------------------------------
(* The bytes of a list of messages: what FlattenSeq() puts together.           *)
Flat(s, g) == g = [i \in 1 .. Len(s) |-> IF i = 1 THEN s[i] ELSE g[i - 1] \o s[i]]

LEMMA FlatExists ==
  ASSUME NEW S, NEW s \in Seq(S) PROVE \E g : Flat(s, g)
<1> DEFINE Part(n, g) == g = [i \in 1 .. n |-> IF i = 1 THEN s[i] ELSE g[i - 1] \o s[i]]
           T == {n \in Nat : \E g : Part(n, g)}
<1>1. 0 \in T
  <2>1. Part(0, <<>>)
    BY 1 .. 0 = {}, <<>> = [i \in {} |-> s[1]]
  <2> QED BY <2>1
<1>2. ASSUME NEW n \in Nat, n \in T PROVE n + 1 \in T
  <2>1. PICK g : Part(n, g)
    BY <1>2
  <2> DEFINE h == [i \in 1 .. n + 1 |-> IF i \in 1 .. n THEN g[i] ELSE IF i = 1 THEN s[i] ELSE g[i - 1] \o s[i]]
  <2>2. Part(n + 1, h)
    <3>1. ASSUME NEW i \in 1 .. n + 1 PROVE h[i] = IF i = 1 THEN s[i] ELSE h[i - 1] \o s[i]
      <4>1. CASE i \in 1 .. n
        <5>1. g[i] = IF i = 1 THEN s[i] ELSE g[i - 1] \o s[i]
          BY <2>1, <4>1
        <5>2. i # 1 => i - 1 \in 1 .. n /\ h[i - 1] = g[i - 1]
          BY <4>1
        <5> HIDE DEF Part
        <5> QED BY <4>1, <5>1, <5>2
      <4>2. CASE i \notin 1 .. n
        <5>1. i # 1 => i - 1 \in 1 .. n /\ h[i - 1] = g[i - 1]
          BY <4>2
        <5> HIDE DEF Part
        <5> QED BY <4>2, <5>1
      <4> QED BY <4>1, <4>2
    <3>2. h = [i \in 1 .. n + 1 |-> h[i]]
      OBVIOUS
    <3> HIDE DEF h
    <3> QED BY <3>1, <3>2
  <2>3. \E x : Part(n + 1, x)
    <3> HIDE DEF h, Part
    <3> QED BY <2>2
  <2> HIDE DEF h, Part
  <2> QED BY <2>3
<1> HIDE DEF T
<1>3. Len(s) \in Nat
  OBVIOUS
<1>4. Len(s) \in T
  <2> DEFINE m == Len(s)
  <2>1. \A k \in 0 .. m : k \in T
    <3>1. m \in Nat /\ \A k \in 0 .. m : k < m /\ k \in T => k + 1 \in T
      BY <1>2, <1>3
    <3> HIDE DEF m
    <3> QED BY <1>1, <3>1, UpTo
  <2> QED BY <1>3, <2>1
<1> QED BY <1>4 DEF T, Flat

LEMMA FlattenIs ==
  ASSUME NEW S, NEW s \in Seq(S), s # <<>>
  PROVE  \E g : Flat(s, g) /\ Frame!FlattenSeq(s) = g[Len(s)]
<1> DEFINE g == CHOOSE g : Flat(s, g)
<1>1. Flat(s, g)
  BY FlatExists
<1>2. Frame!FlattenSeq(s) = g[Len(s)]
  <2>1. Len(s) # 0
    OBVIOUS
  <2> QED BY <2>1 DEF Frame!FlattenSeq, Flat
<1> QED BY <1>1, <1>2

(* Lists with the same beginning are put together alike up to its end.         *)
LEMMA FlatAlike ==
  ASSUME NEW s, NEW t, NEW n \in Nat, NEW m \in Nat, n <= m, Len(s) = n, Len(t) = m,
         \A i \in 1 .. n : s[i] = t[i], NEW g, Flat(s, g), NEW h, Flat(t, h)
  PROVE  \A i \in 1 .. n : g[i] = h[i]
<1> DEFINE T == {i \in 0 .. n : i = 0 \/ g[i] = h[i]}
<1>2. /\ \A i \in 1 .. n : g[i] = IF i = 1 THEN s[i] ELSE g[i - 1] \o s[i]
      /\ \A i \in 1 .. m : h[i] = IF i = 1 THEN t[i] ELSE h[i - 1] \o t[i]
  BY DEF Flat
<1>3. ASSUME NEW k \in 0 .. n, k < n, k \in T PROVE k + 1 \in T
  <2>1. k + 1 \in 1 .. n /\ k + 1 \in 1 .. m /\ (k + 1) - 1 = k /\ (k + 1 = 1 <=> k = 0)
    BY <1>3
  <2>2. g[k + 1] = (IF k = 0 THEN s[k + 1] ELSE g[k] \o s[k + 1])
    BY <1>2, <2>1
  <2>3. h[k + 1] = (IF k = 0 THEN t[k + 1] ELSE h[k] \o t[k + 1])
    BY <1>2, <2>1
  <2>4. s[k + 1] = t[k + 1]
    BY <2>1
  <2>5. k # 0 => g[k] = h[k]
    BY <1>3
  <2>6. g[k + 1] = h[k + 1]
    BY <2>2, <2>3, <2>4, <2>5
  <2> QED BY <2>1, <2>6
<1>4. 0 \in T
  OBVIOUS
<1>5. \A k \in 0 .. n : k \in T
  <2> HIDE DEF T
  <2> QED BY <1>3, <1>4, UpTo
<1> QED BY <1>5

LEMMA FlattenedAppend ==
  ASSUME NEW B, NEW s \in Seq(Seq(B)), NEW e \in Seq(B)
  PROVE  Frame!FlattenSeq(Append(s, e)) = Frame!FlattenSeq(s) \o e
<1> DEFINE t == Append(s, e)
           n == Len(s)
<1>1. /\ t \in Seq(Seq(B)) /\ Len(t) = n + 1 /\ t[n + 1] = e /\ n \in Nat
      /\ \A i \in 1 .. n : s[i] = t[i]
  OBVIOUS
<1>2. t # <<>>
  <2> HIDE DEF t, n
  <2>1. Len(t) # 0
    BY <1>1
  <2> QED BY <2>1
<1>3. PICK h : Flat(t, h) /\ Frame!FlattenSeq(t) = h[n + 1]
  <2> HIDE DEF t
  <2>1. \E h : Flat(t, h) /\ Frame!FlattenSeq(t) = h[Len(t)]
    BY <1>1, <1>2, FlattenIs
  <2> QED BY <1>1, <2>1
<1>4. h[n + 1] = IF n + 1 = 1 THEN t[n + 1] ELSE h[(n + 1) - 1] \o t[n + 1]
  <2> HIDE DEF t, n
  <2>1. n + 1 \in 1 .. Len(t)
    BY <1>1
  <2> QED BY <1>3, <2>1 DEF Flat
<1>5. CASE n = 0
  <2>1. s = <<>> /\ Frame!FlattenSeq(s) = <<>>
    BY <1>5 DEF Frame!FlattenSeq
  <2>2. h[n + 1] = e
    BY <1>1, <1>4, <1>5
  <2>3. <<>> \o e = e
    OBVIOUS
  <2> QED BY <1>3, <2>1, <2>2, <2>3
<1>6. CASE n # 0
  <2>1. s # <<>> /\ n \in 1 .. n
    BY <1>1, <1>6
  <2>2. PICK g : Flat(s, g) /\ Frame!FlattenSeq(s) = g[n]
    BY <2>1, FlattenIs
  <2>3. g[n] = h[n]
    <3>1. n <= n + 1 /\ n + 1 \in Nat /\ Len(s) = n
      BY <1>1
    <3> HIDE DEF t, n
    <3>2. Flat(s, g)
      BY <2>2
    <3>3. Flat(t, h)
      BY <1>3
    <3>4. n \in Nat /\ n + 1 \in Nat /\ n <= n + 1 /\ Len(s) = n
      BY <3>1, <1>1
    <3>5. Len(t) = n + 1
      BY <1>1
    <3>6. \A i \in 1 .. n : s[i] = t[i]
      BY <1>1
    <3>7. \A i \in 1 .. n : g[i] = h[i]
      BY <3>2, <3>3, <3>4, <3>5, <3>6, FlatAlike
    <3> QED BY <2>1, <3>7
  <2>4. h[n + 1] = h[n] \o e
    <3> HIDE DEF t, n
    <3>1. (n + 1) - 1 = n /\ n + 1 # 1
      BY <1>1, <1>6
    <3> QED BY <1>1, <1>4, <3>1
  <2> QED BY <1>3, <2>2, <2>3, <2>4
<1> QED BY <1>5, <1>6

LEMMA FlattenedIsSeq ==
  ASSUME NEW B, NEW s \in Seq(Seq(B))
  PROVE  Frame!FlattenSeq(s) \in Seq(B)
<1> DEFINE n == Len(s)
           T == {k \in 0 .. n : Frame!FlattenSeq(SubSeq(s, 1, k)) \in Seq(B)}
<1>1. n \in Nat
  OBVIOUS
<1>2. 0 \in T
  <2>1. SubSeq(s, 1, 0) = <<>>
    OBVIOUS
  <2>2. Frame!FlattenSeq(<<>>) = <<>> /\ <<>> \in Seq(B)
    BY DEF Frame!FlattenSeq
  <2>3. Frame!FlattenSeq(SubSeq(s, 1, 0)) \in Seq(B)
    BY <2>1, <2>2, Zenon
  <2> HIDE DEF n
  <2> QED BY <1>1, <2>3
<1>3. ASSUME NEW k \in 0 .. n, k < n, k \in T PROVE k + 1 \in T
  <2>1. k + 1 \in 1 .. n
    BY <1>1, <1>3
  <2>2. /\ SubSeq(s, 1, k) \in Seq(Seq(B)) /\ s[k + 1] \in Seq(B)
        /\ SubSeq(s, 1, k + 1) = Append(SubSeq(s, 1, k), s[k + 1])
    BY <1>1, <2>1
  <2>3. Frame!FlattenSeq(SubSeq(s, 1, k)) \in Seq(B)
    BY <1>3
  <2>4. Frame!FlattenSeq(Append(SubSeq(s, 1, k), s[k + 1])) = Frame!FlattenSeq(SubSeq(s, 1, k)) \o s[k + 1]
    BY <2>2, FlattenedAppend
  <2>5. \A x, y \in Seq(B) : x \o y \in Seq(B)
    OBVIOUS
  <2>6. Frame!FlattenSeq(SubSeq(s, 1, k)) \o s[k + 1] \in Seq(B)
    BY <2>2, <2>3, <2>5, Zenon
  <2>7. Frame!FlattenSeq(SubSeq(s, 1, k + 1)) \in Seq(B)
    BY <2>2, <2>4, <2>6, Zenon
  <2> HIDE DEF n
  <2> QED BY <1>1, <2>1, <2>7
<1>4. n \in T
  <2>1. \A k \in 0 .. n : k \in T
    <3> HIDE DEF T, n
    <3> QED BY <1>1, <1>2, <1>3, UpTo
  <2> QED BY <1>1, <2>1
<1>5. SubSeq(s, 1, n) = s
  OBVIOUS
<1> HIDE DEF n
<1> QED BY <1>4, <1>5

(* A message that was read, and a list of them.                               *)
Sources == Clients \cup {"typed", "none"}
ReadMessages == [raw : Seq(Frame!Byte), valid : BOOLEAN, extra : Sources]

LEMMA RawOfAppend ==
  ASSUME NEW ms \in Seq(ReadMessages), NEW m \in ReadMessages
  PROVE  Frame!RawOf(Append(ms, m)) = Frame!RawOf(ms) \o m.raw
<1> DEFINE t == Append(ms, m)
           n == Len(ms)
           r == [i \in 1 .. n |-> ms[i].raw]
           u == [i \in 1 .. n + 1 |-> t[i].raw]
<1>1. /\ t \in Seq(ReadMessages) /\ Len(t) = n + 1 /\ t[n + 1] = m /\ n \in Nat
      /\ \A i \in 1 .. n : t[i] = ms[i] /\ ms[i] \in ReadMessages
      /\ DOMAIN ms = 1 .. n /\ DOMAIN t = 1 .. n + 1
  OBVIOUS
<1>2. \A i \in 1 .. n : ms[i].raw \in Seq(Frame!Byte)
  BY <1>1 DEF ReadMessages
<1>3. m.raw \in Seq(Frame!Byte)
  BY DEF ReadMessages
<1> HIDE DEF t, n
<1>4. r \in Seq(Seq(Frame!Byte)) /\ Len(r) = n /\ \A i \in 1 .. n : r[i] = ms[i].raw
  BY <1>1, <1>2
<1>5. DOMAIN u = 1 .. n + 1 /\ \A i \in 1 .. n + 1 : u[i] = t[i].raw
  OBVIOUS
<1>6. u = Append(r, m.raw)
  <2> DEFINE v == Append(r, m.raw)
  <2>1. v \in Seq(Seq(Frame!Byte)) /\ Len(v) = n + 1 /\ \A i \in 1 .. n + 1 : v[i] = IF i <= n THEN r[i] ELSE m.raw
    BY <1>1, <1>3, <1>4
  <2> HIDE DEF v, r
  <2>2. \A i \in 1 .. n + 1 : v[i] = t[i].raw
    <3> SUFFICES ASSUME NEW i \in 1 .. n + 1 PROVE v[i] = t[i].raw
      OBVIOUS
    <3>1. i \in 1 .. n \/ (i = n + 1 /\ ~(i <= n))
      BY <1>1
    <3> QED BY <1>1, <1>4, <2>1, <3>1
  <2>3. v = [i \in 1 .. n + 1 |-> v[i]]
    BY <2>1
  <2>4. v = [i \in 1 .. n + 1 |-> t[i].raw]
    BY <2>2, <2>3
  <2> QED BY <2>4 DEF v, u
<1>7. Frame!RawOf(ms) = Frame!FlattenSeq(r) /\ Frame!RawOf(t) = Frame!FlattenSeq(u)
  BY <1>1 DEF Frame!RawOf
<1>8. Frame!FlattenSeq(Append(r, m.raw)) = Frame!FlattenSeq(r) \o m.raw
  <2> HIDE DEF r
  <2> QED BY <1>3, <1>4, FlattenedAppend
<1> HIDE DEF r, u
<1>9. Frame!RawOf(t) = Frame!RawOf(ms) \o m.raw
  BY <1>6, <1>7, <1>8
<1> QED BY <1>9 DEF t

LEMMA RawOfIs ==
  /\ Frame!RawOf(<<>>) = <<>>
  /\ \A ms \in Seq(ReadMessages) : Frame!RawOf(ms) \in Seq(Frame!Byte)
<1>1. Frame!RawOf(<<>>) = <<>>
  <2>1. [i \in DOMAIN <<>> |-> <<>>[i].raw] = <<>>
    OBVIOUS
  <2> QED BY <2>1 DEF Frame!RawOf, Frame!FlattenSeq
<1>2. ASSUME NEW ms \in Seq(ReadMessages) PROVE Frame!RawOf(ms) \in Seq(Frame!Byte)
  <2> DEFINE r == [i \in DOMAIN ms |-> ms[i].raw]
  <2>1. \A i \in DOMAIN ms : ms[i] \in ReadMessages
    OBVIOUS
  <2>2. \A i \in DOMAIN ms : ms[i].raw \in Seq(Frame!Byte)
    BY <2>1 DEF ReadMessages
  <2>3. DOMAIN ms = 1 .. Len(ms) /\ Len(ms) \in Nat
    OBVIOUS
  <2>4. r \in Seq(Seq(Frame!Byte))
    BY <2>2, <2>3
  <2> HIDE DEF r
  <2>5. Frame!FlattenSeq(r) \in Seq(Frame!Byte)
    BY <2>4, FlattenedIsSeq
  <2> QED BY <2>5 DEF Frame!RawOf, r
<1> QED BY <1>1, <1>2

(* The bytes of a list do not depend on what else is said of its messages.      *)
LEMMA RawOfAlike ==
  ASSUME NEW ms, NEW ns, DOMAIN ms = DOMAIN ns, \A i \in DOMAIN ms : ms[i].raw = ns[i].raw
  PROVE  Frame!RawOf(ms) = Frame!RawOf(ns)
<1>1. [i \in DOMAIN ms |-> ms[i].raw] = [i \in DOMAIN ns |-> ns[i].raw]
  OBVIOUS
<1> QED BY <1>1 DEF Frame!RawOf

-----------------------------------------------------------------------------
(* What is taken from the data and what is left make up the whole.             *)
Parts(u, r, g, d) == r \o g \o d = u

LEMMA Associates ==
  ASSUME NEW B PROVE \A x, y, z \in Seq(B) : (x \o y) \o z = x \o (y \o z)
BY ConcatAssociative

LEMMA HeadTaken ==
  ASSUME NEW B, NEW r \in Seq(B), NEW g \in Seq(B), NEW d \in Seq(B), NEW u, d # <<>>, Parts(u, r, g, d)
  PROVE  /\ Parts(u, r, Append(g, Head(d)), Tail(d))
         /\ Append(g, Head(d)) \in Seq(B) /\ Tail(d) \in Seq(B)
         /\ Len(Append(g, Head(d))) = Len(g) + 1 /\ Len(Tail(d)) = Len(d) - 1
         /\ \A k \in 1 .. Len(d) - 1 : Tail(d)[k] = d[k + 1]
<1>1. /\ Head(d) \in B /\ Tail(d) \in Seq(B) /\ Len(Tail(d)) = Len(d) - 1
      /\ \A k \in 1 .. Len(Tail(d)) : Tail(d)[k] = d[k + 1]
  BY HeadTailProperties
<1>2. Append(g, Head(d)) \in Seq(B) /\ Len(Append(g, Head(d))) = Len(g) + 1
  BY <1>1, AppendProperties
<1>3. Append(g, Head(d)) = g \o <<Head(d)>>
  BY <1>1, AppendIsConcat
<1>4. d = <<Head(d)>> \o Tail(d)
  OBVIOUS
<1> DEFINE h == <<Head(d)>>
           t == Tail(d)
<1>5. h \in Seq(B) /\ t \in Seq(B) /\ g \o h \in Seq(B) /\ r \o g \in Seq(B)
  BY <1>1
<1>6. d = h \o t /\ Append(g, Head(d)) = g \o h
  BY <1>3, <1>4
<1> HIDE DEF h, t
<1>7. (r \o g) \o h = r \o (g \o h)
  <2>1. h \in Seq(B)
    BY <1>5
  <2> QED BY <2>1, Associates
<1>8. ((r \o g) \o h) \o t = (r \o g) \o (h \o t)
  <2> DEFINE x == r \o g
  <2>1. x \in Seq(B) /\ h \in Seq(B) /\ t \in Seq(B)
    BY <1>5
  <2> HIDE DEF x
  <2>2. (x \o h) \o t = x \o (h \o t)
    BY ONLY <2>1, Associates
  <2> QED BY <2>2 DEF x
<1>9. r \o Append(g, Head(d)) \o t = r \o g \o d
  BY <1>6, <1>7, <1>8, Zenon
<1>10. Parts(u, r, Append(g, Head(d)), t)
  BY <1>9 DEF Parts
<1> QED BY <1>1, <1>2, <1>10 DEF t

FirstTwo(d) == SubSeq(d, 1, 2)
AfterTwo(d) == SubSeq(d, 3, Len(d))

LEMMA TwoTaken ==
  ASSUME NEW B, NEW d \in Seq(B), Len(d) >= 2, NEW a, a = FirstTwo(d), NEW b, b = AfterTwo(d)
  PROVE  /\ a \o b = d /\ a \in Seq(B) /\ Len(a) = 2 /\ a[1] = d[1] /\ a[2] = d[2]
         /\ b \in Seq(B) /\ Len(b) = Len(d) - 2 /\ \A k \in 1 .. Len(d) - 2 : b[k] = d[k + 2]
<1> DEFINE n == Len(d)
<1>0. a = SubSeq(d, 1, 2) /\ b = SubSeq(d, 3, n)
  BY DEF FirstTwo, AfterTwo
<1>1. n \in Nat /\ n >= 2
  OBVIOUS
<1>2. a \in Seq(B) /\ Len(a) = 2 /\ a[1] = d[1] /\ a[2] = d[2]
  BY <1>0
<1>3. b \in Seq(B) /\ Len(b) = n - 2 /\ \A k \in 1 .. n - 2 : b[k] = d[k + 2]
  <2>1. n \in Int /\ \A i \in 3 .. n : d[i] \in B
    BY <1>1
  <2>2. /\ SubSeq(d, 3, n) \in Seq(B) /\ Len(SubSeq(d, 3, n)) = (IF 3 <= n THEN n - 3 + 1 ELSE 0)
        /\ \A i \in 1 .. n - 3 + 1 : SubSeq(d, 3, n)[i] = d[3 + i - 1]
    BY <2>1, SubSeqProperties
  <2> HIDE DEF n
  <2>3. n - 3 + 1 = n - 2 /\ (IF 3 <= n THEN n - 3 + 1 ELSE 0) = n - 2 /\ \A i \in 1 .. n - 2 : 3 + i - 1 = i + 2
    BY <1>1
  <2>4. /\ SubSeq(d, 3, n) \in Seq(B) /\ Len(SubSeq(d, 3, n)) = n - 2
        /\ \A i \in 1 .. n - 2 : SubSeq(d, 3, n)[i] = d[i + 2]
    BY <2>2, <2>3
  <2> QED BY <1>0, <2>4
<1>4. a \o b = d
  <2>1. a \o b = SubSeq(d, 1, Len(d))
    <3>1. 1 \in 1 .. n + 1 /\ 2 \in 1 - 1 .. n /\ n \in 2 .. n
      BY <1>1
    <3>2. SubSeq(d, 1, 2) \o SubSeq(d, 2 + 1, n) = SubSeq(d, 1, n)
      BY <3>1, ConcatAdjacentSubSeq
    <3> QED BY <1>0, <3>2
  <2>2. SubSeq(d, 1, Len(d)) = d
    BY SubSeqFull
  <2> QED BY <2>1, <2>2
<1> QED BY <1>2, <1>3, <1>4 DEF n

LEMMA PartsTaken ==
  ASSUME NEW B, NEW r \in Seq(B), NEW a \in Seq(B), NEW b \in Seq(B), NEW d, NEW u, NEW v,
         Parts(u, r, <<>>, d), a \o b = d, v = r \o a
  PROVE  Parts(u, v, <<>>, b)
<1>1. v \in Seq(B)
  BY ConcatProperties
<1>2. r \o <<>> = r /\ v \o <<>> = v
  BY <1>1, ConcatEmptySeq
<1>3. (r \o a) \o b = r \o (a \o b)
  BY ONLY r \in Seq(B), a \in Seq(B), b \in Seq(B), Associates
<1> QED BY <1>2, <1>3 DEF Parts

LEMMA GarbageTaken ==
  ASSUME NEW B, NEW r \in Seq(B), NEW g \in Seq(B), NEW d, NEW u, Parts(u, r, g, d)
  PROVE  Parts(u, r \o g, <<>>, d)
<1>1. r \o g \in Seq(B)
  BY ConcatProperties
<1>2. (r \o g) \o <<>> = r \o g
  BY <1>1, ConcatEmptySeq
<1> QED BY <1>2 DEF Parts

LEMMA EndOf ==
  ASSUME NEW B, NEW a \in Seq(B), NEW d \in Seq(B), NEW u, u = a \o d
  PROVE  /\ u \in Seq(B) /\ Len(u) = Len(a) + Len(d) /\ Len(a) \in Nat /\ Len(d) \in Nat
         /\ \A k \in 1 .. Len(d) : u[Len(u) - Len(d) + k] = d[k]
         /\ \A k \in 1 .. Len(a) : u[k] = a[k]
<1>1. /\ u \in Seq(B) /\ Len(u) = Len(a) + Len(d) /\ Len(a) \in Nat /\ Len(d) \in Nat
      /\ \A i \in 1 .. Len(a) + Len(d) : u[i] = IF i <= Len(a) THEN a[i] ELSE d[i - Len(a)]
  BY ConcatProperties
<1> DEFINE m == Len(a)
           n == Len(d)
<1>2. m \in Nat /\ n \in Nat /\ \A i \in 1 .. m + n : u[i] = IF i <= m THEN a[i] ELSE d[i - m]
  BY <1>1
<1> HIDE DEF m, n
<1>3. ASSUME NEW k \in 1 .. n PROVE u[m + k] = d[k]
  <2>1. m + k \in 1 .. m + n /\ ~(m + k <= m) /\ (m + k) - m = k
    BY <1>2
  <2> QED BY <1>2, <2>1
<1>4. ASSUME NEW k \in 1 .. m PROVE u[k] = a[k]
  <2>1. k \in 1 .. m + n /\ k <= m
    BY <1>2
  <2> QED BY <1>2, <2>1
<1>5. Len(u) - n = m
  BY <1>1, <1>2 DEF m, n
<1> QED BY <1>1, <1>3, <1>4, <1>5 DEF m, n

-----------------------------------------------------------------------------
(* The messages among the bytes u: those found are all that begin and end      *)
(* within the first c bytes, and none begins with the last one of these.        *)
Valid(ms) == {i \in DOMAIN ms : ms[i].valid}
Pairs(u, c) == {i \in 1 .. c - 1 : u[i].byte = "h" /\ u[i + 1].byte = "p"}

Divides(u, c) == c >= 1 /\ u[c].byte = "h" => c < Len(u) /\ u[c + 1].byte # "p"

AllFound(ms, u, c) == Cardinality(Valid(ms)) = Cardinality(Pairs(u, c)) /\ Divides(u, c)

LEMMA ValidAppended ==
  ASSUME NEW ms \in Seq(ReadMessages), NEW m \in ReadMessages
  PROVE  /\ IsFiniteSet(Valid(ms)) /\ Cardinality(Valid(ms)) \in Nat
         /\ Cardinality(Valid(Append(ms, m))) = Cardinality(Valid(ms)) + (IF m.valid THEN 1 ELSE 0)
<1> DEFINE t == Append(ms, m)
           n == Len(ms)
<1>1. /\ t \in Seq(ReadMessages) /\ Len(t) = n + 1 /\ t[n + 1] = m /\ n \in Nat
      /\ \A i \in 1 .. n : t[i] = ms[i]
      /\ DOMAIN ms = 1 .. n /\ DOMAIN t = 1 .. n + 1
  OBVIOUS
<1> HIDE DEF t, n
<1>2. Valid(ms) \subseteq 1 .. n /\ n + 1 \notin Valid(ms)
  BY <1>1 DEF Valid
<1>3. IsFiniteSet(1 .. n)
  BY <1>1, FS_Interval
<1>4. IsFiniteSet(Valid(ms)) /\ Cardinality(Valid(ms)) \in Nat
  BY <1>2, <1>3, FS_Subset, FS_CardinalityType
<1>5. Valid(t) = IF m.valid THEN Valid(ms) \cup {n + 1} ELSE Valid(ms)
  <2>1. \A i : i \in 1 .. n + 1 <=> i \in 1 .. n \/ i = n + 1
    BY <1>1
  <2>2. n + 1 \notin 1 .. n
    BY <1>1
  <2> QED BY <1>1, <2>1, <2>2 DEF Valid
<1>6. Cardinality(Valid(ms) \cup {n + 1}) = Cardinality(Valid(ms)) + 1
  BY <1>2, <1>4, FS_AddElement
<1>7. Cardinality(Valid(t)) = Cardinality(Valid(ms)) + (IF m.valid THEN 1 ELSE 0)
  BY <1>4, <1>5, <1>6
<1> QED BY <1>4, <1>7 DEF t

LEMMA PairsNext ==
  ASSUME NEW u, NEW c \in Nat
  PROVE  LET pair == c >= 1 /\ u[c].byte = "h" /\ u[c + 1].byte = "p"
         IN  /\ Cardinality(Pairs(u, c)) \in Nat
             /\ Cardinality(Pairs(u, c + 1)) = Cardinality(Pairs(u, c)) + (IF pair THEN 1 ELSE 0)
<1> DEFINE pair == c >= 1 /\ u[c].byte = "h" /\ u[c + 1].byte = "p"
<1>1. Pairs(u, c) \subseteq 1 .. c - 1 /\ c \notin Pairs(u, c)
  BY DEF Pairs
<1>2. IsFiniteSet(1 .. c - 1)
  BY FS_Interval
<1>3. IsFiniteSet(Pairs(u, c)) /\ Cardinality(Pairs(u, c)) \in Nat
  BY <1>1, <1>2, FS_Subset, FS_CardinalityType
<1>4. Pairs(u, c + 1) = IF pair THEN Pairs(u, c) \cup {c} ELSE Pairs(u, c)
  <2>1. \A i : i \in 1 .. (c + 1) - 1 <=> i \in 1 .. c - 1 \/ (i = c /\ c >= 1)
    OBVIOUS
  <2> QED BY <2>1 DEF Pairs
<1>5. Cardinality(Pairs(u, c) \cup {c}) = Cardinality(Pairs(u, c)) + 1
  BY <1>1, <1>3, FS_AddElement
<1> HIDE DEF pair
<1>6. Cardinality(Pairs(u, c + 1)) = Cardinality(Pairs(u, c)) + (IF pair THEN 1 ELSE 0)
  BY <1>3, <1>4, <1>5
<1> QED BY <1>3, <1>6 DEF pair

-----------------------------------------------------------------------------
(* A call of readDataImpl() in the middle: after the messages ms of earlier     *)
(* calls, u is all that was ever read, and x sent the data of this call.        *)
Reading(f) ==
  /\ DOMAIN f = {"inData", "garbage", "msgs"}
  /\ f.inData \in Seq(Frame!Byte) /\ f.garbage \in Seq(Frame!Byte) /\ f.msgs \in Seq(ReadMessages)

LastFrom(f, x) ==
  /\ \A i \in 2 .. Len(f.inData) : f.inData[i].from = x
  /\ \A i \in DOMAIN f.msgs : f.msgs[i].valid => f.msgs[i].raw[2].from = x

Whole(f, ms, u) == Parts(u, Frame!RawOf(ms \o f.msgs), f.garbage, f.inData)

FoundSoFar(f, ms, u) == AllFound(ms \o f.msgs, u, Len(u) - Len(f.inData))

(* One message more, with the bytes that follow those of the others.           *)
LEMMA MessageAdded ==
  ASSUME NEW ms \in Seq(ReadMessages), NEW ns \in Seq(ReadMessages), NEW m \in ReadMessages
  PROVE  /\ ms \o ns \in Seq(ReadMessages) /\ Append(ns, m) \in Seq(ReadMessages)
         /\ ms \o Append(ns, m) = Append(ms \o ns, m)
         /\ Frame!RawOf(ms \o Append(ns, m)) = Frame!RawOf(ms \o ns) \o m.raw
         /\ Cardinality(Valid(ms \o Append(ns, m))) = Cardinality(Valid(ms \o ns)) + (IF m.valid THEN 1 ELSE 0)
         /\ Cardinality(Valid(ms \o ns)) \in Nat
         /\ Frame!RawOf(ms \o ns) \in Seq(Frame!Byte)
<1>1. ms \o ns \in Seq(ReadMessages) /\ Append(ns, m) \in Seq(ReadMessages)
  BY ConcatProperties, AppendProperties
<1>2. ms \o Append(ns, m) = Append(ms \o ns, m)
  <2>1. Append(ns, m) = ns \o <<m>> /\ Append(ms \o ns, m) = (ms \o ns) \o <<m>> /\ <<m>> \in Seq(ReadMessages)
    BY <1>1, AppendIsConcat
  <2>2. (ms \o ns) \o <<m>> = ms \o (ns \o <<m>>)
    BY <2>1, ConcatAssociative
  <2> QED BY <2>1, <2>2
<1>3. Frame!RawOf(Append(ms \o ns, m)) = Frame!RawOf(ms \o ns) \o m.raw
  BY <1>1, RawOfAppend
<1>4. /\ Cardinality(Valid(Append(ms \o ns, m))) = Cardinality(Valid(ms \o ns)) + (IF m.valid THEN 1 ELSE 0)
      /\ Cardinality(Valid(ms \o ns)) \in Nat
  BY <1>1, ValidAppended
<1>5. Frame!RawOf(ms \o ns) \in Seq(Frame!Byte)
  BY <1>1, RawOfIs
<1> QED BY <1>1, <1>2, <1>3, <1>4, <1>5

LEMMA GarbageChecked ==
  ASSUME NEW f, Reading(f), NEW ms \in Seq(ReadMessages), NEW u, NEW x, LastFrom(f, x), Whole(f, ms, u)
  PROVE  LET e == Frame!CheckGarbage(f)
         IN  /\ Reading(e) /\ e.garbage = <<>> /\ e.inData = f.inData /\ LastFrom(e, x) /\ Whole(e, ms, u)
             /\ FoundSoFar(f, ms, u) => FoundSoFar(e, ms, u)
<1> DEFINE e == Frame!CheckGarbage(f)
           m == Frame!Message(f.garbage, FALSE)
<1>1. CASE f.garbage = <<>>
  <2>1. e = f
    BY <1>1 DEF Frame!CheckGarbage
  <2> QED BY <1>1, <2>1
<1>2. CASE f.garbage # <<>>
  <2>1. /\ DOMAIN e = {"inData", "garbage", "msgs"} /\ e.garbage = <<>> /\ e.inData = f.inData
        /\ e.msgs = Append(f.msgs, m)
    BY <1>2 DEF Frame!CheckGarbage, Reading
  <2>2. m \in ReadMessages /\ m.raw = f.garbage /\ ~m.valid
    BY DEF Frame!Message, ReadMessages, Sources, Reading
  <2>3. f.msgs \in Seq(ReadMessages) /\ f.inData \in Seq(Frame!Byte) /\ f.garbage \in Seq(Frame!Byte)
    BY DEF Reading
  <2> HIDE DEF e, m
  <2>4. /\ Append(f.msgs, m) \in Seq(ReadMessages)
        /\ Frame!RawOf(ms \o e.msgs) = Frame!RawOf(ms \o f.msgs) \o f.garbage
        /\ Cardinality(Valid(ms \o e.msgs)) = Cardinality(Valid(ms \o f.msgs))
        /\ Frame!RawOf(ms \o f.msgs) \in Seq(Frame!Byte)
    <3> DEFINE n == Append(f.msgs, m)
    <3>1. /\ n \in Seq(ReadMessages)
          /\ Frame!RawOf(ms \o n) = Frame!RawOf(ms \o f.msgs) \o m.raw
          /\ Cardinality(Valid(ms \o n)) = Cardinality(Valid(ms \o f.msgs)) + (IF m.valid THEN 1 ELSE 0)
          /\ Cardinality(Valid(ms \o f.msgs)) \in Nat
          /\ Frame!RawOf(ms \o f.msgs) \in Seq(Frame!Byte)
      BY <2>2, <2>3, MessageAdded
    <3>2. e.msgs = n
      BY <2>1
    <3> HIDE DEF n
    <3>3. Cardinality(Valid(ms \o n)) = Cardinality(Valid(ms \o f.msgs))
      BY <2>2, <3>1
    <3>4. Frame!RawOf(ms \o n) = Frame!RawOf(ms \o f.msgs) \o f.garbage
      BY <2>2, <3>1
    <3> QED BY <3>1, <3>2, <3>3, <3>4 DEF n
  <2>5. Reading(e)
    BY <2>1, <2>3, <2>4 DEF Reading
  <2>6. Whole(e, ms, u)
    <3> DEFINE r == Frame!RawOf(ms \o f.msgs)
    <3>1. r \in Seq(Frame!Byte) /\ Parts(u, r, f.garbage, f.inData)
      BY <2>4 DEF Whole
    <3> HIDE DEF r
    <3>2. Parts(u, r \o f.garbage, <<>>, f.inData)
      BY <2>3, <3>1, GarbageTaken
    <3> QED BY <2>1, <2>4, <3>2 DEF Whole, r
  <2>7. LastFrom(e, x)
    <3>1. \A i \in DOMAIN e.msgs : (i \in DOMAIN f.msgs /\ e.msgs[i] = f.msgs[i]) \/ e.msgs[i] = m
      BY <2>1, <2>2, <2>3
    <3> QED BY <2>1, <2>2, <3>1 DEF LastFrom
  <2>8. FoundSoFar(f, ms, u) => FoundSoFar(e, ms, u)
    BY <2>1, <2>4 DEF FoundSoFar, AllFound
  <2> QED BY <2>1, <2>5, <2>6, <2>7, <2>8 DEF e
<1> QED BY <1>1, <1>2

Round(f, ms, u, x) ==
  Reading(f) /\ LastFrom(f, x) /\ Whole(f, ms, u) /\ Len(f.garbage) < GarbageLimit

Stopped(f) == f.inData = <<>> \/ Frame!NotEnoughData(f.inData)

(* The whole ends with the data that are left.                                *)
LEMMA LeftAtEnd ==
  ASSUME NEW f, Reading(f), NEW ms \in Seq(ReadMessages), NEW u, Whole(f, ms, u)
  PROVE  /\ u \in Seq(Frame!Byte) /\ Len(u) \in Nat /\ Len(f.inData) \in Nat /\ Len(u) - Len(f.inData) \in Nat
         /\ \A k \in 1 .. Len(f.inData) : u[Len(u) - Len(f.inData) + k] = f.inData[k]
         /\ Frame!RawOf(ms \o f.msgs) \in Seq(Frame!Byte)
         /\ Frame!RawOf(ms \o f.msgs) \o f.garbage \in Seq(Frame!Byte)
<1> DEFINE r == Frame!RawOf(ms \o f.msgs)
<1>1. f.inData \in Seq(Frame!Byte) /\ f.garbage \in Seq(Frame!Byte) /\ f.msgs \in Seq(ReadMessages)
  BY DEF Reading
<1>2. ms \o f.msgs \in Seq(ReadMessages)
  BY <1>1, ConcatProperties
<1>3. r \in Seq(Frame!Byte)
  BY <1>2, RawOfIs
<1>4. r \o f.garbage \in Seq(Frame!Byte)
  BY <1>1, <1>3, ConcatProperties
<1>5. u = (r \o f.garbage) \o f.inData
  BY DEF Whole, Parts
<1> DEFINE a == r \o f.garbage
           d == f.inData
<1> HIDE DEF r
<1>8. a \in Seq(Frame!Byte) /\ d \in Seq(Frame!Byte) /\ u = a \o d
  BY <1>1, <1>4, <1>5
<1> HIDE DEF a, d
<1>9. /\ u \in Seq(Frame!Byte) /\ Len(u) = Len(a) + Len(d)
      /\ Len(a) \in Nat /\ Len(d) \in Nat
      /\ \A k \in 1 .. Len(d) : u[Len(u) - Len(d) + k] = d[k]
  BY ONLY <1>8, EndOf
<1>10. Len(u) \in Nat /\ Len(u) - Len(d) \in Nat
  BY ONLY <1>9
<1>6. /\ u \in Seq(Frame!Byte) /\ Len(f.inData) \in Nat
      /\ \A k \in 1 .. Len(f.inData) : u[Len(u) - Len(f.inData) + k] = f.inData[k]
  BY <1>9 DEF d
<1>7. Len(u) \in Nat /\ Len(u) - Len(f.inData) \in Nat
  BY <1>10 DEF d
<1> QED BY <1>3, <1>4, <1>6, <1>7 DEF r

LEMMA FrameTaken ==
  ASSUME NEW f, NEW ms \in Seq(ReadMessages), NEW u, NEW x, Round(f, ms, u, x), Frame!Success(f.inData)
  PROVE  LET e == Frame!TakeFrame(f)
         IN  /\ Round(e, ms, u, x)
             /\ FoundSoFar(f, ms, u) => FoundSoFar(e, ms, u)
             /\ Len(e.inData) = Len(f.inData) - 2
<1> DEFINE g == Frame!CheckGarbage(f)
           d == f.inData
           a == FirstTwo(d)
           b == AfterTwo(d)
           m == Frame!Message(a, TRUE)
           r == Frame!RawOf(ms \o g.msgs)
           e == Frame!TakeFrame(f)
<1>1. /\ Reading(g) /\ g.garbage = <<>> /\ g.inData = d /\ LastFrom(g, x) /\ Whole(g, ms, u)
      /\ FoundSoFar(f, ms, u) => FoundSoFar(g, ms, u)
  BY GarbageChecked DEF Round
<1>2. Len(d) >= 2 /\ d[1].byte = "h" /\ d[2].byte = "p"
  BY DEF Frame!Success
<1>3. d \in Seq(Frame!Byte) /\ g.msgs \in Seq(ReadMessages) /\ DOMAIN g = {"inData", "garbage", "msgs"}
  BY <1>1 DEF Reading
<1>4. /\ DOMAIN e = {"inData", "garbage", "msgs"} /\ e.garbage = g.garbage
      /\ e.msgs = Append(g.msgs, m) /\ e.inData = b
  <2> HIDE DEF m, g
  <2>1. e = [g EXCEPT !.msgs = Append(@, m), !.inData = SubSeq(@, 3, Len(@))]
    BY DEF Frame!TakeFrame, g, m, FirstTwo
  <2>2. /\ DOMAIN e = {"inData", "garbage", "msgs"} /\ e.garbage = g.garbage
        /\ e.msgs = Append(g.msgs, m) /\ e.inData = SubSeq(g.inData, 3, Len(g.inData))
    BY <1>3, <2>1
  <2> QED BY <1>1, <2>2 DEF AfterTwo
<1>5. /\ u \in Seq(Frame!Byte) /\ Len(u) \in Nat /\ Len(d) \in Nat /\ Len(u) - Len(d) \in Nat
      /\ \A k \in 1 .. Len(d) : u[Len(u) - Len(d) + k] = d[k]
      /\ r \in Seq(Frame!Byte)
  <2>1. Reading(g) /\ Whole(g, ms, u) /\ g.inData = d
    BY <1>1
  <2> HIDE DEF g, d
  <2>2. /\ u \in Seq(Frame!Byte) /\ Len(u) \in Nat /\ Len(g.inData) \in Nat /\ Len(u) - Len(g.inData) \in Nat
        /\ \A k \in 1 .. Len(g.inData) : u[Len(u) - Len(g.inData) + k] = g.inData[k]
        /\ Frame!RawOf(ms \o g.msgs) \in Seq(Frame!Byte)
    BY <2>1, LeftAtEnd
  <2> QED BY <2>1, <2>2
<1> HIDE DEF g, e, d
<1>6. /\ Parts(u, r \o a, <<>>, b) /\ a \in Seq(Frame!Byte) /\ Len(a) = 2 /\ a[2] = d[2]
      /\ b \in Seq(Frame!Byte) /\ Len(b) = Len(d) - 2 /\ \A k \in 1 .. Len(d) - 2 : b[k] = d[k + 2]
  <2>1. d \in Seq(Frame!Byte) /\ r \in Seq(Frame!Byte) /\ Len(d) >= 2
    BY <1>2, <1>3, <1>5
  <2>2. a = FirstTwo(d) /\ b = AfterTwo(d)
    OBVIOUS
  <2>3. Parts(u, r, <<>>, d)
    BY <1>1 DEF Whole
  <2> DEFINE v == r \o a
  <2>4. v = r \o a
    OBVIOUS
  <2> HIDE DEF a, b, r, v
  <2>5. /\ a \o b = d /\ a \in Seq(Frame!Byte) /\ Len(a) = 2 /\ a[2] = d[2]
        /\ b \in Seq(Frame!Byte) /\ Len(b) = Len(d) - 2 /\ \A k \in 1 .. Len(d) - 2 : b[k] = d[k + 2]
    BY ONLY <2>1, <2>2, TwoTaken
  <2>6. Parts(u, v, <<>>, b)
    BY ONLY <2>1, <2>3, <2>4, <2>5, PartsTaken
  <2> QED BY <2>5, <2>6, Zenon DEF v
<1>7. m \in ReadMessages /\ m.raw = a /\ m.valid
  BY <1>6 DEF Frame!Message, ReadMessages, Sources
<1> HIDE DEF a, b, m
<1>8. /\ e.msgs \in Seq(ReadMessages) /\ Frame!RawOf(ms \o e.msgs) = r \o a
      /\ Cardinality(Valid(ms \o e.msgs)) = Cardinality(Valid(ms \o g.msgs)) + 1
      /\ Cardinality(Valid(ms \o g.msgs)) \in Nat
  <2> DEFINE n == Append(g.msgs, m)
  <2>1. /\ n \in Seq(ReadMessages)
        /\ Frame!RawOf(ms \o n) = r \o m.raw
        /\ Cardinality(Valid(ms \o n)) = Cardinality(Valid(ms \o g.msgs)) + (IF m.valid THEN 1 ELSE 0)
        /\ Cardinality(Valid(ms \o g.msgs)) \in Nat
    BY <1>3, <1>7, MessageAdded
  <2> HIDE DEF n, r
  <2>2. Cardinality(Valid(ms \o n)) = Cardinality(Valid(ms \o g.msgs)) + 1
    BY <1>7, <2>1
  <2>3. Frame!RawOf(ms \o n) = r \o a
    BY <1>7, <2>1
  <2>4. e.msgs = n
    BY <1>4 DEF n
  <2> QED BY <2>1, <2>2, <2>3, <2>4
<1> HIDE DEF r
<1>9. Reading(e)
  BY <1>1, <1>4, <1>6, <1>8 DEF Reading
<1>10. Whole(e, ms, u)
  BY <1>1, <1>4, <1>6, <1>8 DEF Whole
<1>11. LastFrom(e, x)
  <2>1. \A i \in 2 .. Len(d) : d[i].from = x
    BY <1>1 DEF LastFrom
  <2>2. d[2].from = x
    BY <1>2, <1>5, <2>1
  <2>3. \A i \in 2 .. Len(b) : b[i].from = x
    <3> SUFFICES ASSUME NEW i \in 2 .. Len(b) PROVE b[i].from = x
      OBVIOUS
    <3>1. i \in 1 .. Len(d) - 2 /\ i + 2 \in 2 .. Len(d)
      BY <1>5, <1>6
    <3> QED BY <1>6, <2>1, <3>1
  <2>4. \A i \in DOMAIN e.msgs : (i \in DOMAIN g.msgs /\ e.msgs[i] = g.msgs[i]) \/ e.msgs[i] = m
    BY <1>3, <1>4, <1>7
  <2> QED BY <1>1, <1>4, <1>6, <1>7, <2>2, <2>3, <2>4 DEF LastFrom
<1>12. ASSUME FoundSoFar(f, ms, u) PROVE FoundSoFar(e, ms, u)
  <2> DEFINE c == Len(u) - Len(d)
  <2>1. c \in Nat /\ c + 1 \in Nat /\ (c + 1) + 1 = c + 2 /\ c + 2 <= Len(u) /\ Len(u) - Len(b) = c + 2
    BY <1>2, <1>5, <1>6
  <2>2. u[c + 1].byte = "h" /\ u[c + 2].byte = "p"
    <3>1. \A k \in 1 .. Len(d) : u[c + k] = d[k]
      BY <1>5
    <3>2. 1 \in 1 .. Len(d) /\ 2 \in 1 .. Len(d)
      BY <1>2, <1>5
    <3> HIDE DEF c
    <3>3. u[c + 1] = d[1] /\ u[c + 2] = d[2]
      BY ONLY <3>1, <3>2
    <3> QED BY <1>2, <3>3
  <2> HIDE DEF c
  <2>3. Cardinality(Valid(ms \o g.msgs)) = Cardinality(Pairs(u, c)) /\ Divides(u, c)
    BY <1>1, <1>12 DEF FoundSoFar, AllFound, c
  <2>4. ~(c >= 1 /\ u[c].byte = "h" /\ u[c + 1].byte = "p")
    BY <2>2
  <2>5. Cardinality(Pairs(u, c)) \in Nat /\ Cardinality(Pairs(u, c + 1)) = Cardinality(Pairs(u, c))
    <3>1. /\ Cardinality(Pairs(u, c)) \in Nat
          /\ Cardinality(Pairs(u, c + 1)) = Cardinality(Pairs(u, c))
                + (IF c >= 1 /\ u[c].byte = "h" /\ u[c + 1].byte = "p" THEN 1 ELSE 0)
      BY <2>1, PairsNext
    <3> QED BY <2>4, <3>1
  <2>6. Cardinality(Pairs(u, c + 2)) = Cardinality(Pairs(u, c + 1)) + 1
    <3>1. c + 1 >= 1 /\ u[c + 1].byte = "h" /\ u[(c + 1) + 1].byte = "p"
      BY <2>1, <2>2
    <3>2. Cardinality(Pairs(u, (c + 1) + 1)) = Cardinality(Pairs(u, c + 1)) + 1
      BY <2>1, <3>1, PairsNext
    <3> QED BY <2>1, <3>2
  <2>7. Divides(u, c + 2)
    BY <2>2 DEF Divides
  <2>8. Cardinality(Valid(ms \o e.msgs)) = Cardinality(Pairs(u, c + 2))
    BY <1>8, <2>3, <2>5, <2>6
  <2> QED BY <1>4, <2>1, <2>7, <2>8 DEF FoundSoFar, AllFound
<1>13. Len(e.garbage) < GarbageLimit
  BY <1>1, <1>4, FrameAssumption
<1> QED BY <1>4, <1>6, <1>9, <1>10, <1>11, <1>12, <1>13 DEF Round, e, d

LEMMA NoiseTaken ==
  ASSUME NEW f, NEW ms \in Seq(ReadMessages), NEW u, NEW x, Round(f, ms, u, x),
         f.inData # <<>>, ~Frame!NotEnoughData(f.inData), ~Frame!Success(f.inData)
  PROVE  LET e == Frame!TakeGarbage(f)
         IN  /\ Round(e, ms, u, x)
             /\ FoundSoFar(f, ms, u) => FoundSoFar(e, ms, u)
             /\ Len(e.inData) = Len(f.inData) - 1
<1> DEFINE d == f.inData
           h == Append(f.garbage, Head(d))
           t == Tail(d)
           g == [f EXCEPT !.garbage = h, !.inData = t]
           r == Frame!RawOf(ms \o f.msgs)
           e == Frame!TakeGarbage(f)
<1>1. Reading(f) /\ LastFrom(f, x) /\ Whole(f, ms, u) /\ Len(f.garbage) < GarbageLimit
  BY DEF Round
<1>2. /\ d \in Seq(Frame!Byte) /\ f.garbage \in Seq(Frame!Byte) /\ f.msgs \in Seq(ReadMessages)
      /\ DOMAIN f = {"inData", "garbage", "msgs"} /\ d # <<>>
  BY <1>1 DEF Reading
<1>3. DOMAIN g = {"inData", "garbage", "msgs"} /\ g.garbage = h /\ g.inData = t /\ g.msgs = f.msgs
  <2> HIDE DEF h, t
  <2> QED BY <1>2
<1>4. /\ u \in Seq(Frame!Byte) /\ Len(u) \in Nat /\ Len(d) \in Nat /\ Len(u) - Len(d) \in Nat
      /\ \A k \in 1 .. Len(d) : u[Len(u) - Len(d) + k] = d[k]
      /\ r \in Seq(Frame!Byte)
  <2> HIDE DEF d
  <2>1. /\ u \in Seq(Frame!Byte) /\ Len(u) \in Nat /\ Len(f.inData) \in Nat /\ Len(u) - Len(f.inData) \in Nat
        /\ \A k \in 1 .. Len(f.inData) : u[Len(u) - Len(f.inData) + k] = f.inData[k]
        /\ Frame!RawOf(ms \o f.msgs) \in Seq(Frame!Byte)
    BY <1>1, LeftAtEnd
  <2> QED BY <2>1 DEF d
<1>5. Parts(u, r, f.garbage, d)
  BY <1>1 DEF Whole
<1>6. /\ Parts(u, r, h, t) /\ h \in Seq(Frame!Byte) /\ t \in Seq(Frame!Byte)
      /\ Len(h) = Len(f.garbage) + 1 /\ Len(t) = Len(d) - 1
      /\ \A k \in 1 .. Len(d) - 1 : t[k] = d[k + 1]
  <2> DEFINE b == f.garbage
  <2>1. d \in Seq(Frame!Byte) /\ b \in Seq(Frame!Byte) /\ r \in Seq(Frame!Byte) /\ d # <<>> /\ Parts(u, r, b, d)
    BY <1>2, <1>4, <1>5
  <2> HIDE DEF b, d, r
  <2>2. /\ Parts(u, r, Append(b, Head(d)), Tail(d))
        /\ Append(b, Head(d)) \in Seq(Frame!Byte) /\ Tail(d) \in Seq(Frame!Byte)
        /\ Len(Append(b, Head(d))) = Len(b) + 1 /\ Len(Tail(d)) = Len(d) - 1
        /\ \A k \in 1 .. Len(d) - 1 : Tail(d)[k] = d[k + 1]
    BY ONLY <2>1, HeadTaken
  <2> QED BY <2>2 DEF b
<1> HIDE DEF h, t, g
<1>7. Reading(g)
  BY <1>2, <1>3, <1>6 DEF Reading
<1>8. Whole(g, ms, u)
  BY <1>3, <1>6 DEF Whole
<1>9. Len(d) >= 1
  BY <1>2, <1>4, EmptySeq
<1>10. LastFrom(g, x)
  <2>1. \A i \in 2 .. Len(d) : d[i].from = x
    BY <1>1 DEF LastFrom
  <2>2. \A i \in 2 .. Len(t) : t[i].from = x
    <3> SUFFICES ASSUME NEW i \in 2 .. Len(t) PROVE t[i].from = x
      OBVIOUS
    <3> HIDE DEF d
    <3>1. i \in 1 .. Len(d) - 1 /\ i + 1 \in 2 .. Len(d)
      BY <1>4, <1>6
    <3> QED BY <1>6, <2>1, <3>1
  <2> QED BY <1>1, <1>3, <2>2 DEF LastFrom
<1>11. ASSUME FoundSoFar(f, ms, u) PROVE FoundSoFar(g, ms, u)
  <2> DEFINE c == Len(u) - Len(d)
  <2>1. c \in Nat /\ c + 1 \in Nat /\ (c + 1) + 1 = c + 2 /\ c + 1 <= Len(u) /\ Len(u) - Len(t) = c + 1
        /\ Len(u) = c + Len(d)
    BY <1>4, <1>6, <1>9
  <2>2. \A k \in 1 .. Len(d) : u[c + k] = d[k]
    BY <1>4
  <2>3. AllFound(ms \o f.msgs, u, c)
    BY <1>11 DEF FoundSoFar
  <2> HIDE DEF c
  <2>4. Cardinality(Valid(ms \o f.msgs)) = Cardinality(Pairs(u, c)) /\ Divides(u, c)
    BY <2>3 DEF AllFound
  <2>5. Cardinality(Pairs(u, c + 1)) = Cardinality(Pairs(u, c))
    <3>1. /\ Cardinality(Pairs(u, c)) \in Nat
          /\ Cardinality(Pairs(u, c + 1)) = Cardinality(Pairs(u, c))
                + (IF c >= 1 /\ u[c].byte = "h" /\ u[c + 1].byte = "p" THEN 1 ELSE 0)
      BY <2>1, PairsNext
    <3>2. ~(c >= 1 /\ u[c].byte = "h" /\ u[c + 1].byte = "p")
      BY <2>4 DEF Divides
    <3> QED BY <3>1, <3>2
  <2>6. Divides(u, c + 1)
    <3>1. u[c + 1] = d[1]
      BY <1>4, <1>9, <2>2
    <3>2. CASE Len(d) = 1
      <4>1. d[1].byte # "h"
        BY <3>2 DEF Frame!NotEnoughData
      <4> QED BY <3>1, <4>1 DEF Divides
    <3>3. CASE Len(d) >= 2
      <4>1. u[c + 2] = d[2]
        BY <1>4, <2>2, <3>3
      <4>2. ~(d[1].byte = "h" /\ d[2].byte = "p")
        BY <3>3 DEF Frame!Success
      <4>3. c + 1 < Len(u) /\ u[(c + 1) + 1] = d[2]
        BY <1>4, <2>1, <3>3, <4>1
      <4> HIDE DEF d
      <4> QED BY <3>1, <4>2, <4>3 DEF Divides
    <3>4. Len(d) = 1 \/ Len(d) >= 2
      <4> DEFINE n == Len(d)
      <4>1. n \in Nat /\ n >= 1
        BY <1>4, <1>9
      <4> HIDE DEF n
      <4>2. n = 1 \/ n >= 2
        BY <4>1
      <4> QED BY <4>2 DEF n
    <3> QED BY <3>2, <3>3, <3>4
  <2> QED BY <1>3, <2>1, <2>4, <2>5, <2>6 DEF FoundSoFar, AllFound
<1>12. CASE Len(h) >= GarbageLimit
  <2> DEFINE q == Frame!CheckGarbage(g)
  <2>1. e = q
    BY <1>3, <1>12 DEF Frame!TakeGarbage, g, h, t
  <2>2. /\ Reading(q) /\ q.garbage = <<>> /\ q.inData = g.inData /\ LastFrom(q, x) /\ Whole(q, ms, u)
        /\ FoundSoFar(g, ms, u) => FoundSoFar(q, ms, u)
    BY <1>7, <1>8, <1>10, GarbageChecked
  <2> HIDE DEF q
  <2>3. Len(q.garbage) < GarbageLimit
    BY <2>2, FrameAssumption
  <2>4. Round(q, ms, u, x)
    BY <2>2, <2>3 DEF Round
  <2> HIDE DEF e
  <2>5. /\ Round(e, ms, u, x)
        /\ FoundSoFar(f, ms, u) => FoundSoFar(e, ms, u)
        /\ Len(e.inData) = Len(d) - 1
    BY <1>3, <1>6, <1>11, <2>1, <2>2, <2>4
  <2> QED BY <2>5 DEF e
<1>13. CASE ~(Len(h) >= GarbageLimit)
  <2>1. e = g
    BY <1>3, <1>13 DEF Frame!TakeGarbage, g, h, t
  <2>2. Len(g.garbage) < GarbageLimit
    BY <1>3, <1>6, <1>13, FrameAssumption
  <2>3. Round(g, ms, u, x)
    BY <1>7, <1>8, <1>10, <2>2 DEF Round
  <2> HIDE DEF e
  <2>4. /\ Round(e, ms, u, x)
        /\ FoundSoFar(f, ms, u) => FoundSoFar(e, ms, u)
        /\ Len(e.inData) = Len(d) - 1
    BY <1>3, <1>6, <1>11, <2>1, <2>3
  <2> QED BY <2>4 DEF e
<1> QED BY <1>12, <1>13

LEMMA OnceTaken ==
  ASSUME NEW f, NEW ms \in Seq(ReadMessages), NEW u, NEW x, Round(f, ms, u, x)
  PROVE  LET e == Frame!ConsumeOnce(f)
         IN  /\ Round(e, ms, u, x)
             /\ FoundSoFar(f, ms, u) => FoundSoFar(e, ms, u)
             /\ Stopped(f) => e = f
             /\ ~Stopped(f) => Len(e.inData) + 1 <= Len(f.inData)
<1> DEFINE e == Frame!ConsumeOnce(f)
           d == f.inData
<1>0. Len(d) \in Nat
  BY DEF Round, Reading
<1>1. CASE Stopped(f)
  <2>1. e = f
    BY <1>1 DEF Frame!ConsumeOnce, Stopped
  <2> HIDE DEF e
  <2>2. /\ Round(e, ms, u, x)
        /\ FoundSoFar(f, ms, u) => FoundSoFar(e, ms, u)
    BY <2>1
  <2> QED BY <1>1, <2>1, <2>2 DEF e
<1>2. CASE ~Stopped(f) /\ Frame!Success(d)
  <2>1. e = Frame!TakeFrame(f)
    BY <1>2 DEF Frame!ConsumeOnce, Stopped
  <2>2. /\ Round(Frame!TakeFrame(f), ms, u, x)
        /\ FoundSoFar(f, ms, u) => FoundSoFar(Frame!TakeFrame(f), ms, u)
        /\ Len(Frame!TakeFrame(f).inData) = Len(d) - 2
    BY <1>2, FrameTaken
  <2> HIDE DEF e, d
  <2>3. /\ Round(e, ms, u, x)
        /\ FoundSoFar(f, ms, u) => FoundSoFar(e, ms, u)
        /\ Len(e.inData) + 1 <= Len(d)
    BY <1>0, <2>1, <2>2
  <2> QED BY <1>2, <2>3 DEF e, d
<1>3. CASE ~Stopped(f) /\ ~Frame!Success(d)
  <2>1. e = Frame!TakeGarbage(f)
    BY <1>3 DEF Frame!ConsumeOnce, Stopped
  <2>2. /\ Round(Frame!TakeGarbage(f), ms, u, x)
        /\ FoundSoFar(f, ms, u) => FoundSoFar(Frame!TakeGarbage(f), ms, u)
        /\ Len(Frame!TakeGarbage(f).inData) = Len(d) - 1
    BY <1>3, NoiseTaken DEF Stopped
  <2> HIDE DEF e, d
  <2>3. /\ Round(e, ms, u, x)
        /\ FoundSoFar(f, ms, u) => FoundSoFar(e, ms, u)
        /\ Len(e.inData) + 1 <= Len(d)
    BY <1>0, <2>1, <2>2
  <2> QED BY <1>3, <2>3 DEF e, d
<1> QED BY <1>1, <1>2, <1>3

(* The rounds of the loop.                                                   *)
Rounds(f, g) == g = [k \in 0 .. Len(f.inData) |-> IF k = 0 THEN f ELSE Frame!ConsumeOnce(g[k - 1])]

LEMMA RoundsExist ==
  ASSUME NEW f, Len(f.inData) \in Nat PROVE \E g : Rounds(f, g)
<1> DEFINE Part(n, g) == g = [k \in 0 .. n |-> IF k = 0 THEN f ELSE Frame!ConsumeOnce(g[k - 1])]
           T == {n \in Nat : \E g : Part(n, g)}
<1>1. 0 \in T
  <2>1. Part(0, [k \in {0} |-> f])
    BY 0 .. 0 = {0}
  <2> QED BY <2>1
<1>2. ASSUME NEW n \in Nat, n \in T PROVE n + 1 \in T
  <2>1. PICK g : Part(n, g)
    BY <1>2
  <2> DEFINE h == [k \in 0 .. n + 1 |-> IF k \in 0 .. n THEN g[k] ELSE Frame!ConsumeOnce(g[k - 1])]
  <2>2. Part(n + 1, h)
    <3>1. ASSUME NEW k \in 0 .. n + 1 PROVE h[k] = IF k = 0 THEN f ELSE Frame!ConsumeOnce(h[k - 1])
      <4>1. CASE k \in 0 .. n
        <5>1. g[k] = IF k = 0 THEN f ELSE Frame!ConsumeOnce(g[k - 1])
          BY <2>1, <4>1
        <5>2. k # 0 => k - 1 \in 0 .. n /\ h[k - 1] = g[k - 1]
          BY <4>1
        <5> HIDE DEF Part
        <5> QED BY <4>1, <5>1, <5>2
      <4>2. CASE k \notin 0 .. n
        <5>1. k # 0 /\ k - 1 \in 0 .. n /\ h[k - 1] = g[k - 1]
          BY <4>2
        <5> HIDE DEF Part
        <5> QED BY <4>2, <5>1
      <4> QED BY <4>1, <4>2
    <3>2. h = [k \in 0 .. n + 1 |-> h[k]]
      OBVIOUS
    <3> HIDE DEF h
    <3> QED BY <3>1, <3>2
  <2>3. \E x : Part(n + 1, x)
    <3> HIDE DEF h, Part
    <3> QED BY <2>2
  <2> HIDE DEF h, Part
  <2> QED BY <2>3
<1> HIDE DEF T
<1>4. Len(f.inData) \in T
  <2> DEFINE m == Len(f.inData)
  <2>1. \A k \in 0 .. m : k \in T
    <3>1. m \in Nat /\ \A k \in 0 .. m : k < m /\ k \in T => k + 1 \in T
      BY <1>2
    <3> HIDE DEF m
    <3> QED BY <1>1, <3>1, UpTo
  <2> QED BY <2>1
<1> QED BY <1>4 DEF T, Rounds

(* After as many rounds as there were bytes the loop has nothing to do.       *)
LEMMA Consumed ==
  ASSUME NEW f, NEW ms \in Seq(ReadMessages), NEW u, NEW x, Round(f, ms, u, x)
  PROVE  LET e == Frame!Consume(f)
         IN  /\ Round(e, ms, u, x)
             /\ FoundSoFar(f, ms, u) => FoundSoFar(e, ms, u)
             /\ Stopped(e)
<1> DEFINE n == Len(f.inData)
           g == CHOOSE g : Rounds(f, g)
           T == {k \in 0 .. n : /\ Round(g[k], ms, u, x)
                                /\ FoundSoFar(f, ms, u) => FoundSoFar(g[k], ms, u)
                                /\ Stopped(g[k]) \/ Len(g[k].inData) + k <= n}
           e == Frame!Consume(f)
<1>1. n \in Nat
  BY DEF Round, Reading
<1>2. Rounds(f, g)
  BY <1>1, RoundsExist
<1>3. e = g[n]
  BY DEF Frame!Consume, Rounds
<1> HIDE DEF g, e
<1>4. g[0] = f /\ \A k \in 1 .. n : g[k] = Frame!ConsumeOnce(g[k - 1])
  <2>1. g = [k \in 0 .. n |-> IF k = 0 THEN f ELSE Frame!ConsumeOnce(g[k - 1])]
    BY <1>2 DEF Rounds
  <2> HIDE DEF n
  <2>2. \A k \in 0 .. n : g[k] = IF k = 0 THEN f ELSE Frame!ConsumeOnce(g[k - 1])
    BY <2>1
  <2>3. 0 \in 0 .. n /\ \A k \in 1 .. n : k \in 0 .. n /\ k # 0
    BY <1>1
  <2> QED BY <2>2, <2>3
<1>5. 0 \in T
  BY <1>1, <1>4
<1>6. ASSUME NEW k \in 0 .. n, k < n, k \in T PROVE k + 1 \in T
  <2>1. k \in Nat /\ k + 1 \in 1 .. n /\ k + 1 \in 0 .. n /\ (k + 1) - 1 = k
    BY <1>1, <1>6
  <2> DEFINE a == g[k]
             b == g[k + 1]
  <2>2. b = Frame!ConsumeOnce(a)
    BY <1>4, <2>1
  <2>3. /\ Round(a, ms, u, x)
        /\ FoundSoFar(f, ms, u) => FoundSoFar(a, ms, u)
        /\ Stopped(a) \/ Len(a.inData) + k <= n
    BY <1>6
  <2> HIDE DEF a, b, n
  <2>4. /\ Round(b, ms, u, x)
        /\ FoundSoFar(a, ms, u) => FoundSoFar(b, ms, u)
        /\ Stopped(a) => b = a
        /\ ~Stopped(a) => Len(b.inData) + 1 <= Len(a.inData)
    BY <2>2, <2>3, OnceTaken
  <2>5. Stopped(b) \/ Len(b.inData) + (k + 1) <= n
    <3>1. Len(a.inData) \in Nat /\ Len(b.inData) \in Nat
      BY <2>3, <2>4 DEF Round, Reading
    <3>2. CASE Stopped(a)
      BY <2>4, <3>2
    <3>3. CASE ~Stopped(a)
      <4> DEFINE p == Len(a.inData)
                 q == Len(b.inData)
      <4>1. p \in Nat /\ q \in Nat /\ p + k <= n /\ q + 1 <= p
        BY <2>3, <2>4, <3>1, <3>3
      <4> HIDE DEF p, q
      <4>2. q + (k + 1) <= n
        BY <1>1, <2>1, <4>1
      <4> QED BY <4>2 DEF q
    <3> QED BY <3>2, <3>3
  <2> QED BY <2>1, <2>3, <2>4, <2>5 DEF a, b
<1>7. \A k \in 0 .. n : k \in T
  <2> HIDE DEF T, n
  <2> QED BY <1>1, <1>5, <1>6, UpTo
<1>8. n \in T
  <2> HIDE DEF T, n
  <2> QED BY <1>1, <1>7
<1>9. /\ Round(e, ms, u, x)
      /\ FoundSoFar(f, ms, u) => FoundSoFar(e, ms, u)
      /\ Stopped(e) \/ Len(e.inData) + n <= n
  <2> HIDE DEF n
  <2> QED BY <1>3, <1>8
<1>10. Stopped(e)
  <2>1. e.inData \in Seq(Frame!Byte) /\ Len(e.inData) \in Nat
    BY <1>9 DEF Round, Reading
  <2>2. CASE Len(e.inData) + n <= n
    <3>1. Len(e.inData) = 0
      <4> HIDE DEF n
      <4> QED BY <1>1, <2>1, <2>2
    <3> QED BY <2>1, <3>1, EmptySeq DEF Stopped
  <2> QED BY <1>9, <2>2
<1> QED BY <1>9, <1>10 DEF e

LEMMA StoppedIsShort ==
  ASSUME NEW f, Reading(f), Stopped(f)
  PROVE  Len(f.inData) < 2
<1>1. CASE f.inData = <<>>
  <2>1. Len(f.inData) = 0
    BY <1>1
  <2> QED BY <2>1
<1>2. CASE Frame!NotEnoughData(f.inData)
  <2>1. Len(f.inData) = 1
    BY <1>2 DEF Frame!NotEnoughData
  <2> QED BY <2>1
<1> QED BY <1>1, <1>2 DEF Stopped

LEMMA ChunkIs ==
  ASSUME NEW x \in Clients \cup {"typed"}, NEW data \in Frame!Chunks(x)
  PROVE  /\ data \in Seq(Frame!Byte) /\ Len(data) \in Nat /\ Len(data) >= 1
         /\ \A i \in 1 .. Len(data) : data[i].from = x
         /\ Head(data) = data[1]
<1>0. PICK n \in 1 .. MaxChunk : \E s \in [1 .. n -> {"h", "p", "x"}] :
        data = [i \in DOMAIN s |-> [byte |-> s[i], from |-> x]]
  BY DEF Frame!Chunks
<1>1. PICK s \in [1 .. n -> {"h", "p", "x"}] : data = [i \in 1 .. n |-> [byte |-> s[i], from |-> x]]
  BY <1>0
<1>2. n \in Nat /\ n >= 1
  BY FrameAssumption
<1>3. \A i \in 1 .. n : data[i] \in Frame!Byte /\ data[i].from = x
  BY <1>1 DEF Frame!Byte
<1>4. data \in Seq(Frame!Byte) /\ Len(data) = n
  <2>1. data = [i \in 1 .. n |-> data[i]]
    BY <1>1
  <2> QED BY <1>2, <1>3, <2>1
<1> QED BY <1>2, <1>3, <1>4

(* The calls that come after others have their bytes behind those before.       *)
LEMMA PartsAdded ==
  ASSUME NEW B, NEW r \in Seq(B), NEW g \in Seq(B), NEW d \in Seq(B), NEW y \in Seq(B), NEW u, Parts(u, r, g, d),
         NEW v, v = u \o y, NEW e, e = d \o y
  PROVE  Parts(v, r, g, e)
<1> DEFINE a == r \o g
<1>1. a \in Seq(B)
  BY ConcatProperties
<1>2. u = a \o d
  BY DEF Parts
<1> HIDE DEF a
<1>3. (a \o d) \o y = a \o (d \o y)
  BY ONLY <1>1, d \in Seq(B), y \in Seq(B), Associates
<1>4. v = a \o e
  BY <1>2, <1>3
<1> QED BY <1>4 DEF Parts, a

LEMMA FoundAdded ==
  ASSUME NEW ms, NEW u \in Seq(Frame!Byte), NEW y \in Seq(Frame!Byte), NEW c \in Nat, c <= Len(u), AllFound(ms, u, c),
         NEW v, v = u \o y
  PROVE  AllFound(ms, v, c)
<1> DEFINE n == Len(u)
           m == Len(y)
<1>1. n \in Nat /\ m \in Nat /\ c <= n /\ Len(v) = n + m /\ \A i \in 1 .. n : v[i] = u[i]
  BY ConcatProperties
<1>2. Pairs(v, c) = Pairs(u, c)
  <2>1. \A i \in 1 .. c - 1 : v[i] = u[i] /\ v[i + 1] = u[i + 1]
    <3> HIDE DEF n, m
    <3> QED BY <1>1
  <2> QED BY <2>1 DEF Pairs
<1>3. Divides(v, c)
  <2>1. c >= 1 /\ u[c].byte = "h" => c < n /\ u[c + 1].byte # "p"
    BY DEF AllFound, Divides
  <2> HIDE DEF n, m
  <2> SUFFICES ASSUME c >= 1, v[c].byte = "h" PROVE c < Len(v) /\ v[c + 1].byte # "p"
    BY DEF Divides
  <2>2. v[c] = u[c]
    BY <1>1
  <2>3. c < n /\ u[c + 1].byte # "p"
    BY <2>1, <2>2
  <2>4. v[c + 1] = u[c + 1]
    BY <1>1, <2>3
  <2> QED BY <1>1, <2>3, <2>4
<1> QED BY <1>2, <1>3 DEF AllFound

(* When nothing or one byte is left, all pairs were counted.                   *)
LEMMA FoundAll ==
  ASSUME NEW ms, NEW u, NEW c \in Nat, Len(u) \in Nat, Len(u) - c \in {0, 1}, AllFound(ms, u, c)
  PROVE  Cardinality(Valid(ms)) = Cardinality(Pairs(u, Len(u)))
<1>1. Cardinality(Valid(ms)) = Cardinality(Pairs(u, c)) /\ Divides(u, c)
  BY DEF AllFound
<1>2. CASE Len(u) = c
  BY <1>1, <1>2
<1>3. CASE Len(u) = c + 1
  <2>1. /\ Cardinality(Pairs(u, c)) \in Nat
        /\ Cardinality(Pairs(u, c + 1)) = Cardinality(Pairs(u, c))
              + (IF c >= 1 /\ u[c].byte = "h" /\ u[c + 1].byte = "p" THEN 1 ELSE 0)
    BY PairsNext
  <2>2. ~(c >= 1 /\ u[c].byte = "h" /\ u[c + 1].byte = "p")
    BY <1>1 DEF Divides
  <2> QED BY <1>1, <1>3, <2>1, <2>2
<1> QED BY <1>2, <1>3

LEMMA PartsFlushed ==
  ASSUME NEW B, NEW r \in Seq(B), NEW g \in Seq(B), NEW d \in Seq(B), NEW u, Parts(u, r, g, d), NEW v, v = g \o d
  PROVE  Parts(u, r, v, <<>>)
<1>1. r \o g \o d = r \o (g \o d)
  BY ONLY r \in Seq(B), g \in Seq(B), d \in Seq(B), Associates
<1>2. r \o v \in Seq(B)
  BY ConcatProperties
<1>3. (r \o v) \o <<>> = r \o v
  BY <1>2, ConcatEmptySeq
<1> QED BY <1>1, <1>3 DEF Parts

LEMMA FlushedIs ==
  ASSUME NEW f, NEW ms \in Seq(ReadMessages), NEW u, NEW x, Round(f, ms, u, x)
  PROVE  LET e == Frame!Flush(f) IN Round(e, ms, u, x) /\ Len(e.inData) = 0
<1> DEFINE d == f.inData
           b == f.garbage
           h == b \o d
           g == [f EXCEPT !.garbage = h, !.inData = <<>>]
           e == Frame!Flush(f)
<1>1. CASE d = <<>>
  <2>1. e = f /\ Len(d) = 0
    BY <1>1 DEF Frame!Flush
  <2> QED BY <2>1
<1>2. CASE d # <<>>
  <2>1. /\ d \in Seq(Frame!Byte) /\ b \in Seq(Frame!Byte) /\ f.msgs \in Seq(ReadMessages)
        /\ DOMAIN f = {"inData", "garbage", "msgs"} /\ LastFrom(f, x)
        /\ Parts(u, Frame!RawOf(ms \o f.msgs), b, d)
    BY DEF Round, Reading, Whole
  <2>2. DOMAIN g = {"inData", "garbage", "msgs"} /\ g.garbage = h /\ g.inData = <<>> /\ g.msgs = f.msgs
    <3> HIDE DEF h
    <3> QED BY <2>1
  <2>3. h \in Seq(Frame!Byte) /\ <<>> \in Seq(Frame!Byte)
    BY <2>1, ConcatProperties
  <2>4. e = Frame!CheckGarbage(g)
    BY <1>2 DEF Frame!Flush
  <2> DEFINE r == Frame!RawOf(ms \o f.msgs)
  <2>5. r \in Seq(Frame!Byte)
    <3>1. ms \o f.msgs \in Seq(ReadMessages)
      BY <2>1, ConcatProperties
    <3> QED BY <3>1, RawOfIs
  <2>6. Parts(u, r, h, <<>>)
    <3>1. Parts(u, r, b, d) /\ h = b \o d
      BY <2>1
    <3> HIDE DEF r, b, d, h
    <3> QED BY ONLY <2>1, <2>5, <3>1, PartsFlushed
  <2> HIDE DEF g, h, e
  <2>7. Reading(g)
    BY <2>1, <2>2, <2>3 DEF Reading
  <2>8. Whole(g, ms, u)
    BY <2>2, <2>6 DEF Whole
  <2>9. LastFrom(g, x)
    <3>1. \A i \in 2 .. Len(g.inData) : FALSE
      BY <2>2
    <3> QED BY <2>1, <2>2, <3>1 DEF LastFrom
  <2> DEFINE q == Frame!CheckGarbage(g)
  <2>10. /\ Reading(q) /\ q.garbage = <<>> /\ q.inData = g.inData /\ LastFrom(q, x) /\ Whole(q, ms, u)
    BY <2>7, <2>8, <2>9, GarbageChecked
  <2> HIDE DEF q
  <2>11. Len(q.garbage) < GarbageLimit
    BY <2>10, FrameAssumption
  <2>12. Round(q, ms, u, x) /\ Len(q.inData) = 0
    BY <2>2, <2>10, <2>11 DEF Round
  <2>13. e = q
    BY <2>4 DEF q
  <2> QED BY <2>12, <2>13 DEF e
<1> QED BY <1>1, <1>2

(* The properties of the data change nothing else of the messages.             *)
LEMMA WithExtraIs ==
  ASSUME NEW ms \in Seq(ReadMessages), NEW data, NEW before, NEW p \in Sources, p = Frame!PropertiesOf(Head(data))
  PROVE  LET ns == Frame!WithExtra(ms, data, before)
         IN  /\ ns \in Seq(ReadMessages) /\ DOMAIN ns = DOMAIN ms
             /\ \A i \in DOMAIN ms : ns[i].raw = ms[i].raw /\ ns[i].valid = ms[i].valid /\ ns[i].extra = p
<1> DEFINE ns == Frame!WithExtra(ms, data, before)
<1>1. ns = [i \in DOMAIN ms |-> [ms[i] EXCEPT !.extra = p]]
  BY DEF Frame!WithExtra
<1>2. ASSUME NEW i \in DOMAIN ms
      PROVE  ns[i] \in ReadMessages /\ ns[i].raw = ms[i].raw /\ ns[i].valid = ms[i].valid /\ ns[i].extra = p
  <2>1. ms[i] \in ReadMessages /\ ns[i] = [ms[i] EXCEPT !.extra = p]
    BY <1>1
  <2> HIDE DEF ns
  <2> QED BY <2>1 DEF ReadMessages
<1>3. DOMAIN ms = 1 .. Len(ms) /\ Len(ms) \in Nat
  OBVIOUS
<1>4. DOMAIN ns = DOMAIN ms /\ ns = [i \in DOMAIN ms |-> ns[i]]
  BY <1>1
<1> HIDE DEF ns
<1>5. ns \in Seq(ReadMessages)
  BY <1>2, <1>3, <1>4
<1> QED BY <1>2, <1>4, <1>5 DEF ns

-----------------------------------------------------------------------------
(* The frame between two calls of read().                                     *)
FrameTyped ==
  /\ frame.inData \in Seq(Frame!Byte) /\ frame.garbage \in Seq(Frame!Byte) /\ out \in Seq(ReadMessages)
  /\ flushed \in BOOLEAN

FrameHolds ==
  /\ FrameTyped
  /\ Parts(input, Frame!RawOf(out), frame.garbage, frame.inData)
  /\ Len(frame.garbage) < GarbageLimit /\ Len(frame.inData) < 2
  /\ ~flushed => AllFound(out, input, Len(input) - Len(frame.inData))
  /\ Frame!NamesLastSource

(* What is given to the loop.                                                *)
Given(data) == [inData |-> frame.inData \o data, garbage |-> frame.garbage, msgs |-> <<>>]

LEMMA InputIs ==
  ASSUME FrameHolds
  PROVE  /\ input \in Seq(Frame!Byte) /\ Len(input) \in Nat /\ Len(frame.inData) \in Nat
         /\ Len(input) - Len(frame.inData) \in Nat /\ Frame!RawOf(out) \in Seq(Frame!Byte)
<1> DEFINE r == Frame!RawOf(out)
           g == frame.garbage
           d == frame.inData
           a == r \o g
<1>1. r \in Seq(Frame!Byte) /\ g \in Seq(Frame!Byte) /\ d \in Seq(Frame!Byte) /\ Parts(input, r, g, d)
  BY RawOfIs DEF FrameHolds, FrameTyped
<1> HIDE DEF r, g, d
<1>2. a \in Seq(Frame!Byte) /\ input = a \o d
  BY <1>1, ConcatProperties DEF Parts
<1> HIDE DEF a
<1>3. input \in Seq(Frame!Byte) /\ Len(input) = Len(a) + Len(d) /\ Len(a) \in Nat /\ Len(d) \in Nat
  BY ONLY <1>1, <1>2, EndOf
<1>4. Len(input) \in Nat /\ Len(input) - Len(d) \in Nat
  BY ONLY <1>3
<1> QED BY <1>1, <1>3, <1>4 DEF r, d

LEMMA GivenRound ==
  ASSUME FrameHolds, NEW x \in Clients \cup {"typed"}, NEW data \in Frame!Chunks(x), NEW u, u = input \o data
  PROVE  /\ Round(Given(data), out, u, x)
         /\ ~flushed => FoundSoFar(Given(data), out, u)
<1> DEFINE f == Given(data)
           d == frame.inData
           e == d \o data
           g == frame.garbage
           r == Frame!RawOf(out)
<1>1. /\ data \in Seq(Frame!Byte) /\ Len(data) \in Nat /\ \A i \in 1 .. Len(data) : data[i].from = x
  BY ChunkIs
<1>2. /\ d \in Seq(Frame!Byte) /\ g \in Seq(Frame!Byte) /\ r \in Seq(Frame!Byte) /\ Parts(input, r, g, d)
      /\ Len(g) < GarbageLimit /\ Len(d) < 2 /\ out \in Seq(ReadMessages)
  BY RawOfIs DEF FrameHolds, FrameTyped
<1>3. /\ input \in Seq(Frame!Byte) /\ Len(input) \in Nat /\ Len(d) \in Nat /\ Len(input) - Len(d) \in Nat
  BY InputIs
<1>4. f = [inData |-> e, garbage |-> g, msgs |-> <<>>]
  BY DEF Given
<1> HIDE DEF d, g, r
<1>5. /\ e \in Seq(Frame!Byte) /\ Len(e) = Len(d) + Len(data)
      /\ \A i \in 1 .. Len(d) + Len(data) : e[i] = IF i <= Len(d) THEN d[i] ELSE data[i - Len(d)]
  BY <1>1, <1>2, ConcatProperties
<1>6. Len(u) = Len(input) + Len(data) /\ u \in Seq(Frame!Byte)
  BY <1>1, <1>3, ConcatProperties
<1>7. Parts(u, r, g, e)
  <2>1. e = d \o data
    OBVIOUS
  <2> HIDE DEF e
  <2> QED BY ONLY <1>1, <1>2, <2>1, u = input \o data, PartsAdded
<1> HIDE DEF e, f
<1>8. /\ DOMAIN f = {"inData", "garbage", "msgs"} /\ f.inData = e /\ f.garbage = g /\ f.msgs = <<>>
      /\ <<>> \in Seq(ReadMessages)
  BY <1>4
<1>9. out \o f.msgs = out
  BY <1>2, <1>8, ConcatEmptySeq
<1>10. Reading(f)
  BY <1>2, <1>5, <1>8 DEF Reading
<1>11. LastFrom(f, x)
  <2>1. ASSUME NEW i \in 2 .. Len(e) PROVE e[i].from = x
    <3> DEFINE m == Len(d)
               n == Len(data)
    <3>1. m \in Nat /\ m < 2 /\ n \in Nat /\ i \in 2 .. m + n
      BY <1>1, <1>2, <1>3, <1>5, <2>1
    <3> HIDE DEF m, n
    <3>2. i \in 1 .. m + n /\ ~(i <= m) /\ i - m \in 1 .. n
      BY <3>1
    <3>3. e[i] = data[i - m]
      BY <1>5, <3>2 DEF m, n
    <3> QED BY <1>1, <3>2, <3>3 DEF n
  <2> QED BY <1>8, <2>1 DEF LastFrom
<1>12. Whole(f, out, u)
  BY <1>7, <1>8, <1>9 DEF Whole, r
<1>13. Round(f, out, u, x)
  BY <1>2, <1>8, <1>10, <1>11, <1>12 DEF Round
<1>14. ASSUME ~flushed PROVE FoundSoFar(f, out, u)
  <2> DEFINE c == Len(input) - Len(d)
  <2>1. AllFound(out, input, c)
    BY <1>14 DEF FrameHolds, d
  <2>2. c \in Nat /\ c <= Len(input) /\ Len(u) - Len(e) = c
    BY <1>1, <1>3, <1>5, <1>6
  <2> HIDE DEF c
  <2>3. AllFound(out, u, c)
    BY <1>1, <1>3, <2>1, <2>2, FoundAdded
  <2> QED BY <1>8, <1>9, <2>2, <2>3 DEF FoundSoFar
<1> QED BY <1>13, <1>14 DEF f

(* Messages that differ in their properties only.                            *)
LEMMA ExtraOnly ==
  ASSUME NEW os \in Seq(ReadMessages), NEW ms \in Seq(ReadMessages), NEW ns \in Seq(ReadMessages),
         DOMAIN ns = DOMAIN ms, \A i \in DOMAIN ms : ns[i].raw = ms[i].raw /\ ns[i].valid = ms[i].valid
  PROVE  /\ os \o ns \in Seq(ReadMessages)
         /\ Frame!RawOf(os \o ns) = Frame!RawOf(os \o ms)
         /\ Valid(os \o ns) = Valid(os \o ms)
<1> DEFINE a == os \o ms
           b == os \o ns
           k == Len(os)
           n == Len(ms)
<1>1. k \in Nat /\ n \in Nat /\ Len(ns) = n /\ DOMAIN ms = 1 .. n
  <2>1. DOMAIN ms = 1 .. Len(ms) /\ DOMAIN ns = 1 .. Len(ns) /\ Len(ms) \in Nat /\ Len(ns) \in Nat /\ Len(os) \in Nat
    BY LenProperties
  <2> QED BY <2>1
<1>2. /\ a \in Seq(ReadMessages) /\ Len(a) = k + n
      /\ \A i \in 1 .. k + n : a[i] = IF i <= k THEN os[i] ELSE ms[i - k]
  BY ConcatProperties
<1>3. /\ b \in Seq(ReadMessages) /\ Len(b) = k + n
      /\ \A i \in 1 .. k + n : b[i] = IF i <= k THEN os[i] ELSE ns[i - k]
  <2>1. /\ b \in Seq(ReadMessages) /\ Len(b) = k + Len(ns)
        /\ \A i \in 1 .. k + Len(ns) : b[i] = IF i <= k THEN os[i] ELSE ns[i - k]
    BY ConcatProperties
  <2> HIDE DEF b, k, n
  <2> QED BY <1>1, <2>1
<1> HIDE DEF a, b, k, n
<1>4. DOMAIN a = 1 .. k + n /\ DOMAIN b = 1 .. k + n
  BY <1>2, <1>3
<1>5. ASSUME NEW i \in 1 .. k + n PROVE a[i].raw = b[i].raw /\ a[i].valid = b[i].valid
  <2>1. i <= k \/ (~(i <= k) /\ i - k \in 1 .. n)
    BY <1>1
  <2> QED BY <1>1, <1>2, <1>3, <2>1
<1>6. Frame!RawOf(a) = Frame!RawOf(b)
  BY <1>4, <1>5, RawOfAlike
<1>7. Valid(a) = Valid(b)
  BY <1>4, <1>5 DEF Valid
<1> QED BY <1>3, <1>6, <1>7 DEF a, b

LEMMA ReadIs ==
  ASSUME FrameHolds, NEW x \in Clients \cup {"typed"}, NEW data \in Frame!Chunks(x), NEW u, u = input \o data,
         NEW final \in BOOLEAN
  PROVE  LET e == Frame!Read(data, final)
         IN  /\ e.inData \in Seq(Frame!Byte) /\ e.garbage \in Seq(Frame!Byte) /\ e.msgs \in Seq(ReadMessages)
             /\ Parts(u, Frame!RawOf(out \o e.msgs), e.garbage, e.inData)
             /\ Len(e.garbage) < GarbageLimit /\ Len(e.inData) < 2
             /\ ~flushed /\ ~final => AllFound(out \o e.msgs, u, Len(u) - Len(e.inData))
             /\ \A i \in DOMAIN e.msgs : e.msgs[i].valid => e.msgs[i].extra = Frame!PropertiesOf(e.msgs[i].raw[2])
<1> DEFINE f == Given(data)
           all1 == Frame!Consume(f)
           end == IF final THEN Frame!Flush(all1) ELSE all1
           p == Frame!PropertiesOf(Head(data))
           ns == Frame!WithExtra(end.msgs, data, frame.inData)
           e == Frame!Read(data, final)
<1>1. Round(f, out, u, x) /\ (~flushed => FoundSoFar(f, out, u))
  BY GivenRound
<1>2. out \in Seq(ReadMessages)
  BY DEF FrameHolds, FrameTyped
<1>3. /\ Round(all1, out, u, x)
      /\ FoundSoFar(f, out, u) => FoundSoFar(all1, out, u)
      /\ Stopped(all1)
  <2> HIDE DEF f
  <2> QED BY <1>1, <1>2, Consumed
<1>4. e = [end EXCEPT !.msgs = ns]
  BY DEF Frame!Read, Given
<1> HIDE DEF f, all1, e
<1>5. /\ Round(end, out, u, x) /\ Len(end.inData) < 2
      /\ ~flushed /\ ~final => FoundSoFar(end, out, u)
  <2>1. CASE final
    <3>1. Round(Frame!Flush(all1), out, u, x) /\ Len(Frame!Flush(all1).inData) = 0
      BY <1>2, <1>3, FlushedIs
    <3> QED BY <2>1, <3>1
  <2>2. CASE ~final
    <3>1. Len(all1.inData) < 2
      BY <1>3, StoppedIsShort DEF Round
    <3> QED BY <1>1, <1>3, <2>2, <3>1
  <2> QED BY <2>1, <2>2
<1> HIDE DEF end
<1>6. /\ DOMAIN end = {"inData", "garbage", "msgs"} /\ end.msgs \in Seq(ReadMessages)
      /\ end.inData \in Seq(Frame!Byte) /\ end.garbage \in Seq(Frame!Byte) /\ Len(end.garbage) < GarbageLimit
      /\ Parts(u, Frame!RawOf(out \o end.msgs), end.garbage, end.inData)
      /\ \A i \in DOMAIN end.msgs : end.msgs[i].valid => end.msgs[i].raw[2].from = x
  BY <1>5 DEF Round, Reading, LastFrom, Whole
<1>7. p \in Sources /\ p = (IF x = "typed" THEN "none" ELSE x)
  <2>1. Head(data).from = x
    BY ChunkIs
  <2>2. p = (IF x = "typed" THEN "none" ELSE x)
    BY <2>1 DEF Frame!PropertiesOf
  <2> HIDE DEF p
  <2> QED BY <2>2 DEF Sources
<1>8. /\ ns \in Seq(ReadMessages) /\ DOMAIN ns = DOMAIN end.msgs
      /\ \A i \in DOMAIN end.msgs : /\ ns[i].raw = end.msgs[i].raw /\ ns[i].valid = end.msgs[i].valid
                                    /\ ns[i].extra = p
  <2> DEFINE q == p
  <2>1. q \in Sources /\ q = Frame!PropertiesOf(Head(data))
    BY <1>7
  <2> HIDE DEF q
  <2>2. /\ ns \in Seq(ReadMessages) /\ DOMAIN ns = DOMAIN end.msgs
        /\ \A i \in DOMAIN end.msgs : ns[i].raw = end.msgs[i].raw /\ ns[i].valid = end.msgs[i].valid /\ ns[i].extra = q
    BY <1>6, <2>1, WithExtraIs
  <2> QED BY <2>1, <2>2
<1> HIDE DEF ns, p
<1>9. e.inData = end.inData /\ e.garbage = end.garbage /\ e.msgs = ns
  BY <1>4, <1>6
<1>10. Frame!RawOf(out \o ns) = Frame!RawOf(out \o end.msgs) /\ Valid(out \o ns) = Valid(out \o end.msgs)
  <2>1. \A i \in DOMAIN end.msgs : ns[i].raw = end.msgs[i].raw /\ ns[i].valid = end.msgs[i].valid
    BY <1>8
  <2> QED BY <1>2, <1>6, <1>8, <2>1, ExtraOnly
<1>11. Parts(u, Frame!RawOf(out \o e.msgs), e.garbage, e.inData)
  BY <1>6, <1>9, <1>10
<1>12. ASSUME ~flushed, ~final PROVE AllFound(out \o e.msgs, u, Len(u) - Len(e.inData))
  BY <1>5, <1>9, <1>10, <1>12 DEF FoundSoFar, AllFound
<1>13. ASSUME NEW i \in DOMAIN e.msgs, e.msgs[i].valid
       PROVE  e.msgs[i].extra = Frame!PropertiesOf(e.msgs[i].raw[2])
  <2>1. i \in DOMAIN end.msgs /\ end.msgs[i].valid /\ ns[i].raw = end.msgs[i].raw /\ ns[i].extra = p
    BY <1>8, <1>9, <1>13
  <2>2. end.msgs[i].raw[2].from = x
    BY <1>6, <2>1
  <2> QED BY <1>7, <1>9, <2>1, <2>2 DEF Frame!PropertiesOf
<1> QED BY <1>5, <1>6, <1>8, <1>9, <1>11, <1>12, <1>13 DEF e

LEMMA ReadsHold ==
  ASSUME FrameHolds, NEW x \in Clients \cup {"typed"}, NEW data \in Frame!Chunks(x), NEW final \in BOOLEAN,
         Frame!Reads(data, final)
  PROVE  FrameHolds' /\ Frame!Read(data, final).msgs \in Seq(ReadMessages)
<1> DEFINE e == Frame!Read(data, final)
           ns == e.msgs
           c == Len(input') - Len(e.inData)
<1>1. /\ input' = input \o data /\ frame' = [inData |-> e.inData, garbage |-> e.garbage]
      /\ out' = out \o ns /\ flushed' = (flushed \/ final)
  BY DEF Frame!Reads
<1>2. /\ e.inData \in Seq(Frame!Byte) /\ e.garbage \in Seq(Frame!Byte) /\ ns \in Seq(ReadMessages)
      /\ Parts(input', Frame!RawOf(out \o ns), e.garbage, e.inData)
      /\ Len(e.garbage) < GarbageLimit /\ Len(e.inData) < 2
      /\ ~flushed /\ ~final => AllFound(out \o ns, input', c)
      /\ \A i \in DOMAIN ns : ns[i].valid => ns[i].extra = Frame!PropertiesOf(ns[i].raw[2])
  <2> DEFINE u == input'
  <2>1. u = input \o data
    BY <1>1
  <2> HIDE DEF u
  <2>2. /\ e.inData \in Seq(Frame!Byte) /\ e.garbage \in Seq(Frame!Byte) /\ e.msgs \in Seq(ReadMessages)
        /\ Parts(u, Frame!RawOf(out \o e.msgs), e.garbage, e.inData)
        /\ Len(e.garbage) < GarbageLimit /\ Len(e.inData) < 2
        /\ ~flushed /\ ~final => AllFound(out \o e.msgs, u, Len(u) - Len(e.inData))
        /\ \A i \in DOMAIN e.msgs : e.msgs[i].valid => e.msgs[i].extra = Frame!PropertiesOf(e.msgs[i].raw[2])
    BY <2>1, ReadIs
  <2> QED BY <2>2 DEF u
<1>3. FrameTyped /\ Frame!NamesLastSource
  BY DEF FrameHolds
<1> HIDE DEF e
<1>4. frame'.inData = e.inData /\ frame'.garbage = e.garbage
  BY <1>1
<1>5. FrameTyped'
  <2>1. out' \in Seq(ReadMessages)
    BY <1>1, <1>2, <1>3, ConcatProperties DEF FrameTyped
  <2> QED BY <1>1, <1>2, <1>3, <1>4, <2>1 DEF FrameTyped
<1>6. Frame!NamesLastSource'
  <2> DEFINE k == Len(out)
             n == Len(ns)
  <2>1. out \in Seq(ReadMessages) /\ k \in Nat /\ n \in Nat /\ DOMAIN ns = 1 .. n /\ DOMAIN out = 1 .. k
    BY <1>2, <1>3, LenProperties DEF FrameTyped
  <2>2. out' \in Seq(ReadMessages) /\ Len(out') = k + n /\ \A i \in 1 .. k + n : out'[i] = IF i <= k THEN out[i] ELSE ns[i - k]
    BY <1>1, <1>2, <2>1, ConcatProperties
  <2>3. DOMAIN out' = 1 .. k + n
    BY <2>2
  <2> HIDE DEF k, n, ns
  <2> SUFFICES ASSUME NEW i \in 1 .. k + n, out'[i].valid
               PROVE  out'[i].extra = Frame!PropertiesOf(out'[i].raw[2])
    BY <2>3 DEF Frame!NamesLastSource, Frame!PropertiesOf
  <2>4. CASE i <= k
    <3>1. i \in DOMAIN out /\ out'[i] = out[i]
      BY <2>1, <2>2, <2>4
    <3>2. out[i].valid => out[i].extra = Frame!PropertiesOf(out[i].raw[2])
      BY <1>3, <3>1 DEF Frame!NamesLastSource
    <3> QED BY <3>1, <3>2
  <2>5. CASE ~(i <= k)
    <3>1. i - k \in DOMAIN ns /\ out'[i] = ns[i - k]
      BY <2>1, <2>2, <2>5
    <3> QED BY <1>2, <3>1
  <2> QED BY <2>4, <2>5
<1>7. ASSUME ~flushed' PROVE AllFound(out', input', Len(input') - Len(frame'.inData))
  <2>1. ~flushed /\ ~final
    BY <1>1, <1>7
  <2> QED BY <1>1, <1>2, <1>4, <2>1
<1>8. Parts(input', Frame!RawOf(out'), frame'.garbage, frame'.inData)
  BY <1>1, <1>2, <1>4
<1>9. Len(frame'.garbage) < GarbageLimit /\ Len(frame'.inData) < 2
  BY <1>2, <1>4
<1>10. FrameHolds'
  BY <1>5, <1>6, <1>7, <1>8, <1>9 DEF FrameHolds, AllFound, Parts, Frame!RawOf, Divides, Valid, Pairs
<1> QED BY <1>2, <1>10 DEF e

(* A step that leaves the frame alone.                                       *)
LEMMA FrameAlone ==
  ASSUME FrameHolds, UNCHANGED <<frame, input, out, flushed>>
  PROVE  FrameHolds'
BY DEF FrameHolds, FrameTyped, Frame!NamesLastSource, Frame!PropertiesOf, AllFound, Divides, Valid, Pairs, Parts, Frame!RawOf

FrameSound == FrameHolds /\ sendList \in Seq(ReadMessages) /\ Frame!SentAsListed

LEMMA FrameStarts ==
  ASSUME Frame!Init PROVE FrameSound
<1>1. /\ frame = [inData |-> <<>>, garbage |-> <<>>] /\ sendList = <<>> /\ input = <<>> /\ out = <<>>
      /\ flushed = FALSE /\ written = <<>>
  BY DEF Frame!Init
<1>2. frame.inData = <<>> /\ frame.garbage = <<>> /\ Len(<<>>) = 0
  BY <1>1
<1>3. FrameTyped /\ sendList \in Seq(ReadMessages)
  <2>1. out \in Seq(ReadMessages) /\ sendList \in Seq(ReadMessages)
    BY <1>1
  <2>2. frame.inData \in Seq(Frame!Byte) /\ frame.garbage \in Seq(Frame!Byte)
    BY <1>2
  <2>3. flushed \in BOOLEAN
    BY <1>1
  <2> QED BY <2>1, <2>2, <2>3 DEF FrameTyped
<1>4. Parts(input, Frame!RawOf(out), frame.garbage, frame.inData)
  <2>1. <<>> \o <<>> \o <<>> = <<>>
    OBVIOUS
  <2>2. Frame!RawOf(out) = <<>>
    BY <1>1, RawOfIs
  <2> QED BY <1>1, <1>2, <2>1, <2>2 DEF Parts
<1>5. Len(frame.garbage) < GarbageLimit /\ Len(frame.inData) < 2
  BY <1>2, FrameAssumption
<1>6. AllFound(out, input, Len(input) - Len(frame.inData))
  <2>1. Valid(out) = {} /\ Len(input) - Len(frame.inData) = 0
    BY <1>1, <1>2 DEF Valid
  <2>2. Pairs(input, 0) = {}
    BY DEF Pairs
  <2>3. Divides(input, 0)
    BY DEF Divides
  <2> QED BY <2>1, <2>2, <2>3 DEF AllFound
<1>7. Frame!NamesLastSource /\ Frame!SentAsListed
  BY <1>1 DEF Frame!NamesLastSource, Frame!SentAsListed
<1> QED BY <1>3, <1>4, <1>5, <1>6, <1>7 DEF FrameSound, FrameHolds

LEMMA FrameNext ==
  ASSUME FrameSound, Frame!Next PROVE FrameSound'
<1>1. FrameHolds /\ sendList \in Seq(ReadMessages) /\ Frame!SentAsListed /\ out \in Seq(ReadMessages)
  BY DEF FrameSound, FrameHolds, FrameTyped
<1>2. ASSUME NEW client \in Clients, NEW data \in Frame!Chunks(client), Frame!SocketDataReceived(data)
      PROVE  FrameSound'
  <2>1. FrameHolds'
    BY <1>1, <1>2, ReadsHold DEF Frame!SocketDataReceived
  <2> QED BY <1>1, <1>2, <2>1 DEF Frame!SocketDataReceived, FrameSound, Frame!SentAsListed
<1>3. ASSUME NEW data \in Frame!Chunks("typed"), Frame!AcceptConverted(data)
      PROVE  FrameSound'
  <2>1. Frame!Reads(data, TRUE)
    BY <1>3 DEF Frame!AcceptConverted
  <2>2. FrameHolds' /\ Frame!Read(data, TRUE).msgs \in Seq(ReadMessages)
    BY <1>1, <2>1, ReadsHold
  <2>3. sendList' \in Seq(ReadMessages)
    <3> DEFINE ns == Frame!Read(data, TRUE).msgs
    <3>1. sendList' = sendList \o ns
      BY <1>3 DEF Frame!AcceptConverted
    <3> HIDE DEF ns
    <3> QED BY <1>1, <2>2, <3>1, ConcatProperties DEF ns
  <2> QED BY <1>1, <1>3, <2>2, <2>3 DEF Frame!AcceptConverted, FrameSound, Frame!SentAsListed
<1>4. ASSUME NEW data \in Frame!Chunks("typed"), Frame!AcceptRaw(data)
      PROVE  FrameSound'
  <2>1. FrameHolds'
    BY <1>1, <1>4, FrameAlone DEF Frame!AcceptRaw
  <2>2. Frame!Message(data, FALSE) \in ReadMessages
    BY ChunkIs DEF Frame!Message, ReadMessages, Sources
  <2>3. sendList' \in Seq(ReadMessages)
    BY <1>1, <1>4, <2>2, AppendProperties DEF Frame!AcceptRaw
  <2> QED BY <1>1, <1>4, <2>1, <2>3 DEF Frame!AcceptRaw, FrameSound, Frame!SentAsListed
<1>5. ASSUME NEW msg \in Frame!InLists, Frame!Duplicate(msg)
      PROVE  FrameSound'
  <2>1. FrameHolds'
    BY <1>1, <1>5, FrameAlone DEF Frame!Duplicate
  <2>2. msg \in ReadMessages
    BY <1>1 DEF Frame!InLists
  <2>3. sendList' \in Seq(ReadMessages)
    BY <1>1, <1>5, <2>2, AppendProperties DEF Frame!Duplicate, Frame!Clone
  <2> QED BY <1>1, <1>5, <2>1, <2>3 DEF Frame!Duplicate, FrameSound, Frame!SentAsListed
<1>6. ASSUME NEW i \in DOMAIN sendList, Frame!Send(i)
      PROVE  FrameSound'
  <2>1. FrameHolds' /\ sendList' = sendList
    BY <1>1, <1>6, FrameAlone DEF Frame!Send
  <2>2. Frame!SentAsListed'
    <3>1. written' = <<[listed |-> sendList[i].raw, bytes |-> sendList[i].raw]>>
      BY <1>6 DEF Frame!Send, Frame!Clone
    <3> QED BY <3>1 DEF Frame!SentAsListed
  <2> QED BY <1>1, <2>1, <2>2 DEF FrameSound
<1> QED BY <1>2, <1>3, <1>4, <1>5, <1>6 DEF Frame!Next

FrameRuns == subject = "frame" => FrameSound

LEMMA CardinalityAlike == \A S : Frame!Cardinality(S) = Cardinality(S)
BY DEF Frame!Cardinality, Cardinality

LEMMA FrameIsRight ==
  ASSUME FrameSound
  PROVE  /\ Frame!NothingLost /\ Frame!FramesFound /\ Frame!LittleIsKept
         /\ Frame!NamesLastSource /\ Frame!SentAsListed
<1>1. FrameHolds /\ Frame!SentAsListed
  BY DEF FrameSound
<1>2. Frame!NothingLost
  BY <1>1 DEF FrameHolds, Parts, Frame!NothingLost
<1>3. Frame!LittleIsKept /\ Frame!NamesLastSource
  BY <1>1 DEF FrameHolds, Frame!LittleIsKept
<1>4. Frame!FramesFound
  <2> SUFFICES ASSUME ~flushed
               PROVE  Cardinality({i \in DOMAIN out : out[i].valid})
                        = Cardinality({i \in 1 .. Len(input) - 1 : input[i].byte = "h" /\ input[i + 1].byte = "p"})
    BY CardinalityAlike DEF Frame!FramesFound
  <2> DEFINE c == Len(input) - Len(frame.inData)
  <2>1. AllFound(out, input, c)
    BY <1>1 DEF FrameHolds
  <2>2. c \in Nat /\ Len(input) \in Nat /\ Len(input) - c \in {0, 1}
    <3>1. Len(input) \in Nat /\ Len(frame.inData) \in Nat /\ Len(input) - Len(frame.inData) \in Nat
      BY <1>1, InputIs
    <3>2. Len(frame.inData) < 2
      BY <1>1 DEF FrameHolds
    <3> DEFINE n == Len(input)
               m == Len(frame.inData)
    <3>3. n \in Nat /\ m \in Nat /\ n - m \in Nat /\ m < 2
      BY <3>1, <3>2
    <3> HIDE DEF n, m
    <3>4. n - (n - m) \in {0, 1}
      BY <3>3
    <3> QED BY <3>1, <3>4 DEF n, m
  <2> HIDE DEF c
  <2>3. Cardinality(Valid(out)) = Cardinality(Pairs(input, Len(input)))
    BY <2>1, <2>2, FoundAll
  <2> QED BY <2>3 DEF Valid, Pairs
<1> QED BY <1>1, <1>2, <1>3, <1>4

LEMMA FrameInvariant == Spec => []FrameRuns
<1>1. Init => FrameRuns
  BY FrameStarts DEF Init, FrameRuns
<1>2. FrameRuns /\ [Next]_vars => FrameRuns'
  <2> SUFFICES ASSUME FrameRuns, [Next]_vars, subject' = "frame" PROVE FrameSound'
    BY DEF FrameRuns
  <2>1. CASE FrameStep /\ UNCHANGED subject
    BY <2>1, FrameNext DEF FrameStep, FrameRuns
  <2>2. CASE UNCHANGED <<subject, frameVars>>
    <3>1. FrameHolds /\ sendList \in Seq(ReadMessages) /\ Frame!SentAsListed
      BY <2>2 DEF FrameRuns, FrameSound
    <3>2. FrameHolds'
      BY <2>2, <3>1, FrameAlone DEF frameVars
    <3> QED BY <2>2, <3>1, <3>2 DEF frameVars, FrameSound, Frame!SentAsListed
  <2>3. (FrameStep /\ UNCHANGED subject) \/ UNCHANGED <<subject, frameVars>>
    BY DEF Next, vars, keepVars, SettingsStep, SerialStep, MsgFilesStep, FilesStep, NumberStep, TextStep, MemberStep
  <2> QED BY <2>1, <2>2, <2>3
<1> QED BY <1>1, <1>2, PTL DEF Spec

(* However the bytes are cut into calls, whoever sends them and whatever noise  *)
(* is between them: each is in one message, in order, or kept by the frame; all *)
(* messages are found until a final call breaks one up; noise is kept up to the *)
(* limit; a message is named after who sent the last of its bytes; and what is  *)
(* sent is the bytes that are listed (readDataImpl(), ToolsFrameBase.cpp).      *)
THEOREM BytesAreRead == Spec => []BytesBecomeMessages
<1>1. FrameRuns => BytesBecomeMessages
  BY FrameIsRight DEF FrameRuns, BytesBecomeMessages
<1> QED BY <1>1, FrameInvariant, PTL

-----------------------------------------------------------------------------
(* The files of messages.  The elements of a list at some of its positions.   *)
LEMMA Taken ==
  ASSUME NEW n \in Nat, NEW K \in SUBSET (1 .. n)
  PROVE  \E at : /\ at \in [1 .. Cardinality(K) -> K] /\ Cardinality(K) \in Nat
                 /\ \A s : MsgFiles!AtPositions(s, K) = [m \in 1 .. Cardinality(K) |-> s[at[m]]]
<1> DEFINE upto(k) == {i \in K : i <= k}
           rank == [k \in K |-> Cardinality(upto(k))]
           c == Cardinality(K)
           at == [m \in 1 .. c |-> CHOOSE k \in K : Cardinality(upto(k)) = m]
<1>0. IsFiniteSet(K) /\ K \subseteq Nat
  <2>1. n \in Int /\ 1 \in Int
    OBVIOUS
  <2>2. IsFiniteSet(1 .. n)
    BY <2>1, FS_Interval
  <2>3. IsFiniteSet(K)
    BY <2>2, FS_Subset
  <2> QED BY <2>3
<1>1. c \in Nat
  BY <1>0, FS_CardinalityType
<1>2. ASSUME NEW k \in K
      PROVE  IsFiniteSet(upto(k)) /\ Cardinality(upto(k)) \in 1..c
  <2>1. upto(k) \in SUBSET K /\ k \in upto(k)
    BY <1>0
  <2>2. IsFiniteSet(upto(k)) /\ Cardinality(upto(k)) <= c
    BY <1>0, <2>1, FS_Subset
  <2>3. Cardinality(upto(k)) \in Nat /\ Cardinality(upto(k)) # 0
    BY <2>1, <2>2, FS_CardinalityType, FS_EmptySet
  <2> QED BY <1>1, <2>2, <2>3
<1>3. ASSUME NEW k \in K, NEW l \in K, k < l PROVE Cardinality(upto(k)) < Cardinality(upto(l))
  <2>1. upto(k) \in SUBSET upto(l) /\ l \in upto(l) /\ l \notin upto(k)
    <3>1. k \in Nat /\ l \in Nat /\ \A i \in K : i \in Nat
      BY <1>0
    <3>2. \A i \in K : i <= k => i <= l
      BY <1>3, <3>1
    <3>3. l <= l /\ ~(l <= k)
      BY <1>3, <3>1
    <3> QED BY <3>2, <3>3
  <2>2. Cardinality(upto(k)) <= Cardinality(upto(l)) /\ Cardinality(upto(k)) # Cardinality(upto(l))
    BY <1>2, <2>1, FS_Subset
  <2> QED BY <1>2, <2>2
<1>4. ASSUME NEW k \in K, NEW l \in K, Cardinality(upto(k)) = Cardinality(upto(l)) PROVE k = l
  <2>1. k \in Nat /\ l \in Nat /\ Cardinality(upto(k)) \in Nat /\ Cardinality(upto(l)) \in Nat
    BY <1>0, <1>2
  <2>2. ~(k < l) /\ ~(l < k)
    <3> HIDE DEF upto
    <3> QED BY <1>3, <1>4, <2>1
  <2> QED BY <2>1, <2>2
<1>5. rank \in Injection(K, 1..c)
  <2> HIDE DEF upto
  <2> QED BY <1>2, <1>4 DEF Injection, IsInjective
<1>6. IsFiniteSet(1..c) /\ Cardinality(1..c) = c
  BY <1>1, FS_Interval
<1>7. rank \in Surjection(K, 1..c)
  <2> HIDE DEF rank
  <2> QED BY <1>0, <1>5, <1>6, FS_Injection
<1>8. ASSUME NEW m \in 1..c PROVE \E k \in K : Cardinality(upto(k)) = m
  <2>1. PICK k \in K : rank[k] = m
    BY <1>7 DEF Surjection
  <2> QED BY <2>1
<1>9. \A m \in 1 .. c : at[m] \in K
  <2> HIDE DEF upto
  <2> QED BY <1>8
<1>10. at \in [1 .. c -> K]
  <2> HIDE DEF upto
  <2> QED BY <1>9
<1>11. ASSUME NEW s PROVE MsgFiles!AtPositions(s, K) = [m \in 1 .. c |-> s[at[m]]]
  <2>1. MsgFiles!AtPositions(s, K)
          = [m \in 1 .. Cardinality(K) |-> s[CHOOSE k \in K : Cardinality({i \in K : i <= k}) = m]]
    BY Zenon DEF MsgFiles!AtPositions, MsgFiles!Cardinality, Cardinality
  <2>2. MsgFiles!AtPositions(s, K) = [m \in 1 .. c |-> s[CHOOSE k \in K : Cardinality(upto(k)) = m]]
    BY <2>1
  <2> HIDE DEF upto, c
  <2> QED BY <2>2
<1> HIDE DEF at
<1> QED BY <1>1, <1>10, <1>11

(* The forms are tried in their order.                                        *)
Fitting(id, data) == {f \in MsgFiles!Forms(id) : data \in FormsOf[protocol][id][f]}

LEMMA FormsAre ==
  ASSUME protocol \in DOMAIN FormsOf, NEW id
  PROVE  MsgFiles!Forms(id) \in SUBSET (Nat \ {0}) /\ \A f \in MsgFiles!Forms(id) : 1 .. f \subseteq MsgFiles!Forms(id)
<1>1. CASE id \in DOMAIN FormsOf[protocol]
  <2> DEFINE n == Len(FormsOf[protocol][id])
  <2>1. n \in Nat /\ DOMAIN FormsOf[protocol][id] = 1 .. n
    BY <1>1, MsgFilesAssumption
  <2>2. MsgFiles!Forms(id) = 1 .. n
    BY <1>1, <2>1 DEF MsgFiles!Forms
  <2> HIDE DEF n
  <2> QED BY <2>1, <2>2
<1>2. CASE id \notin DOMAIN FormsOf[protocol]
  BY <1>2 DEF MsgFiles!Forms
<1> QED BY <1>1, <1>2

LEMMA FirstFits ==
  ASSUME protocol \in DOMAIN FormsOf, NEW id, NEW data, Fitting(id, data) # {}
  PROVE  /\ MsgFiles!FirstForm(id, data) \in Fitting(id, data)
         /\ \A f \in Fitting(id, data) : MsgFiles!FirstForm(id, data) <= f
<1> DEFINE S == Fitting(id, data)
           First(f) == f \in MsgFiles!Forms(id) /\ MsgFiles!Decodes(id, f, data)
                       /\ \A g \in 1 .. f - 1 : ~MsgFiles!Decodes(id, g, data)
           c == MsgFiles!FirstForm(id, data)
<1>1. S \subseteq Nat \ {0} /\ \A f \in MsgFiles!Forms(id) : 1 .. f \subseteq MsgFiles!Forms(id)
  BY FormsAre DEF Fitting
<1>2. PICK x \in S : \A y \in S : x <= y
  <2>1. S \subseteq Nat /\ S # {}
    BY <1>1
  <2> HIDE DEF S
  <2> QED BY <2>1, Least
<1>3. \A f : f \in S <=> f \in MsgFiles!Forms(id) /\ MsgFiles!Decodes(id, f, data)
  BY DEF Fitting, MsgFiles!Decodes
<1>4. x \in Nat \ {0} /\ x \in MsgFiles!Forms(id)
  BY <1>1, <1>2, <1>3
<1> HIDE DEF S
<1>5. First(x)
  <2> SUFFICES ASSUME NEW g \in 1 .. x - 1, MsgFiles!Decodes(id, g, data) PROVE FALSE
    BY <1>2, <1>3
  <2>1. g \in MsgFiles!Forms(id) /\ g \in Nat /\ g < x
    BY <1>1, <1>4
  <2>2. g \in S
    BY <1>3, <2>1
  <2> QED BY <1>2, <1>4, <2>1, <2>2
<1>6. First(c)
  <2>1. c = CHOOSE f \in MsgFiles!Forms(id) : MsgFiles!Decodes(id, f, data) /\ \A g \in 1 .. f - 1 : ~MsgFiles!Decodes(id, g, data)
    BY DEF MsgFiles!FirstForm
  <2> HIDE DEF c
  <2> QED BY <1>5, <2>1
<1>7. c \in S /\ c \in Nat \ {0}
  BY <1>1, <1>3, <1>6
<1>8. ASSUME NEW f \in S PROVE c <= f
  <2>1. f \in Nat \ {0} /\ MsgFiles!Decodes(id, f, data)
    BY <1>1, <1>3
  <2>2. f \notin 1 .. c - 1
    BY <1>6, <2>1
  <2> HIDE DEF c
  <2> QED BY <1>7, <2>1, <2>2
<1> QED BY <1>7, <1>8 DEF S

(* createMsgObjectFrom() makes a message whenever one of the forms decodes     *)
(* the data, and of the form that is expected.                                *)
LEMMA FormIs ==
  ASSUME protocol \in DOMAIN FormsOf, NEW e, e.idx = 1 \/ e.idx = e.form
  PROVE  /\ MsgFiles!CanCreate(e) <=> Fitting(e.id, e.data) # {}
         /\ Fitting(e.id, e.data) # {} =>
              MsgFiles!Form(e) = IF e.idx = e.form /\ e.form \in Fitting(e.id, e.data) THEN e.form
                                 ELSE MsgFiles!FirstForm(e.id, e.data)
<1> DEFINE S == Fitting(e.id, e.data)
           c == MsgFiles!FirstForm(e.id, e.data)
<1>1. S \subseteq Nat \ {0}
  BY FormsAre DEF Fitting
<1>2. MsgFiles!Form(e) = IF e.idx > 1 /\ e.idx \in S THEN e.idx
                         ELSE IF S = {} THEN 0 ELSE CHOOSE f \in S : \A g \in S : f <= g
  BY DEF MsgFiles!Form, MsgFiles!Decodes, Fitting
<1>3. ASSUME S # {} PROVE c \in S /\ \A f \in S : c <= f
  BY <1>3, FirstFits
<1> HIDE DEF S, c
<1>4. ASSUME S # {} PROVE (CHOOSE f \in S : \A g \in S : f <= g) = c
  <2> DEFINE d == CHOOSE f \in S : \A g \in S : f <= g
  <2>1. d \in S /\ \A g \in S : d <= g
    BY <1>3, <1>4
  <2>2. c \in S /\ d \in S /\ c <= d /\ d <= c /\ c \in Nat /\ d \in Nat
    BY <1>1, <1>3, <1>4, <2>1
  <2> HIDE DEF d
  <2>3. d = c
    BY <2>2
  <2> QED BY <2>3 DEF d
<1>5. CASE S = {}
  BY <1>2, <1>5 DEF MsgFiles!CanCreate, S
<1>6. CASE S # {}
  <2>1. MsgFiles!Form(e) = IF e.idx > 1 /\ e.idx \in S THEN e.idx ELSE c
    BY <1>2, <1>4, <1>6
  <2>2. MsgFiles!Form(e) \in S
    BY <1>3, <1>6, <2>1
  <2>3. MsgFiles!CanCreate(e)
    BY <1>1, <2>2 DEF MsgFiles!CanCreate
  <2>4. MsgFiles!Form(e) = IF e.idx = e.form /\ e.form \in S THEN e.form ELSE c
    <3>1. CASE e.idx = e.form /\ e.form \in S
      <4>1. e.idx \in Nat \ {0} /\ e.idx \in S
        BY <1>1, <3>1
      <4>2. CASE e.idx > 1
        BY <2>1, <3>1, <4>1, <4>2
      <4>3. CASE ~(e.idx > 1)
        <5>0. e.idx = 1
          <6> DEFINE x == e.idx
          <6>1. x \in Nat \ {0} /\ ~(x > 1)
            BY <4>1, <4>3
          <6> HIDE DEF x
          <6>2. x = 1
            BY <6>1
          <6> QED BY <6>2 DEF x
        <5>1. 1 \in S /\ c \in Nat \ {0} /\ c <= 1
          BY <1>1, <1>3, <1>6, <4>1, <5>0
        <5>2. c = 1
          BY <5>1
        <5> QED BY <2>1, <3>1, <4>3, <5>0, <5>1, <5>2
      <4> QED BY <4>2, <4>3
    <3>2. CASE ~(e.idx = e.form /\ e.form \in S)
      <4>1. ~(e.idx > 1 /\ e.idx \in S)
        <5>1. CASE e.idx = 1
          <6>1. ~(1 > 1)
            OBVIOUS
          <6> QED BY <5>1, <6>1
        <5>2. CASE e.idx = e.form
          BY <3>2, <5>2
        <5> QED BY <5>1, <5>2
      <4> QED BY <2>1, <3>2, <4>1
    <3> QED BY <3>1, <3>2
  <2> QED BY <1>6, <2>3, <2>4 DEF S, c
<1> QED BY <1>5, <1>6

(* The lists that are saved: what was received, or what was composed.          *)
IsMsg(m) ==
  m = [id |-> m.id, form |-> m.form, idx |-> m.idx, data |-> m.data, type |-> m.type, stamp |-> m.stamp,
       comment |-> m.comment, extra |-> m.extra, delay |-> m.delay, repeat |-> m.repeat, count |-> m.count]
Received(m) ==
  IsMsg(m) /\ m.idx = 1 /\ m.stamp \in 1 .. MaxTime /\ m.delay = 0 /\ m.repeat = 0 /\ m.count = 0
Composed(m) ==
  IsMsg(m) /\ m.type = "none" /\ m.stamp = 0 /\ (m.idx = 1 \/ m.idx = m.form) /\ (m.repeat # 0 \/ m.count # 0)
AllReceived == \A i \in DOMAIN msgs : Received(msgs[i])
AllComposed == \A i \in DOMAIN msgs : Composed(msgs[i])
ListSound ==
  /\ Len(msgs) \in 0 .. MaxMsgs /\ DOMAIN msgs = 1 .. Len(msgs)
  /\ Len(msgs) = 0 => msgs = <<>>
  /\ AllReceived \/ (Len(msgs) # 0 /\ AllComposed)

(* The file has all there is to know of them.                                 *)
LEMMA SavedIs ==
  ASSUME NEW m
  PROVE  /\ Received(m) => MsgFiles!Saved(m, "recv") = m
         /\ Composed(m) => MsgFiles!Saved(m, "send") = m
<1>1. ASSUME Received(m) PROVE MsgFiles!Saved(m, "recv") = m
  <2>1. MsgFiles!Saved(m, "recv") = [m EXCEPT !.delay = 0, !.repeat = 0, !.count = 0]
    BY DEF MsgFiles!Saved, MsgFiles!SavedRecv
  <2> QED BY <1>1, <2>1 DEF Received, IsMsg
<1>2. ASSUME Composed(m) PROVE MsgFiles!Saved(m, "send") = m
  <2>1. MsgFiles!Saved(m, "send") = [m EXCEPT !.stamp = 0, !.type = "none"]
    BY DEF MsgFiles!Saved, MsgFiles!SavedSend
  <2> QED BY <1>2, <2>1 DEF Composed, IsMsg
<1> QED BY <1>1, <1>2

LEMMA FitsIs ==
  ASSUME NEW id, NEW data
  PROVE  data \in MsgFiles!Contents(id) <=> Fitting(id, data) # {}
BY DEF MsgFiles!Contents, Fitting

LEMMA CreatedIs ==
  ASSUME protocol \in DOMAIN FormsOf, NEW m, Received(m) \/ Composed(m)
  PROVE  /\ MsgFiles!CanCreate(m) <=> m.data \in MsgFiles!Contents(m.id)
         /\ MsgFiles!CanCreate(m) => /\ MsgFiles!Plain(MsgFiles!Created(m)) = MsgFiles!Plain(MsgFiles!Kept(m))
                                     /\ MsgFiles!Created(m).id \in DOMAIN FormsOf[protocol]
<1>1. IsMsg(m) /\ (m.idx = 1 \/ m.idx = m.form)
  BY DEF Received, Composed
<1>2. MsgFiles!CanCreate(m) <=> Fitting(m.id, m.data) # {}
  BY <1>1, FormIs
<1>3. ASSUME MsgFiles!CanCreate(m) PROVE MsgFiles!Plain(MsgFiles!Created(m)) = MsgFiles!Plain(MsgFiles!Kept(m))
  <2> DEFINE keeps == m.idx = m.form /\ m.form \in Fitting(m.id, m.data)
             first == MsgFiles!FirstForm(m.id, m.data)
             form == MsgFiles!Form(m)
  <2>1. form = IF keeps THEN m.form ELSE first
    BY <1>1, <1>2, <1>3, FormIs
  <2>2. MsgFiles!Kept(m) = IF keeps THEN m ELSE [m EXCEPT !.form = first]
    BY DEF MsgFiles!Kept, MsgFiles!Decodes, Fitting
  <2>3. MsgFiles!Created(m) = [m EXCEPT !.form = form, !.idx = form]
    BY DEF MsgFiles!Created
  <2> HIDE DEF keeps, first, form
  <2>4. MsgFiles!Plain(MsgFiles!Created(m)) = [m EXCEPT !.form = form, !.idx = 1]
    BY <1>1, <2>3 DEF MsgFiles!Plain, IsMsg
  <2>5. MsgFiles!Plain(MsgFiles!Kept(m)) = [m EXCEPT !.form = form, !.idx = 1]
    <3>1. CASE keeps
      <4>1. MsgFiles!Plain(m) = [m EXCEPT !.idx = 1]
        BY DEF MsgFiles!Plain
      <4>2. [m EXCEPT !.idx = 1] = [m EXCEPT !.form = m.form, !.idx = 1]
        BY <1>1 DEF IsMsg
      <4> QED BY <2>1, <2>2, <3>1, <4>1, <4>2
    <3>2. CASE ~keeps
      <4>1. MsgFiles!Plain([m EXCEPT !.form = first]) = [m EXCEPT !.form = first, !.idx = 1]
        BY <1>1 DEF MsgFiles!Plain, IsMsg
      <4> QED BY <2>1, <2>2, <3>2, <4>1
    <3> QED BY <3>1, <3>2
  <2> QED BY <2>4, <2>5
<1>4. ASSUME MsgFiles!CanCreate(m) PROVE MsgFiles!Created(m).id \in DOMAIN FormsOf[protocol]
  <2>1. m.id \in DOMAIN FormsOf[protocol]
    BY <1>2, <1>4 DEF Fitting, MsgFiles!Forms
  <2>2. MsgFiles!Created(m).id = m.id
    BY <1>1 DEF MsgFiles!Created, IsMsg
  <2> QED BY <2>1, <2>2
<1> QED BY <1>2, <1>3, <1>4, FitsIs

(* What is read of a file: the messages the protocol knows.                   *)
FileIsList == DOMAIN file = DOMAIN msgs /\ \A i \in DOMAIN msgs : file[i] = msgs[i]

LEMMA KnownIs ==
  ASSUME protocol \in DOMAIN FormsOf, ListSound, FileIsList
  PROVE  LET k == MsgFiles!Known
         IN  /\ Len(k) \in Nat /\ DOMAIN k = 1 .. Len(k)
             /\ \A i \in 1 .. Len(k) : MsgFiles!CanCreate(k[i])
             /\ AllReceived => \A i \in 1 .. Len(k) : Received(k[i])
             /\ AllComposed => \A i \in 1 .. Len(k) : Composed(k[i])
             /\ MsgFiles!AtPositions(file, {i \in DOMAIN file : MsgFiles!CanCreate(file[i])}) = k
             /\ AllReceived =>
                  MsgFiles!AtPositions(file, {i \in DOMAIN file : MsgFiles!CanCreate(file[i]) /\ file[i].stamp # 0}) = k
<1> DEFINE n == Len(msgs)
           K == {i \in 1 .. n : msgs[i].data \in MsgFiles!Contents(msgs[i].id)}
           k == MsgFiles!Known
<1>1. n \in Nat /\ DOMAIN msgs = 1 .. n /\ DOMAIN file = 1 .. n /\ \A i \in 1 .. n : file[i] = msgs[i]
  BY MsgFilesAssumption DEF ListSound, FileIsList
<1>2. \A i \in 1 .. n : Received(msgs[i]) \/ Composed(msgs[i])
  BY <1>1 DEF ListSound, AllReceived, AllComposed
<1>3. \A i \in 1 .. n : MsgFiles!CanCreate(msgs[i]) <=> i \in K
  BY <1>2, CreatedIs
<1>4. {i \in DOMAIN file : MsgFiles!CanCreate(file[i])} = K
  <2> HIDE DEF n
  <2>1. K \subseteq 1 .. n
    OBVIOUS
  <2> HIDE DEF K
  <2> QED BY <1>1, <1>3, <2>1
<1>5. ASSUME AllReceived
      PROVE  {i \in DOMAIN file : MsgFiles!CanCreate(file[i]) /\ file[i].stamp # 0} = K
  <2>1. \A i \in 1 .. n : msgs[i].stamp # 0
    BY <1>1, <1>5, MsgFilesAssumption DEF AllReceived, Received
  <2> HIDE DEF n
  <2>2. K \subseteq 1 .. n
    OBVIOUS
  <2> HIDE DEF K
  <2> QED BY <1>1, <1>3, <2>1, <2>2
<1>6. k = MsgFiles!AtPositions(msgs, K)
  BY <1>1 DEF MsgFiles!Known
<1>7. K \in SUBSET (1 .. n)
  OBVIOUS
<1> HIDE DEF n, K
<1>8. PICK at : /\ at \in [1 .. Cardinality(K) -> K] /\ Cardinality(K) \in Nat
                /\ \A s : MsgFiles!AtPositions(s, K) = [m \in 1 .. Cardinality(K) |-> s[at[m]]]
  BY <1>1, <1>7, Taken
<1> DEFINE c == Cardinality(K)
<1>9. c \in Nat /\ \A m \in 1 .. c : at[m] \in K /\ at[m] \in 1 .. n
  BY <1>7, <1>8
<1>10. k = [m \in 1 .. c |-> msgs[at[m]]]
  BY <1>6, <1>8
<1>11. MsgFiles!AtPositions(file, K) = k
  <2>1. MsgFiles!AtPositions(file, K) = [m \in 1 .. c |-> file[at[m]]]
    BY <1>8
  <2>2. \A m \in 1 .. c : file[at[m]] = msgs[at[m]]
    BY <1>1, <1>9
  <2> HIDE DEF c, k
  <2> QED BY <1>10, <2>1, <2>2
<1> HIDE DEF c, k
<1>12. Len(k) = c /\ DOMAIN k = 1 .. c
  <2> DEFINE M == {msgs[i] : i \in 1 .. n}
  <2>1. \A m \in 1 .. c : msgs[at[m]] \in M
    BY <1>9
  <2> HIDE DEF M
  <2>2. k \in Seq(M) /\ Len(k) = c
    BY <1>9, <1>10, <2>1
  <2> QED BY <2>2
<1>13. \A i \in 1 .. c : k[i] = msgs[at[i]] /\ MsgFiles!CanCreate(k[i])
  BY <1>3, <1>9, <1>10
<1>14. AllReceived => \A i \in 1 .. c : Received(k[i])
  BY <1>1, <1>9, <1>13 DEF AllReceived
<1>15. AllComposed => \A i \in 1 .. c : Composed(k[i])
  BY <1>1, <1>9, <1>13 DEF AllComposed
<1> QED BY <1>4, <1>5, <1>9, <1>11, <1>12, <1>13, <1>14, <1>15 DEF k

LEMMA RecvLoads ==
  ASSUME protocol \in DOMAIN FormsOf, ListSound, FileIsList, AllReceived, loaded.msgs = MsgFiles!LoadRecv(file)
  PROVE  /\ [i \in DOMAIN loaded.msgs |-> MsgFiles!Plain(loaded.msgs[i])]
              = [i \in DOMAIN MsgFiles!Known |-> MsgFiles!Plain(MsgFiles!Kept(MsgFiles!Known[i]))]
         /\ \A i \in DOMAIN loaded.msgs : loaded.msgs[i].id \in DOMAIN FormsOf[protocol]
<1> DEFINE k == MsgFiles!Known
<1>1. /\ Len(k) \in Nat /\ DOMAIN k = 1 .. Len(k)
      /\ \A i \in 1 .. Len(k) : MsgFiles!CanCreate(k[i]) /\ Received(k[i])
      /\ MsgFiles!AtPositions(file, {i \in DOMAIN file : MsgFiles!CanCreate(file[i]) /\ file[i].stamp # 0}) = k
  BY KnownIs
<1>2. loaded.msgs = [i \in DOMAIN k |-> MsgFiles!Created(k[i])]
  <2>1. MsgFiles!LoadRecv(file)
          = LET read_ == MsgFiles!AtPositions(file, {i \in DOMAIN file : MsgFiles!CanCreate(file[i]) /\ file[i].stamp # 0})
            IN  [i \in DOMAIN read_ |-> MsgFiles!Created(read_[i])]
    BY Zenon DEF MsgFiles!LoadRecv
  <2> HIDE DEF k
  <2> QED BY <1>1, <2>1
<1> HIDE DEF k
<1>3. \A i \in 1 .. Len(k) : /\ MsgFiles!Plain(MsgFiles!Created(k[i])) = MsgFiles!Plain(MsgFiles!Kept(k[i]))
                              /\ MsgFiles!Created(k[i]).id \in DOMAIN FormsOf[protocol]
  BY <1>1, CreatedIs
<1>4. DOMAIN loaded.msgs = DOMAIN k /\ \A i \in DOMAIN k : loaded.msgs[i] = MsgFiles!Created(k[i])
  BY <1>2
<1> QED BY <1>1, <1>3, <1>4 DEF k

(* The loop of convertSendMsgList(): where it is after each message.           *)
Makes(k, g) ==
  g = [i \in 0 .. Len(k) |-> IF i = 0 THEN [prev |-> 0]
                             ELSE MsgFiles!Delayed(g[i - 1].prev, MsgFiles!Created(k[i]))]

Converts(k, g) ==
  g = [i \in 0 .. Len(k) |-> IF i = 0 THEN [prev |-> 0] ELSE MsgFiles!Delayed(g[i - 1].prev, k[i])]

LEMMA ConvertedIs ==
  ASSUME NEW k, Len(k) \in Nat, NEW g, Converts(k, g) PROVE (CHOOSE h : Converts(k, h)) = g
<1> DEFINE h == CHOOSE x : Converts(k, x)
           n == Len(k)
           after(p, i) == MsgFiles!Delayed(p, k[i])
           T == {i \in 0 .. n : h[i] = g[i]}
<1>0. Converts(k, h)
  OBVIOUS
<1>1. h = [i \in 0 .. n |-> IF i = 0 THEN [prev |-> 0] ELSE after(h[i - 1].prev, i)]
  <2> HIDE DEF h
  <2> QED BY <1>0 DEF Converts
<1>2. g = [i \in 0 .. n |-> IF i = 0 THEN [prev |-> 0] ELSE after(g[i - 1].prev, i)]
  BY DEF Converts
<1>3. n \in Nat
  OBVIOUS
<1> HIDE DEF h, n, after
<1>4. 0 \in T
  BY <1>1, <1>2, <1>3
<1>5. \A i \in 0 .. n : i < n /\ i \in T => i + 1 \in T
  <2> SUFFICES ASSUME NEW i \in 0 .. n, i < n, h[i] = g[i] PROVE h[i + 1] = g[i + 1] /\ i + 1 \in 0 .. n
    OBVIOUS
  <2>1. i + 1 \in 0 .. n /\ i + 1 # 0 /\ (i + 1) - 1 = i
    BY <1>3
  <2>2. h[i + 1] = after(h[i].prev, i + 1) /\ g[i + 1] = after(g[i].prev, i + 1)
    BY <1>1, <1>2, <2>1
  <2> QED BY <2>1, <2>2
<1> HIDE DEF T
<1>6. \A i \in 0 .. n : i \in T
  BY <1>3, <1>4, <1>5, UpTo
<1>7. \A i \in 0 .. n : h[i] = g[i]
  BY <1>6 DEF T
<1>8. h = [i \in 0 .. n |-> h[i]] /\ g = [i \in 0 .. n |-> g[i]]
  BY <1>1, <1>2
<1>9. h = g
  BY <1>7, <1>8
<1> QED BY <1>9 DEF h

LEMMA SendLoads ==
  ASSUME protocol \in DOMAIN FormsOf, ListSound, FileIsList, loaded.msgs = MsgFiles!LoadSend(file),
         NEW g, Makes(MsgFiles!Known, g)
  PROVE  loaded.msgs = [i \in 1 .. Len(MsgFiles!Known) |-> [g[i].msg EXCEPT !.stamp = 0, !.type = "none"]]
<1> DEFINE k == MsgFiles!Known
           n == Len(k)
           c == [i \in DOMAIN k |-> MsgFiles!Created(k[i])]
           made(l) == CHOOSE h : h = [i \in 0 .. Len(l) |-> IF i = 0 THEN [prev |-> 0]
                                        ELSE MsgFiles!Delayed(h[i - 1].prev, l[i])]
<1>1. /\ n \in Nat /\ DOMAIN k = 1 .. n
      /\ MsgFiles!AtPositions(file, {i \in DOMAIN file : MsgFiles!CanCreate(file[i])}) = k
  BY KnownIs
<1>2. loaded.msgs = MsgFiles!Converted(c)
  <2>1. MsgFiles!LoadSend(file)
          = LET l == MsgFiles!AtPositions(file, {i \in DOMAIN file : MsgFiles!CanCreate(file[i])})
            IN  MsgFiles!Converted([i \in DOMAIN l |-> MsgFiles!Created(l[i])])
    BY Zenon DEF MsgFiles!LoadSend
  <2> HIDE DEF k
  <2> QED BY <1>1, <2>1
<1>3. DOMAIN c = 1 .. n /\ Len(c) = n
  <2> DEFINE M == {c[i] : i \in 1 .. n}
  <2>1. c = [i \in 1 .. n |-> c[i]]
    <3> HIDE DEF k, n
    <3> QED BY <1>1
  <2>2. \A i \in 1 .. n : c[i] \in M
    OBVIOUS
  <2> HIDE DEF M, c, k, n
  <2>3. c \in Seq(M)
    BY <1>1, <2>1, <2>2
  <2> QED BY <1>1, <2>1, <2>3
<1>4. Converts(c, g)
  <2>1. g = [i \in 0 .. n |-> IF i = 0 THEN [prev |-> 0]
                              ELSE MsgFiles!Delayed(g[i - 1].prev, MsgFiles!Created(k[i]))]
    BY DEF Makes
  <2> HIDE DEF k, n
  <2>2. \A i \in 0 .. n : i # 0 => c[i] = MsgFiles!Created(k[i])
    BY <1>1
  <2> HIDE DEF c
  <2>3. \A i \in 0 .. n : g[i] = IF i = 0 THEN [prev |-> 0] ELSE MsgFiles!Delayed(g[i - 1].prev, c[i])
    BY <2>1, <2>2
  <2>4. g = [i \in 0 .. n |-> g[i]]
    BY <2>1
  <2> QED BY <1>3, <2>3, <2>4 DEF Converts
<1> HIDE DEF c
<1>5. made(c) = g
  <2>1. made(c) = CHOOSE h : Converts(c, h)
    BY DEF Converts
  <2> QED BY <1>1, <1>3, <1>4, <2>1, ConvertedIs
<1>6. MsgFiles!Converted(c) = [i \in DOMAIN c |-> [made(c)[i].msg EXCEPT !.stamp = 0, !.type = "none"]]
  BY Zenon DEF MsgFiles!Converted
<1> HIDE DEF k, n, made
<1> QED BY <1>2, <1>3, <1>5, <1>6 DEF k, n

(* A composed list: every message has its own delay and repetition.            *)
LEMMA ComposedLoads ==
  ASSUME protocol \in DOMAIN FormsOf, ListSound, FileIsList, AllComposed, loaded.msgs = MsgFiles!LoadSend(file)
  PROVE  /\ Len(loaded.msgs) = Len(MsgFiles!Known)
         /\ \A i \in DOMAIN MsgFiles!Known :
              MsgFiles!Plain(loaded.msgs[i]) = MsgFiles!Plain(MsgFiles!Kept(MsgFiles!Known[i]))
<1> DEFINE k == MsgFiles!Known
           g == [i \in 0 .. Len(k) |-> IF i = 0 THEN [prev |-> 0]
                                       ELSE [prev |-> 0, msg |-> MsgFiles!Created(k[i])]]
<1>1. /\ Len(k) \in Nat /\ DOMAIN k = 1 .. Len(k)
      /\ \A i \in 1 .. Len(k) : MsgFiles!CanCreate(k[i]) /\ Composed(k[i])
  BY KnownIs
<1> HIDE DEF k
<1>2. ASSUME NEW m, Composed(m), NEW p
      PROVE  /\ MsgFiles!Delayed(p, MsgFiles!Created(m)) = [prev |-> p, msg |-> MsgFiles!Created(m)]
             /\ [MsgFiles!Created(m) EXCEPT !.stamp = 0, !.type = "none"] = MsgFiles!Created(m)
  <2> DEFINE e == MsgFiles!Created(m)
             f == MsgFiles!Form(m)
  <2>1. e = [m EXCEPT !.form = f, !.idx = f]
    BY DEF MsgFiles!Created
  <2> HIDE DEF e, f
  <2>2. e.repeat = m.repeat /\ e.count = m.count /\ [e EXCEPT !.stamp = 0, !.type = "none"] = e
    BY <1>2, <2>1 DEF Composed, IsMsg
  <2>3. m.repeat # 0 \/ m.count # 0
    BY <1>2 DEF Composed
  <2>4. MsgFiles!Delayed(p, e) = [prev |-> p, msg |-> e]
    BY <2>2, <2>3 DEF MsgFiles!Delayed
  <2> QED BY <2>2, <2>4 DEF e
<1>3. Makes(k, g)
  <2>1. ASSUME NEW i \in 0 .. Len(k), i # 0
        PROVE  MsgFiles!Delayed(g[i - 1].prev, MsgFiles!Created(k[i])) = [prev |-> 0, msg |-> MsgFiles!Created(k[i])]
    <3>1. i \in 1 .. Len(k) /\ i - 1 \in 0 .. Len(k)
      BY <1>1, <2>1
    <3>2. g[i - 1].prev = 0
      BY <3>1
    <3>3. Composed(k[i])
      BY <1>1, <3>1
    <3>4. MsgFiles!Delayed(0, MsgFiles!Created(k[i])) = [prev |-> 0, msg |-> MsgFiles!Created(k[i])]
      BY <1>2, <3>3
    <3> HIDE DEF g
    <3> QED BY <3>2, <3>4
  <2>2. \A i \in 0 .. Len(k) : g[i] = IF i = 0 THEN [prev |-> 0]
                                      ELSE MsgFiles!Delayed(g[i - 1].prev, MsgFiles!Created(k[i]))
    BY <2>1
  <2>3. g = [i \in 0 .. Len(k) |-> g[i]]
    OBVIOUS
  <2> HIDE DEF g
  <2> QED BY <2>2, <2>3 DEF Makes
<1>4. \A i \in 1 .. Len(k) : g[i].msg = MsgFiles!Created(k[i])
  BY <1>1
<1> HIDE DEF g
<1>5. loaded.msgs = [i \in 1 .. Len(k) |-> [g[i].msg EXCEPT !.stamp = 0, !.type = "none"]]
  BY <1>3, SendLoads DEF k
<1>6. loaded.msgs = [i \in 1 .. Len(k) |-> MsgFiles!Created(k[i])]
  <2>1. \A i \in 1 .. Len(k) : [g[i].msg EXCEPT !.stamp = 0, !.type = "none"] = MsgFiles!Created(k[i])
    <3> SUFFICES ASSUME NEW i \in 1 .. Len(k)
                 PROVE  [g[i].msg EXCEPT !.stamp = 0, !.type = "none"] = MsgFiles!Created(k[i])
      OBVIOUS
    <3>1. g[i].msg = MsgFiles!Created(k[i]) /\ Composed(k[i])
      BY <1>1, <1>4
    <3>2. [MsgFiles!Created(k[i]) EXCEPT !.stamp = 0, !.type = "none"] = MsgFiles!Created(k[i])
      BY <1>2, <3>1
    <3> QED BY <3>1, <3>2
  <2> QED BY <1>5, <2>1
<1>7. \A i \in 1 .. Len(k) : MsgFiles!Plain(MsgFiles!Created(k[i])) = MsgFiles!Plain(MsgFiles!Kept(k[i]))
  BY <1>1, CreatedIs
<1>8. Len(loaded.msgs) = Len(k)
  <2> DEFINE M == {MsgFiles!Created(k[i]) : i \in 1 .. Len(k)}
             n == Len(k)
  <2>1. \A i \in 1 .. n : MsgFiles!Created(k[i]) \in M
    OBVIOUS
  <2>2. n \in Nat /\ loaded.msgs = [i \in 1 .. n |-> MsgFiles!Created(k[i])]
    BY <1>1, <1>6
  <2> HIDE DEF M, n
  <2>3. loaded.msgs \in Seq(M) /\ Len(loaded.msgs) = n
    BY <2>1, <2>2
  <2> QED BY <2>3 DEF n
<1> QED BY <1>1, <1>6, <1>7, <1>8 DEF k

(* A received list: every message waits for as long as it did.                *)
Ascends(k) == \A i, j \in 1 .. Len(k) : i < j => k[i].stamp <= k[j].stamp

Replayed(k) ==
  [i \in 0 .. Len(k) |->
     IF i = 0 THEN [prev |-> 0]
     ELSE [prev |-> k[i].stamp,
           msg |-> [MsgFiles!Created(k[i]) EXCEPT !.count = 1,
                                                  !.delay = IF i = 1 THEN 0 ELSE k[i].stamp - k[i - 1].stamp]]]

LEMMA DelayedIs ==
  ASSUME NEW m, Received(m), NEW p \in 0 .. MaxTime, p <= m.stamp
  PROVE  MsgFiles!Delayed(p, MsgFiles!Created(m))
           = [prev |-> m.stamp,
              msg |-> [MsgFiles!Created(m) EXCEPT !.count = 1, !.delay = IF p = 0 THEN 0 ELSE m.stamp - p]]
<1> DEFINE e == MsgFiles!Created(m)
           f == MsgFiles!Form(m)
           s == m.stamp
           since == IF p = 0 THEN s ELSE p
           wait == (s - since) % DelayLimit
<1>1. e = [m EXCEPT !.form = f, !.idx = f]
  BY DEF MsgFiles!Created
<1> HIDE DEF e, f
<1>2. e.repeat = 0 /\ e.count = 0 /\ e.delay = 0 /\ e.stamp = s
  BY <1>1 DEF Received, IsMsg
<1>3. s \in 1 .. MaxTime /\ MaxTime \in Nat /\ DelayLimit \in Nat /\ MaxTime <= DelayLimit /\ p <= s
  BY MsgFilesAssumption DEF Received
<1> HIDE DEF s
<1>4. s \in Nat \ {0} /\ p \in Nat /\ since \in Nat /\ s - since \in Nat /\ s - since < DelayLimit
  BY <1>3
<1>5. wait = s - since
  <2> DEFINE d == s - since
  <2>1. d \in Nat /\ d < DelayLimit /\ DelayLimit \in Nat
    BY <1>3, <1>4
  <2> HIDE DEF d
  <2>2. d % DelayLimit = d
    BY <2>1
  <2> QED BY <2>2 DEF d
<1>6. wait = (IF p = 0 THEN 0 ELSE s - p)
  BY <1>4, <1>5
<1>7. (IF wait = 0 THEN since ELSE s) = s
  BY <1>4, <1>5
<1>8. MsgFiles!Delayed(p, e)
        = [prev |-> IF wait = 0 THEN since ELSE s, msg |-> [e EXCEPT !.count = 1, !.delay = wait]]
  <2>1. ~(e.repeat # 0 \/ e.count # 0) /\ ~(e.delay # 0 \/ e.stamp = 0)
    BY <1>2, <1>4
  <2> QED BY <1>2, <2>1 DEF MsgFiles!Delayed
<1> HIDE DEF wait, since
<1> QED BY <1>6, <1>7, <1>8 DEF e, s

LEMMA ReplayedMakes ==
  ASSUME NEW k, Len(k) \in Nat, \A i \in 1 .. Len(k) : Received(k[i]), Ascends(k)
  PROVE  Makes(k, Replayed(k))
<1> DEFINE g == Replayed(k)
           n == Len(k)
           msg(i) == [MsgFiles!Created(k[i]) EXCEPT !.count = 1, !.delay = IF i = 1 THEN 0 ELSE k[i].stamp - k[i - 1].stamp]
<1>1. g = [i \in 0 .. n |-> IF i = 0 THEN [prev |-> 0] ELSE [prev |-> k[i].stamp, msg |-> msg(i)]]
  BY DEF Replayed
<1>2. n \in Nat /\ \A i \in 1 .. n : Received(k[i]) /\ k[i].stamp \in 1 .. MaxTime
  BY DEF Received
<1>3. \A i, j \in 1 .. n : i < j => k[i].stamp <= k[j].stamp
  BY DEF Ascends
<1> HIDE DEF g, n
<1>4. ASSUME NEW i \in 1 .. n
      PROVE  MsgFiles!Delayed(g[i - 1].prev, MsgFiles!Created(k[i])) = [prev |-> k[i].stamp, msg |-> msg(i)]
  <2> DEFINE p == IF i = 1 THEN 0 ELSE k[i - 1].stamp
  <2>1. g[i - 1].prev = p
    <3>1. i - 1 \in 0 .. n /\ (i - 1 = 0 <=> i = 1)
      BY <1>2
    <3> HIDE DEF msg
    <3> QED BY <1>1, <3>1
  <2>2. p \in 0 .. MaxTime /\ p <= k[i].stamp /\ (p = 0 <=> i = 1)
    <3>1. CASE i = 1
      BY <1>2, <3>1, MsgFilesAssumption
    <3>2. CASE i # 1
      <4>1. i - 1 \in 1 .. n /\ i - 1 < i
        BY <1>2, <3>2
      <4>2. k[i - 1].stamp <= k[i].stamp /\ k[i - 1].stamp \in 1 .. MaxTime
        BY <1>2, <1>3, <4>1
      <4> QED BY <3>2, <4>2, MsgFilesAssumption
    <3> QED BY <3>1, <3>2
  <2>3. Received(k[i])
    BY <1>2
  <2>4. MsgFiles!Delayed(p, MsgFiles!Created(k[i]))
          = [prev |-> k[i].stamp,
             msg |-> [MsgFiles!Created(k[i]) EXCEPT !.count = 1, !.delay = IF p = 0 THEN 0 ELSE k[i].stamp - p]]
    <3> HIDE DEF p
    <3> QED BY <2>2, <2>3, DelayedIs
  <2>5. (IF p = 0 THEN 0 ELSE k[i].stamp - p) = IF i = 1 THEN 0 ELSE k[i].stamp - k[i - 1].stamp
    BY <2>2
  <2> HIDE DEF p
  <2> QED BY <2>1, <2>4, <2>5
<1> HIDE DEF msg
<1>5. ASSUME NEW i \in 0 .. n
      PROVE  g[i] = IF i = 0 THEN [prev |-> 0] ELSE MsgFiles!Delayed(g[i - 1].prev, MsgFiles!Created(k[i]))
  <2>1. CASE i = 0
    BY <1>1, <1>2, <2>1
  <2>2. CASE i # 0
    <3>1. i \in 1 .. n
      BY <1>2, <2>2
    <3>2. g[i] = [prev |-> k[i].stamp, msg |-> msg(i)]
      BY <1>1, <2>2
    <3> QED BY <1>4, <2>2, <3>1, <3>2
  <2> QED BY <2>1, <2>2
<1>6. g = [i \in 0 .. n |-> g[i]]
  BY <1>1
<1> QED BY <1>5, <1>6 DEF Makes, g, n

(* The time that has passed when a message is sent.                           *)
Passes(k, l, g) == g = [i \in 0 .. Len(k) |-> IF i = 0 THEN 0 ELSE g[i - 1] + l[i].delay]

LEMMA PassedIs ==
  ASSUME NEW k, NEW l, Len(k) \in Nat, NEW g, Passes(k, l, g) PROVE (CHOOSE h : Passes(k, l, h)) = g
<1> DEFINE h == CHOOSE x : Passes(k, l, x)
           n == Len(k)
           T == {i \in 0 .. n : h[i] = g[i]}
<1>0. Passes(k, l, h)
  OBVIOUS
<1>1. h = [i \in 0 .. n |-> IF i = 0 THEN 0 ELSE h[i - 1] + l[i].delay]
  <2> HIDE DEF h
  <2> QED BY <1>0 DEF Passes
<1>2. g = [i \in 0 .. n |-> IF i = 0 THEN 0 ELSE g[i - 1] + l[i].delay]
  BY DEF Passes
<1>3. n \in Nat
  OBVIOUS
<1> HIDE DEF h, n
<1>4. 0 \in T
  BY <1>1, <1>2, <1>3
<1>5. \A i \in 0 .. n : i < n /\ i \in T => i + 1 \in T
  <2> SUFFICES ASSUME NEW i \in 0 .. n, i < n, h[i] = g[i] PROVE h[i + 1] = g[i + 1] /\ i + 1 \in 0 .. n
    OBVIOUS
  <2>1. i + 1 \in 0 .. n /\ i + 1 # 0 /\ (i + 1) - 1 = i
    BY <1>3
  <2>2. h[i + 1] = h[i] + l[i + 1].delay /\ g[i + 1] = g[i] + l[i + 1].delay
    BY <1>1, <1>2, <2>1
  <2> QED BY <2>1, <2>2
<1> HIDE DEF T
<1>6. \A i \in 0 .. n : i \in T
  BY <1>3, <1>4, <1>5, UpTo
<1>7. \A i \in 0 .. n : h[i] = g[i]
  BY <1>6 DEF T
<1>8. h = [i \in 0 .. n |-> h[i]] /\ g = [i \in 0 .. n |-> g[i]]
  BY <1>1, <1>2
<1>9. h = g
  BY <1>7, <1>8
<1> QED BY <1>9 DEF h

(* A received message in the send area.                                       *)
ToBeSent(m, d) == [[MsgFiles!Created(m) EXCEPT !.count = 1, !.delay = d] EXCEPT !.stamp = 0, !.type = "none"]

LEMMA ToBeSentIs ==
  ASSUME NEW m, Received(m), NEW d
  PROVE  ToBeSent(m, d).count = 1 /\ ToBeSent(m, d).delay = d
<1> DEFINE f == MsgFiles!Form(m)
           x == ToBeSent(m, d)
           y == [m EXCEPT !.form = f, !.idx = f]
           z == [y EXCEPT !.count = 1, !.delay = d]
<1>1. x = [z EXCEPT !.stamp = 0, !.type = "none"]
  BY DEF ToBeSent, MsgFiles!Created
<1> HIDE DEF f
<1>2. "count" \in DOMAIN m /\ "delay" \in DOMAIN m
  <2> DEFINE a == m.id   b == m.form   c == m.idx   e == m.data   h == m.stamp
             o == m.comment   q == m.extra   r == m.delay   s == m.repeat   t == m.count   u == m.type
  <2>1. m = [id |-> a, form |-> b, idx |-> c, data |-> e, type |-> u, stamp |-> h, comment |-> o, extra |-> q,
             delay |-> r, repeat |-> s, count |-> t]
    BY DEF Received, IsMsg
  <2> HIDE DEF a, b, c, e, h, o, q, r, s, t, u
  <2> QED BY <2>1
<1>3. DOMAIN y = DOMAIN m
  OBVIOUS
<1> HIDE DEF y
<1>4. DOMAIN z = DOMAIN y /\ z.count = 1 /\ z.delay = d
  BY <1>2, <1>3
<1> HIDE DEF x, z
<1>5. x.count = 1 /\ x.delay = d
  BY ONLY <1>1, <1>4
<1> QED BY <1>5 DEF x

LEMMA ReceivedLoads ==
  ASSUME protocol \in DOMAIN FormsOf, ListSound, FileIsList, AllReceived, loaded.msgs = MsgFiles!LoadSend(file),
         Ascends(MsgFiles!Known)
  PROVE  LET k == MsgFiles!Known
         IN  /\ Len(loaded.msgs) = Len(k)
             /\ \A i \in DOMAIN k :
                  /\ loaded.msgs[i].count = 1
                  /\ (CHOOSE g : Passes(k, loaded.msgs, g))[i] = k[i].stamp - k[1].stamp
<1> DEFINE k == MsgFiles!Known
           g == Replayed(k)
           delay(i) == IF i = 1 THEN 0 ELSE k[i].stamp - k[i - 1].stamp
           l == loaded.msgs
<1>1. /\ Len(k) \in Nat /\ DOMAIN k = 1 .. Len(k)
      /\ \A i \in 1 .. Len(k) : MsgFiles!CanCreate(k[i]) /\ Received(k[i])
  BY KnownIs
<1>2. Makes(k, g)
  <2> HIDE DEF k
  <2>1. Ascends(k)
    BY DEF k
  <2> QED BY <1>1, <2>1, ReplayedMakes
<1>3. l = [i \in 1 .. Len(k) |-> [g[i].msg EXCEPT !.stamp = 0, !.type = "none"]]
  <2> HIDE DEF g
  <2> QED BY <1>2, SendLoads
<1> HIDE DEF k, l
<1>4. \A i \in 1 .. Len(k) : g[i].msg = [MsgFiles!Created(k[i]) EXCEPT !.count = 1, !.delay = delay(i)]
  <2> DEFINE made(i) == [MsgFiles!Created(k[i]) EXCEPT !.count = 1, !.delay = delay(i)]
  <2>1. g = [i \in 0 .. Len(k) |-> IF i = 0 THEN [prev |-> 0] ELSE [prev |-> k[i].stamp, msg |-> made(i)]]
    BY DEF Replayed
  <2> HIDE DEF g, made, delay
  <2>2. ASSUME NEW i \in 1 .. Len(k) PROVE g[i].msg = made(i)
    <3>1. i \in 0 .. Len(k) /\ i # 0
      BY <1>1
    <3>2. g[i] = [prev |-> k[i].stamp, msg |-> made(i)]
      BY <2>1, <3>1
    <3> QED BY <3>2
  <2> QED BY <2>2 DEF made
<1> HIDE DEF g, delay
<1>6. \A i \in 1 .. Len(k) : l[i].count = 1 /\ l[i].delay = delay(i)
  <2> SUFFICES ASSUME NEW i \in 1 .. Len(k) PROVE l[i].count = 1 /\ l[i].delay = delay(i)
    OBVIOUS
  <2>1. l[i] = [[MsgFiles!Created(k[i]) EXCEPT !.count = 1, !.delay = delay(i)] EXCEPT !.stamp = 0, !.type = "none"]
    BY <1>3, <1>4
  <2>2. l[i] = ToBeSent(k[i], delay(i)) /\ Received(k[i])
    BY <1>1, <2>1 DEF ToBeSent
  <2> QED BY <2>2, ToBeSentIs
<1>7. Len(l) = Len(k)
  <2> DEFINE n == Len(k)
             M == {l[i] : i \in 1 .. n}
  <2>1. n \in Nat /\ DOMAIN l = 1 .. n /\ l = [i \in 1 .. n |-> l[i]]
    BY <1>1, <1>3
  <2>2. \A i \in 1 .. n : l[i] \in M
    OBVIOUS
  <2> HIDE DEF M, n
  <2>3. l \in Seq(M) /\ Len(l) = n
    BY <2>1, <2>2
  <2> QED BY <2>3 DEF n
<1> DEFINE p == [i \in 0 .. Len(k) |-> IF i = 0 THEN 0 ELSE k[i].stamp - k[1].stamp]
<1>8. Passes(k, l, p)
  <2> DEFINE n == Len(k)
  <2>1. n \in Nat /\ \A i \in 1 .. n : k[i].stamp \in Int /\ l[i].delay = delay(i)
    BY <1>1, <1>6, MsgFilesAssumption DEF Received
  <2>2. p = [i \in 0 .. n |-> IF i = 0 THEN 0 ELSE k[i].stamp - k[1].stamp]
    OBVIOUS
  <2> HIDE DEF p, n
  <2>3. ASSUME NEW i \in 0 .. n PROVE p[i] = IF i = 0 THEN 0 ELSE p[i - 1] + l[i].delay
    <3>1. CASE i = 0
      BY <2>1, <2>2, <3>1
    <3>2. CASE i = 1
      <4>1. p[0] = 0 /\ p[1] = k[1].stamp - k[1].stamp /\ 1 \in 1 .. n
        BY <2>1, <2>2, <3>2
      <4>2. l[1].delay = 0 /\ k[1].stamp \in Int
        BY <2>1, <4>1 DEF delay
      <4> QED BY <3>2, <4>1, <4>2
    <3>3. CASE i # 0 /\ i # 1
      <4>1. i \in 1 .. n /\ i - 1 \in 1 .. n /\ 1 \in 1 .. n /\ i - 1 # 0
        BY <2>1, <3>3
      <4>2. p[i] = k[i].stamp - k[1].stamp /\ p[i - 1] = k[i - 1].stamp - k[1].stamp
        BY <2>2, <4>1
      <4>3. l[i].delay = k[i].stamp - k[i - 1].stamp
        BY <2>1, <3>3, <4>1 DEF delay
      <4>4. k[i].stamp \in Int /\ k[i - 1].stamp \in Int /\ k[1].stamp \in Int
        BY <2>1, <4>1
      <4> QED BY <3>3, <4>2, <4>3, <4>4
    <3> QED BY <3>1, <3>2, <3>3
  <2>4. p = [i \in 0 .. n |-> p[i]]
    BY <2>2
  <2> QED BY <2>3, <2>4 DEF Passes, n
<1>9. \A i \in 1 .. Len(k) : p[i] = k[i].stamp - k[1].stamp
  BY <1>1
<1> HIDE DEF p
<1>10. (CHOOSE x : Passes(k, l, x)) = p
  BY <1>1, <1>8, PassedIs
<1> QED BY <1>1, <1>6, <1>7, <1>9, <1>10 DEF k, l

-----------------------------------------------------------------------------
(* A recording: the beginning, and the messages with commas between them.     *)
Body(r) ==
  [k \in 1 .. (IF r = 0 THEN 1 ELSE 2 * r) |->
     IF k = 1 THEN MsgFiles!Begin ELSE IF k % 2 = 0 THEN k \div 2 ELSE MsgFiles!Comma]

LEMMA BodyIs ==
  ASSUME NEW r \in 0 .. MaxMsgs
  PROVE  /\ Body(r) \in Seq(Nat) /\ Len(Body(r)) = (IF r = 0 THEN 1 ELSE 2 * r)
         /\ Body(r)[Len(Body(r))] # MsgFiles!End
<1> DEFINE n == IF r = 0 THEN 1 ELSE 2 * r
           b == Body(r)
<1>1. MaxMsgs \in Nat /\ r \in Nat /\ r <= MaxMsgs /\ n \in Nat \ {0}
  BY MsgFilesAssumption
<1>2. b = [k \in 1 .. n |-> IF k = 1 THEN 0 ELSE IF k % 2 = 0 THEN k \div 2 ELSE MaxMsgs + 2]
  BY DEF Body, MsgFiles!Begin, MsgFiles!Comma
<1>3. \A k \in Nat : k \div 2 \in Nat
  OBVIOUS
<1> HIDE DEF b
<1>4. b \in Seq(Nat) /\ Len(b) = n
  <2> HIDE DEF n
  <2>1. \A k \in 1 .. n : b[k] \in Nat
    BY <1>1, <1>2, <1>3
  <2> QED BY <1>1, <1>2, <2>1
<1>5. b[n] # MaxMsgs + 1
  <2>1. CASE r = 0
    BY <1>1, <1>2, <2>1
  <2>2. CASE r # 0
    <3>1. n = 2 * r /\ n % 2 = 0 /\ n \div 2 = r /\ n # 1
      BY <1>1, <2>2
    <3>2. b[n] = r
      BY <1>1, <1>2, <3>1
    <3> QED BY <1>1, <3>2
  <2> QED BY <2>1, <2>2
<1> QED BY <1>4, <1>5 DEF b, MsgFiles!End

LEMMA BodyGrows ==
  ASSUME NEW r \in 0 .. MaxMsgs
  PROVE  Body(r) \o (IF r = 0 THEN <<r + 1>> ELSE <<MsgFiles!Comma, r + 1>>) = Body(r + 1)
<1> DEFINE n == IF r = 0 THEN 1 ELSE 2 * r
           b == Body(r)
           item(k) == IF k = 1 THEN MsgFiles!Begin ELSE IF k % 2 = 0 THEN k \div 2 ELSE MsgFiles!Comma
<1>1. r \in Nat /\ n \in Nat \ {0} /\ b \in Seq(Nat) /\ Len(b) = n
  BY BodyIs, MsgFilesAssumption
<1>2. b = [k \in 1 .. n |-> item(k)] /\ Body(r + 1) = [k \in 1 .. 2 * (r + 1) |-> item(k)]
  BY <1>1 DEF Body
<1> HIDE DEF b
<1>3. CASE r = 0
  <2>0. Len(b) = 1
    BY <1>1, <1>3
  <2>1. b \o <<1>> = [k \in 1 .. 2 |-> IF k = 1 THEN b[1] ELSE 1]
    <3>1. b \in Seq(Nat) /\ <<1>> \in Seq(Nat)
      BY <1>1
    <3>2. b \o <<1>> \in Seq(Nat) /\ Len(b \o <<1>>) = 2
          /\ \A k \in 1 .. 2 : (b \o <<1>>)[k] = IF k <= 1 THEN b[k] ELSE <<1>>[k - 1]
      <4> DEFINE t == <<1>>
      <4>1. Len(t) = 1
        OBVIOUS
      <4> HIDE DEF t
      <4>2. b \o t \in Seq(Nat) /\ Len(b \o t) = 1 + 1
            /\ \A k \in 1 .. 1 + 1 : (b \o t)[k] = IF k <= 1 THEN b[k] ELSE t[k - 1]
        BY <2>0, <3>1, <4>1, ConcatProperties DEF t
      <4> QED BY <4>2 DEF t
    <3> DEFINE c == b \o <<1>>
    <3>3. c[1] = b[1] /\ c[2] = 1
      BY <3>2
    <3> HIDE DEF c
    <3>4. c = [k \in 1 .. 2 |-> c[k]]
      BY <3>2 DEF c
    <3>5. \A k \in 1 .. 2 : c[k] = IF k = 1 THEN b[1] ELSE 1
      BY <3>3
    <3> QED BY <3>4, <3>5 DEF c
  <2>2. b[1] = MsgFiles!Begin
    BY <1>2, <1>3
  <2>3. item(1) = MsgFiles!Begin /\ item(2) = 1
    OBVIOUS
  <2>4. Body(r + 1) = [k \in 1 .. 2 |-> item(k)]
    BY <1>2, <1>3
  <2>5. \A k \in 1 .. 2 : k = 1 \/ k = 2
    OBVIOUS
  <2> HIDE DEF item
  <2>6. \A k \in 1 .. 2 : (IF k = 1 THEN b[1] ELSE 1) = item(k)
    BY <2>2, <2>3, <2>5
  <2>7. b \o <<1>> = Body(r + 1)
    BY <2>1, <2>4, <2>6
  <2>8. (IF r = 0 THEN <<r + 1>> ELSE <<MsgFiles!Comma, r + 1>>) = <<1>>
    BY <1>3
  <2> QED BY <2>7, <2>8 DEF b
<1>4. CASE r # 0
  <2> DEFINE t == <<MsgFiles!Comma, r + 1>>
  <2>1. n = 2 * r /\ 2 * (r + 1) = n + 2
    BY <1>1, <1>4
  <2>2. b \o t = [k \in 1 .. n + 2 |-> IF k <= n THEN b[k] ELSE t[k - n]]
    <3>1. MsgFiles!Comma \in Nat /\ r + 1 \in Nat
      BY <1>1, MsgFilesAssumption DEF MsgFiles!Comma
    <3>2. t \in Seq(Nat) /\ Len(t) = 2
      BY <3>1
    <3> HIDE DEF t, n
    <3> DEFINE c == b \o t
    <3>3. c \in Seq(Nat) /\ Len(c) = n + 2
          /\ \A k \in 1 .. n + 2 : c[k] = IF k <= n THEN b[k] ELSE t[k - n]
      <4>1. c \in Seq(Nat) /\ Len(c) = Len(b) + Len(t)
            /\ \A k \in 1 .. Len(b) + Len(t) : c[k] = IF k <= Len(b) THEN b[k] ELSE t[k - Len(b)]
        BY <1>1, <3>2, ConcatProperties
      <4> HIDE DEF c
      <4>2. Len(b) = n /\ Len(t) = 2
        BY <1>1, <3>2
      <4> QED BY <4>1, <4>2
    <3> HIDE DEF c
    <3>4. c = [k \in 1 .. n + 2 |-> c[k]]
      BY <3>3
    <3> QED BY <3>3, <3>4 DEF c
  <2>3. item(n + 1) = MsgFiles!Comma /\ item(n + 2) = r + 1
    <3>1. (n + 1) % 2 = 1 /\ (n + 2) % 2 = 0 /\ (n + 2) \div 2 = r + 1 /\ n + 1 # 1 /\ n + 2 # 1
      BY <1>1, <1>4
    <3> QED BY <3>1
  <2>4. t[1] = MsgFiles!Comma /\ t[2] = r + 1
    OBVIOUS
  <2> HIDE DEF item, t, n
  <2>5. ASSUME NEW k \in 1 .. n + 2 PROVE (IF k <= n THEN b[k] ELSE t[k - n]) = item(k)
    <3>1. CASE k <= n
      <4>1. k \in 1 .. n
        BY <1>1, <3>1
      <4> QED BY <1>2, <3>1, <4>1
    <3>2. CASE k = n + 1
      <4>1. ~(k <= n) /\ k - n = 1
        BY <1>1, <3>2
      <4> QED BY <2>3, <2>4, <3>2, <4>1
    <3>3. CASE k = n + 2
      <4>1. ~(k <= n) /\ k - n = 2
        BY <1>1, <3>3
      <4> QED BY <2>3, <2>4, <3>3, <4>1
    <3>4. k <= n \/ k = n + 1 \/ k = n + 2
      BY <1>1
    <3> QED BY <3>1, <3>2, <3>3, <3>4
  <2>6. Body(r + 1) = [k \in 1 .. n + 2 |-> item(k)]
    BY <1>2, <2>1
  <2>7. b \o t = Body(r + 1)
    BY <2>2, <2>5, <2>6
  <2>8. (IF r = 0 THEN <<r + 1>> ELSE <<MsgFiles!Comma, r + 1>>) = t
    BY <1>4 DEF t
  <2> QED BY <2>7, <2>8 DEF b
<1> QED BY <1>3, <1>4 DEF b

(* What is on the disk, what was loaded, and where a recording is.             *)
FileSound ==
  /\ savedAs = "none" => file = <<>> /\ loaded = MsgFiles!Unloaded
  /\ savedAs # "none" => FileIsList /\ tokens = <<>>
  /\ savedAs \in {"none", "recv", "send"}
  /\ savedAs = "recv" => AllReceived
  /\ savedAs = "send" => AllComposed
LoadedSound ==
  /\ loaded.as \in {"none", "recv", "send"}
  /\ loaded.as = "recv" => loaded.msgs = MsgFiles!LoadRecv(file)
  /\ loaded.as = "send" => loaded.msgs = MsgFiles!LoadSend(file)
  /\ loaded.as = "none" => loaded = MsgFiles!Unloaded
TextSound ==
  /\ recorded \in 0 .. Len(msgs)
  /\ \/ tokens = <<>> /\ recorded = 0
     \/ tokens = Body(recorded)
     \/ tokens = Append(Body(recorded), MsgFiles!End)
MsgFilesSound == protocol \in DOMAIN FormsOf /\ ListSound /\ FileSound /\ LoadedSound /\ TextSound
MsgFilesRuns == subject = "msg_files" => MsgFilesSound

LEMMA ListInit ==
  ASSUME MsgFiles!Init PROVE protocol \in DOMAIN FormsOf /\ ListSound
<1>1. protocol \in DOMAIN FormsOf
  BY DEF MsgFiles!Init, MsgFiles!Protocols
<1>2. ASSUME NEW id, NEW form, NEW data PROVE
        LET m == MsgFiles!Basic(id, form, data)
        IN  m = [id |-> id, form |-> form, idx |-> 1, data |-> data, type |-> "none", stamp |-> 0, comment |-> FALSE,
                 extra |-> FALSE, delay |-> 0, repeat |-> 0, count |-> 0]
  BY DEF MsgFiles!Basic
<1>3. ASSUME NEW id, NEW form, NEW data, NEW type, NEW t \in 1 .. MaxTime
      PROVE  Received(MsgFiles!Stored(MsgFiles!Basic(id, form, data), type, t))
  <2> DEFINE m == MsgFiles!Stored(MsgFiles!Basic(id, form, data), type, t)
             a == t = 1
             b == t = 2
  <2>1. m = [MsgFiles!Basic(id, form, data) EXCEPT !.type = type, !.stamp = t, !.comment = a, !.extra = b]
    BY DEF MsgFiles!Stored
  <2> HIDE DEF m, a, b
  <2>2. m = [id |-> id, form |-> form, idx |-> 1, data |-> data, type |-> type, stamp |-> t, comment |-> a, extra |-> b,
             delay |-> 0, repeat |-> 0, count |-> 0]
    BY <1>2, <2>1
  <2>3. Received(m)
    BY <2>2 DEF Received, IsMsg
  <2> QED BY <2>3 DEF m
<1>4. \A m \in MsgFiles!RecvMsgs : Received(m)
  <2> SUFFICES ASSUME NEW m \in MsgFiles!RecvMsgs PROVE Received(m)
    OBVIOUS
  <2>1. \/ \E id, data : \E t \in 1 .. MaxTime : m = MsgFiles!Arrived(id, data, t)
        \/ \E id, f, data : m = MsgFiles!Departed(id, f, data, MaxTime)
        \/ \E data : \E t \in 1 .. MaxTime : m = MsgFiles!Garbage(data, t)
    <3> DEFINE ids == DOMAIN FormsOf[protocol]
               A(id) == {MsgFiles!Arrived(id, data, t) : data \in MsgFiles!Contents(id), t \in 1 .. MaxTime}
               B(id, f) == {MsgFiles!Departed(id, f, data, MaxTime) : data \in FormsOf[protocol][id][f]}
               C == {MsgFiles!Garbage(data, t) : data \in Noises, t \in 1 .. MaxTime}
    <3>1. ASSUME NEW id, m \in A(id) PROVE \E data : \E t \in 1 .. MaxTime : m = MsgFiles!Arrived(id, data, t)
      BY <3>1
    <3>2. ASSUME NEW id, NEW f, m \in B(id, f) PROVE \E data : m = MsgFiles!Departed(id, f, data, MaxTime)
      BY <3>2
    <3>3. ASSUME m \in C PROVE \E data : \E t \in 1 .. MaxTime : m = MsgFiles!Garbage(data, t)
      BY <3>3
    <3> DEFINE X == {A(id) : id \in ids}
               Y == {UNION {B(id, f) : f \in MsgFiles!Forms(id)} : id \in ids}
    <3>4. m \in UNION X \/ m \in UNION Y \/ m \in C
      <4>1. m \in (UNION X) \cup (UNION Y) \cup C
        BY DEF MsgFiles!RecvMsgs
      <4> HIDE DEF X, Y, C
      <4> QED BY <4>1
    <3>5. ASSUME m \in UNION X PROVE \E id : m \in A(id)
      <4>1. PICK S \in X : m \in S
        <5> HIDE DEF X
        <5> QED BY <3>5
      <4>2. PICK id \in ids : S = A(id)
        OBVIOUS
      <4> QED BY <4>1, <4>2
    <3>6. ASSUME m \in UNION Y PROVE \E id, f : m \in B(id, f)
      <4>1. PICK S \in Y : m \in S
        <5> HIDE DEF Y
        <5> QED BY <3>6
      <4>2. PICK id \in ids : S = UNION {B(id, f) : f \in MsgFiles!Forms(id)}
        OBVIOUS
      <4>3. PICK R \in {B(id, f) : f \in MsgFiles!Forms(id)} : m \in R
        BY <4>1, <4>2
      <4>4. PICK f \in MsgFiles!Forms(id) : R = B(id, f)
        OBVIOUS
      <4> QED BY <4>3, <4>4
    <3> HIDE DEF ids, A, B, C, X, Y
    <3> QED BY <3>1, <3>2, <3>3, <3>4, <3>5, <3>6, Zenon
  <2>2. \/ \E id, form, data, type : \E t \in 1 .. MaxTime : m = MsgFiles!Stored(MsgFiles!Basic(id, form, data), type, t)
        \/ \E id, form, data, type : m = MsgFiles!Stored(MsgFiles!Basic(id, form, data), type, MaxTime)
    BY <2>1 DEF MsgFiles!Arrived, MsgFiles!Departed, MsgFiles!Garbage
  <2>3. MaxTime \in 1 .. MaxTime
    BY MsgFilesAssumption
  <2>4. CASE \E id, form, data, type : \E t \in 1 .. MaxTime : m = MsgFiles!Stored(MsgFiles!Basic(id, form, data), type, t)
    BY <1>3, <2>4, Zenon
  <2>5. CASE \E id, form, data, type : m = MsgFiles!Stored(MsgFiles!Basic(id, form, data), type, MaxTime)
    BY <1>3, <2>3, <2>5, Zenon
  <2> QED BY <2>2, <2>4, <2>5, Zenon
<1>5. ASSUME NEW id, NEW form, NEW data, NEW d, NEW r \in {<<0, 1>>, <<1, 0>>, <<1, 2>>}, NEW copy
      PROVE  Composed(MsgFiles!Composed(id, form, data, d, r, copy))
  <2> DEFINE m == MsgFiles!Composed(id, form, data, d, r, copy)
             x == IF copy THEN 1 ELSE form
             a == d = 0
             q == r[1]
             c == r[2]
  <2>1. m = [MsgFiles!Basic(id, form, data) EXCEPT !.idx = x, !.delay = d, !.repeat = q, !.count = c, !.comment = a]
    BY DEF MsgFiles!Composed
  <2>2. x = 1 \/ x = form
    OBVIOUS
  <2>3. q # 0 \/ c # 0
    OBVIOUS
  <2> HIDE DEF x, m, a, q, c
  <2>4. m = [id |-> id, form |-> form, idx |-> x, data |-> data, type |-> "none", stamp |-> 0, comment |-> a,
             extra |-> FALSE, delay |-> d, repeat |-> q, count |-> c]
    BY <1>2, <2>1
  <2>5. m.type = "none" /\ m.stamp = 0 /\ m.idx = x /\ m.form = form /\ m.repeat = q /\ m.count = c
    BY <2>4
  <2>6. IsMsg(m)
    BY <2>4 DEF IsMsg
  <2>7. Composed(m)
    BY <2>2, <2>3, <2>5, <2>6 DEF Composed
  <2> QED BY <2>7 DEF m
<1>6. \A m \in MsgFiles!SendMsgs : Composed(m)
  BY <1>5 DEF MsgFiles!SendMsgs
<1>7. ASSUME NEW n \in 0 .. MaxMsgs, NEW S, msgs \in [1 .. n -> S]
      PROVE  Len(msgs) = n /\ DOMAIN msgs = 1 .. n /\ (\A i \in 1 .. n : msgs[i] \in S) /\ (n = 0 => msgs = <<>>)
  BY <1>7, MsgFilesAssumption
<1>8. \/ \E n \in 0 .. MaxMsgs : msgs \in [1 .. n -> MsgFiles!RecvMsgs]
      \/ \E n \in 1 .. MaxMsgs - 1 : msgs \in [1 .. n -> MsgFiles!SendMsgs]
  BY DEF MsgFiles!Init
<1>9. CASE \E n \in 0 .. MaxMsgs : msgs \in [1 .. n -> MsgFiles!RecvMsgs]
  BY <1>1, <1>4, <1>7, <1>9 DEF ListSound, AllReceived
<1>10. CASE \E n \in 1 .. MaxMsgs - 1 : msgs \in [1 .. n -> MsgFiles!SendMsgs]
  <2>1. PICK n \in 1 .. MaxMsgs - 1 : msgs \in [1 .. n -> MsgFiles!SendMsgs]
    BY <1>10
  <2>2. n \in 0 .. MaxMsgs /\ n # 0
    BY MsgFilesAssumption
  <2> QED BY <1>1, <1>6, <1>7, <2>1, <2>2 DEF ListSound, AllComposed
<1> QED BY <1>8, <1>9, <1>10

LEMMA MsgFilesInit == Init => MsgFilesRuns
<1> SUFFICES ASSUME Init, subject = "msg_files" PROVE MsgFilesSound
  BY DEF MsgFilesRuns
<1>1. MsgFiles!Init
  BY DEF Init
<1>2. savedAs = "none" /\ file = <<>> /\ tokens = <<>> /\ recorded = 0 /\ loaded = MsgFiles!Unloaded
  BY <1>1 DEF MsgFiles!Init
<1>3. protocol \in DOMAIN FormsOf /\ ListSound
  BY <1>1, ListInit
<1>4. loaded.as = "none"
  BY <1>2 DEF MsgFiles!Unloaded
<1>5. recorded \in 0 .. Len(msgs)
  BY <1>2, <1>3, MsgFilesAssumption DEF ListSound
<1> QED BY <1>2, <1>3, <1>4, <1>5 DEF MsgFilesSound, FileSound, LoadedSound, TextSound

(* The names of what depends on the protocol and the file alone.              *)
LEMMA LoadsStay ==
  ASSUME protocol' = protocol, file' = file
  PROVE  /\ MsgFiles!LoadRecv(file)' = MsgFiles!LoadRecv(file)
         /\ MsgFiles!LoadSend(file)' = MsgFiles!LoadSend(file)
<1>1. MsgFiles!LoadRecv(file)' = MsgFiles!LoadRecv(file)
  BY DEF MsgFiles!LoadRecv, MsgFiles!Created, MsgFiles!CanCreate, MsgFiles!Form, MsgFiles!Forms, MsgFiles!Decodes
<1>2. MsgFiles!LoadSend(file)' = MsgFiles!LoadSend(file)
  BY DEF MsgFiles!LoadSend, MsgFiles!Created, MsgFiles!CanCreate, MsgFiles!Form, MsgFiles!Forms, MsgFiles!Decodes
<1> QED BY <1>1, <1>2

(* Where the list, the file and the protocol stay.                            *)
LEMMA ListStays ==
  ASSUME ListSound, msgs' = msgs
  PROVE  /\ ListSound'
         /\ AllReceived => AllReceived'
         /\ AllComposed => AllComposed'
         /\ FileIsList /\ file' = file => FileIsList'
BY DEF ListSound, AllReceived, AllComposed, FileIsList

LEMMA LoadedStays ==
  ASSUME LoadedSound, protocol' = protocol, file' = file, loaded' = loaded
  PROVE  LoadedSound'
<1>1. /\ MsgFiles!LoadRecv(file)' = MsgFiles!LoadRecv(file)
      /\ MsgFiles!LoadSend(file)' = MsgFiles!LoadSend(file)
  BY LoadsStay
<1> QED BY <1>1 DEF LoadedSound, MsgFiles!Unloaded

LEMMA FileStays ==
  ASSUME ListSound, FileSound, msgs' = msgs, file' = file, savedAs' = savedAs,
         loaded' = loaded \/ savedAs # "none", tokens' = tokens \/ savedAs = "none"
  PROVE  FileSound'
<1>1. /\ AllReceived => AllReceived'
      /\ AllComposed => AllComposed'
      /\ FileIsList => FileIsList'
  BY ListStays
<1> QED BY <1>1 DEF FileSound, MsgFiles!Unloaded

LEMMA SaveKeeps == MsgFilesSound /\ MsgFiles!Save => MsgFilesSound'
<1> SUFFICES ASSUME MsgFilesSound, MsgFiles!Save PROVE MsgFilesSound'
  OBVIOUS
<1>1. /\ savedAs = "none" /\ tokens = <<>>
      /\ savedAs' = MsgFiles!KindOf(msgs) /\ file' = [i \in DOMAIN msgs |-> MsgFiles!Saved(msgs[i], savedAs')]
      /\ msgs' = msgs /\ protocol' = protocol /\ tokens' = tokens /\ recorded' = recorded /\ loaded' = loaded
  BY DEF MsgFiles!Save
<1>2. ListSound /\ loaded = MsgFiles!Unloaded
  BY <1>1 DEF MsgFilesSound, FileSound
<1>3. DOMAIN msgs = 1 .. Len(msgs) /\ Len(msgs) \in Nat
  BY <1>2, MsgFilesAssumption DEF ListSound
<1>4. \/ savedAs' = "recv" /\ AllReceived
      \/ savedAs' = "send" /\ AllComposed
  <2>1. CASE Len(msgs) = 0
    <3>1. msgs = <<>> /\ AllReceived
      BY <1>2, <1>3, <2>1 DEF ListSound, AllReceived
    <3> QED BY <1>1, <3>1 DEF MsgFiles!KindOf
  <2>2. CASE Len(msgs) # 0
    <3>1. 1 \in DOMAIN msgs /\ msgs # <<>>
      BY <1>3, <2>2
    <3>2. CASE AllReceived
      <4>1. msgs[1].stamp # 0
        BY <3>1, <3>2, MsgFilesAssumption DEF AllReceived, Received
      <4> QED BY <1>1, <3>2, <4>1 DEF MsgFiles!KindOf
    <3>3. CASE AllComposed
      <4>1. msgs[1].stamp = 0
        BY <3>1, <3>3 DEF AllComposed, Composed
      <4> QED BY <1>1, <3>1, <3>3, <4>1 DEF MsgFiles!KindOf
    <3> QED BY <1>2, <3>2, <3>3 DEF ListSound
  <2> QED BY <2>1, <2>2
<1>5. DOMAIN file' = DOMAIN msgs /\ \A i \in DOMAIN msgs : file'[i] = msgs[i]
  <2>1. \A i \in DOMAIN msgs : MsgFiles!Saved(msgs[i], savedAs') = msgs[i]
    <3>1. CASE savedAs' = "recv" /\ AllReceived
      BY <3>1, SavedIs DEF AllReceived
    <3>2. CASE savedAs' = "send" /\ AllComposed
      BY <3>2, SavedIs DEF AllComposed
    <3> QED BY <1>4, <3>1, <3>2
  <2> QED BY <1>1, <2>1
<1>6. FileIsList'
  BY <1>1, <1>5 DEF FileIsList
<1>7. FileSound'
  <2>1. /\ ListSound'
        /\ AllReceived => AllReceived'
        /\ AllComposed => AllComposed'
    BY <1>1, <1>2, ListStays
  <2> QED BY <1>1, <1>2, <1>4, <1>6, <2>1 DEF FileSound
<1>8. ListSound'
  BY <1>1, <1>2, ListStays
<1>9. LoadedSound'
  BY <1>1, <1>2 DEF LoadedSound, MsgFiles!Unloaded
<1>10. TextSound'
  BY <1>1 DEF MsgFilesSound, TextSound, Body, MsgFiles!Begin, MsgFiles!Comma, MsgFiles!End
<1> QED BY <1>1, <1>7, <1>8, <1>9, <1>10 DEF MsgFilesSound

LEMMA ChangeKeeps == MsgFilesSound /\ MsgFiles!ChangeProtocol => MsgFilesSound'
<1> SUFFICES ASSUME MsgFilesSound, MsgFiles!ChangeProtocol PROVE MsgFilesSound'
  OBVIOUS
<1>1. /\ savedAs # "none" /\ loaded = MsgFiles!Unloaded /\ protocol' \in DOMAIN FormsOf
      /\ msgs' = msgs /\ savedAs' = savedAs /\ file' = file /\ tokens' = tokens /\ recorded' = recorded
      /\ loaded' = loaded
  BY DEF MsgFiles!ChangeProtocol, MsgFiles!Protocols
<1>2. ListSound /\ FileSound /\ TextSound
  BY DEF MsgFilesSound
<1>3. ListSound' /\ FileSound'
  BY <1>1, <1>2, ListStays, FileStays
<1>4. LoadedSound'
  BY <1>1 DEF LoadedSound, MsgFiles!Unloaded
<1>5. TextSound'
  BY <1>1, <1>2 DEF TextSound, Body, MsgFiles!Begin, MsgFiles!Comma, MsgFiles!End
<1> QED BY <1>1, <1>3, <1>4, <1>5 DEF MsgFilesSound

LEMMA LoadKeeps ==
  ASSUME MsgFilesSound, NEW as \in {"recv", "send"}, MsgFiles!Load(as) PROVE MsgFilesSound'
<1>1. /\ savedAs # "none"
      /\ loaded' = [as |-> as, msgs |-> IF as = "recv" THEN MsgFiles!LoadRecv(file) ELSE MsgFiles!LoadSend(file)]
      /\ msgs' = msgs /\ savedAs' = savedAs /\ file' = file /\ tokens' = tokens /\ recorded' = recorded
      /\ protocol' = protocol
  BY DEF MsgFiles!Load
<1>2. ListSound /\ FileSound /\ TextSound /\ protocol \in DOMAIN FormsOf
  BY DEF MsgFilesSound
<1>3. ListSound' /\ FileSound'
  BY <1>1, <1>2, ListStays, FileStays
<1>4. LoadedSound'
  <2>1. /\ MsgFiles!LoadRecv(file)' = MsgFiles!LoadRecv(file)
        /\ MsgFiles!LoadSend(file)' = MsgFiles!LoadSend(file)
    BY <1>1, LoadsStay
  <2>2. loaded'.as = as /\ (as = "recv" => loaded'.msgs = MsgFiles!LoadRecv(file))
        /\ (as = "send" => loaded'.msgs = MsgFiles!LoadSend(file))
    BY <1>1
  <2> QED BY <2>1, <2>2 DEF LoadedSound
<1>5. TextSound'
  BY <1>1, <1>2 DEF TextSound, Body, MsgFiles!Begin, MsgFiles!Comma, MsgFiles!End
<1> QED BY <1>1, <1>2, <1>3, <1>4, <1>5 DEF MsgFilesSound

(* A recording that is not closed ends with what Body() ends with.             *)
LEMMA OpenIs ==
  ASSUME ListSound, TextSound, tokens # <<>>, MsgFiles!Last(tokens) # MsgFiles!End
  PROVE  tokens = Body(recorded)
<1>1. recorded \in 0 .. MaxMsgs
  BY MsgFilesAssumption DEF ListSound, TextSound
<1>2. Body(recorded) \in Seq(Nat) /\ MsgFiles!End \in Nat
  BY <1>1, BodyIs, MsgFilesAssumption DEF MsgFiles!End
<1>3. ASSUME tokens = Append(Body(recorded), MsgFiles!End) PROVE FALSE
  <2> DEFINE b == Body(recorded)
             e == MsgFiles!End
  <2> HIDE DEF b, e
  <2>1. b \in Seq(Nat) /\ e \in Nat /\ tokens = Append(b, e)
    BY <1>2, <1>3 DEF b, e
  <2>2. tokens[Len(tokens)] = e
    BY <2>1
  <2> QED BY <2>2 DEF MsgFiles!Last, e
<1> QED BY <1>3 DEF TextSound

LEMMA RecordKeeps ==
  ASSUME MsgFilesSound, MsgFiles!StartRecvSave \/ MsgFiles!AddToRecvSave \/ MsgFiles!CloseRecvSave
  PROVE  MsgFilesSound'
<1>1. /\ msgs' = msgs /\ savedAs' = savedAs /\ file' = file /\ loaded' = loaded /\ protocol' = protocol
  BY DEF MsgFiles!StartRecvSave, MsgFiles!AddToRecvSave, MsgFiles!CloseRecvSave
<1>2. ListSound /\ FileSound /\ LoadedSound /\ TextSound /\ protocol \in DOMAIN FormsOf
  BY DEF MsgFilesSound
<1>3. savedAs = "none"
  BY <1>2 DEF FileSound, MsgFiles!StartRecvSave, MsgFiles!AddToRecvSave, MsgFiles!CloseRecvSave
<1>4. ListSound' /\ FileSound' /\ LoadedSound'
  BY <1>1, <1>2, <1>3, ListStays, FileStays, LoadedStays
<1>5. Len(msgs) \in Nat /\ recorded \in 0 .. MaxMsgs /\ recorded \in 0 .. Len(msgs) /\ MaxMsgs \in Nat
      /\ Len(msgs) <= MaxMsgs
  BY <1>2, MsgFilesAssumption DEF ListSound, TextSound
<1>6. TextSound'
  <2>1. CASE MsgFiles!StartRecvSave
    <3>1. recorded' = recorded /\ recorded = 0 /\ tokens' = <<MsgFiles!Begin>>
      <4>1. recorded' = recorded /\ tokens = <<>> /\ tokens' = <<MsgFiles!Begin>>
        BY <2>1 DEF MsgFiles!StartRecvSave
      <4>2. \A r \in 0 .. MaxMsgs : Body(r) # <<>> /\ Append(Body(r), MsgFiles!End) # <<>>
        <5> SUFFICES ASSUME NEW r \in 0 .. MaxMsgs PROVE Body(r) # <<>> /\ Append(Body(r), MsgFiles!End) # <<>>
          OBVIOUS
        <5> DEFINE b == Body(r)
                   e == MsgFiles!End
        <5>1. b \in Seq(Nat) /\ Len(b) # 0 /\ e \in Nat
          <6>1. Body(r) \in Seq(Nat) /\ Len(Body(r)) = (IF r = 0 THEN 1 ELSE 2 * r)
            BY BodyIs
          <6> HIDE DEF b
          <6> QED BY <1>5, <6>1 DEF b, MsgFiles!End
        <5> HIDE DEF b, e
        <5>2. b # <<>> /\ Append(b, e) # <<>>
          BY <5>1
        <5> QED BY <5>2 DEF b, e
      <4> QED BY <1>2, <1>5, <4>1, <4>2 DEF TextSound
    <3>2. Body(0) = <<MsgFiles!Begin>>
      <4>1. Body(0) = [k \in 1 .. 1 |-> IF k = 1 THEN MsgFiles!Begin ELSE IF k % 2 = 0 THEN k \div 2 ELSE MsgFiles!Comma]
        BY DEF Body
      <4>2. Body(0) \in Seq(Nat) /\ Len(Body(0)) = 1
        BY <1>5, BodyIs
      <4>3. Body(0)[1] = MsgFiles!Begin
        BY <4>1
      <4> QED BY <4>2, <4>3
    <3> QED BY <1>1, <1>5, <3>1, <3>2 DEF TextSound, Body, MsgFiles!Begin, MsgFiles!Comma, MsgFiles!End
  <2>2. CASE MsgFiles!AddToRecvSave
    <3>1. /\ tokens = Body(recorded) /\ recorded < Len(msgs) /\ recorded' = recorded + 1
          /\ tokens' = tokens \o MsgFiles!Added(recorded')
      BY <1>2, <2>2, OpenIs DEF MsgFiles!AddToRecvSave
    <3>2. MsgFiles!Added(recorded') = IF recorded = 0 THEN <<recorded + 1>> ELSE <<MsgFiles!Comma, recorded + 1>>
      BY <3>1 DEF MsgFiles!Added
    <3>3. tokens' = Body(recorded + 1)
      BY <1>5, <3>1, <3>2, BodyGrows
    <3>4. recorded + 1 \in 0 .. Len(msgs)
      BY <1>5, <3>1
    <3> QED BY <1>1, <3>1, <3>3, <3>4 DEF TextSound, Body, MsgFiles!Begin, MsgFiles!Comma, MsgFiles!End
  <2>3. CASE MsgFiles!CloseRecvSave
    <3>1. tokens = Body(recorded) /\ recorded' = recorded /\ tokens' = Append(tokens, MsgFiles!End)
      BY <1>2, <2>3, OpenIs DEF MsgFiles!CloseRecvSave
    <3>2. tokens' = Append(Body(recorded), MsgFiles!End)
      BY <3>1
    <3> QED BY <1>1, <1>2, <3>1, <3>2 DEF TextSound, Body, MsgFiles!Begin, MsgFiles!Comma, MsgFiles!End
  <2> QED BY <2>1, <2>2, <2>3
<1> QED BY <1>1, <1>2, <1>4, <1>6 DEF MsgFilesSound

(* What the files of messages promise.                                        *)
LEMMA RecordingSound ==
  ASSUME MsgFilesSound PROVE MsgFiles!RecordingIsList
<1> SUFFICES ASSUME tokens # <<>>, MsgFiles!Last(tokens) = MsgFiles!End
    PROVE  tokens = <<MsgFiles!Begin>>
             \o [k \in 1 .. (2 * recorded - 1) |-> IF k % 2 = 1 THEN (k + 1) \div 2 ELSE MsgFiles!Comma]
             \o <<MsgFiles!End>>
  BY DEF MsgFiles!RecordingIsList
<1> DEFINE r == recorded
           b == Body(r)
           e == MsgFiles!End
           m == 2 * r - 1
           item(k) == IF k % 2 = 1 THEN (k + 1) \div 2 ELSE MsgFiles!Comma
           mid == [k \in 1 .. m |-> item(k)]
           begin == <<MsgFiles!Begin>>
<1>1. r \in 0 .. MaxMsgs /\ MaxMsgs \in Nat
  BY MsgFilesAssumption DEF MsgFilesSound, ListSound, TextSound
<1>2. b \in Seq(Nat) /\ Len(b) = (IF r = 0 THEN 1 ELSE 2 * r) /\ b[Len(b)] # e
  BY <1>1, BodyIs
<1>3. tokens = Append(b, e)
  <2>1. tokens # b
    BY <1>2 DEF MsgFiles!Last
  <2> QED BY <2>1 DEF MsgFilesSound, TextSound
<1>4. mid \in Seq(Nat) /\ begin \in Seq(Nat) /\ Len(begin) = 1 /\ begin[1] = 0 /\ e \in Nat
      /\ Len(mid) = (IF r = 0 THEN 0 ELSE m)
  <2>1. \A k \in 1 .. m : item(k) \in Nat
    <3> SUFFICES ASSUME NEW k \in 1 .. m PROVE item(k) \in Nat
      OBVIOUS
    <3>1. (k + 1) \div 2 \in Nat /\ MsgFiles!Comma \in Nat
      BY <1>1 DEF MsgFiles!Comma
    <3> QED BY <3>1
  <2>2. m \in Int /\ (r = 0 => m = -1) /\ (r # 0 => m \in Nat)
    BY <1>1
  <2> HIDE DEF m, item
  <2>3. mid \in Seq(Nat) /\ Len(mid) = (IF r = 0 THEN 0 ELSE m)
    <3>1. CASE r = 0
      <4>1. 1 .. m = 1 .. 0
        BY <2>2, <3>1
      <4>2. mid = [k \in 1 .. 0 |-> item(k)]
        BY <4>1
      <4> HIDE DEF mid
      <4>3. mid \in Seq(Nat) /\ Len(mid) = 0
        BY <4>2
      <4> QED BY <3>1, <4>3
    <3>2. CASE r # 0
      BY <2>1, <2>2, <3>2
    <3> QED BY <3>1, <3>2
  <2>4. begin \in Seq(Nat) /\ Len(begin) = 1 /\ begin[1] = 0
    BY DEF MsgFiles!Begin
  <2>5. e \in Nat
    BY <1>1 DEF MsgFiles!End
  <2> HIDE DEF mid, begin, e
  <2> QED BY ONLY <2>3, <2>4, <2>5
<1>5. b = begin \o mid
  <2> DEFINE c == begin \o mid
             n == IF r = 0 THEN 1 ELSE 2 * r
  <2>1. c \in Seq(Nat) /\ Len(c) = Len(begin) + Len(mid)
        /\ \A k \in 1 .. Len(begin) + Len(mid) : c[k] = IF k <= Len(begin) THEN begin[k] ELSE mid[k - Len(begin)]
    <3> HIDE DEF begin, mid
    <3> QED BY <1>4, ConcatProperties
  <2>2. Len(begin) + Len(mid) = n /\ n \in Nat
    <3> DEFINE x == Len(begin)
               y == Len(mid)
    <3>1. x = 1 /\ y = (IF r = 0 THEN 0 ELSE 2 * r - 1)
      BY <1>4
    <3> HIDE DEF x, y
    <3>2. r \in Nat /\ x + y = (IF r = 0 THEN 1 ELSE 2 * r)
      BY <1>1, <3>1
    <3>3. n \in Nat
      BY <3>2
    <3> QED BY <3>2, <3>3 DEF x, y
  <2>3. \A k \in 1 .. n : k # 1 => k - 1 \in 1 .. m
    BY <1>1
  <2>4. \A k \in 1 .. n : b[k] = IF k = 1 THEN 0 ELSE IF k % 2 = 0 THEN k \div 2 ELSE MsgFiles!Comma
    BY DEF Body, MsgFiles!Begin
  <2> HIDE DEF c, n, m, b, item, begin
  <2>5. ASSUME NEW k \in 1 .. n, k # 1
        PROVE  mid[k - 1] = IF k % 2 = 0 THEN k \div 2 ELSE MsgFiles!Comma
    <3>1. mid[k - 1] = item(k - 1)
      BY <2>3, <2>5
    <3>2. ((k - 1) % 2 = 1 <=> k % 2 = 0) /\ ((k - 1) + 1) \div 2 = k \div 2
      BY <2>2
    <3> QED BY <3>1, <3>2 DEF item
  <2> HIDE DEF mid
  <2>6. ASSUME NEW k \in 1 .. n PROVE b[k] = c[k]
    <3>1. CASE k = 1
      BY <1>4, <2>1, <2>2, <2>4, <3>1
    <3>2. CASE k # 1
      <4>1. ~(k <= Len(begin)) /\ k - Len(begin) = k - 1
        BY <1>4, <2>2, <3>2
      <4>2. c[k] = mid[k - 1]
        BY <2>1, <2>2, <4>1
      <4> QED BY <2>4, <2>5, <3>2, <4>2
    <3> QED BY <3>1, <3>2
  <2>7. Len(b) = n /\ Len(c) = n
    BY <1>2, <2>1, <2>2 DEF n
  <2>8. b = c
    BY <1>2, <2>1, <2>6, <2>7, SeqEqual
  <2> QED BY <2>8 DEF c
<1> HIDE DEF b, e, mid, begin, item, m
<1>6. Append(b, e) = b \o <<e>>
  BY <1>2, <1>4, AppendIsConcat
<1>7. tokens = (begin \o mid) \o <<e>>
  BY <1>3, <1>5, <1>6
<1> QED BY <1>7 DEF begin, mid, item, m, e

LEMMA FilesAreRight == ASSUME MsgFilesSound, subject = "msg_files" PROVE ListsComeBack
<1>1. /\ protocol \in DOMAIN FormsOf /\ ListSound /\ FileSound /\ LoadedSound
  BY DEF MsgFilesSound
<1>2. loaded.as # "none" => FileIsList
  <2>1. loaded.as # "none" => savedAs # "none"
    BY <1>1 DEF FileSound, MsgFiles!Unloaded
  <2> QED BY <1>1, <2>1 DEF FileSound
<1>3. MsgFiles!RecvComesBack
  <2> SUFFICES ASSUME savedAs = "recv", loaded.as = "recv" PROVE
        /\ [i \in DOMAIN loaded.msgs |-> MsgFiles!Plain(loaded.msgs[i])]
             = [i \in DOMAIN MsgFiles!Known |-> MsgFiles!Plain(MsgFiles!Kept(MsgFiles!Known[i]))]
        /\ \A i \in DOMAIN loaded.msgs : loaded.msgs[i].id \in DOMAIN FormsOf[protocol]
    BY DEF MsgFiles!RecvComesBack
  <2>1. FileIsList /\ AllReceived /\ loaded.msgs = MsgFiles!LoadRecv(file)
    BY <1>1, <1>2 DEF FileSound, LoadedSound
  <2> QED BY <1>1, <2>1, RecvLoads
<1>4. MsgFiles!SendComesBack
  <2> SUFFICES ASSUME savedAs = "send", loaded.as = "send" PROVE
        /\ Len(loaded.msgs) = Len(MsgFiles!Known)
        /\ \A i \in DOMAIN MsgFiles!Known :
             MsgFiles!Plain(loaded.msgs[i]) = MsgFiles!Plain(MsgFiles!Kept(MsgFiles!Known[i]))
    BY DEF MsgFiles!SendComesBack
  <2>1. FileIsList /\ AllComposed /\ loaded.msgs = MsgFiles!LoadSend(file)
    BY <1>1, <1>2 DEF FileSound, LoadedSound
  <2> QED BY <1>1, <2>1, ComposedLoads
<1>5. MsgFiles!ReplayKeepsPace
  <2> DEFINE k == MsgFiles!Known
             l == loaded.msgs
             passed == CHOOSE g : Passes(k, l, g)
             ascends == \A i, j \in DOMAIN k : i < j => k[i].stamp <= k[j].stamp
  <2>1. ASSUME savedAs = "recv", loaded.as = "send", ascends
        PROVE  /\ Len(l) = Len(k)
               /\ \A i \in DOMAIN k : l[i].count = 1 /\ passed[i] = k[i].stamp - k[1].stamp
    <3>1. FileIsList /\ AllReceived /\ loaded.msgs = MsgFiles!LoadSend(file)
      BY <1>1, <1>2, <2>1 DEF FileSound, LoadedSound
    <3>2. DOMAIN k = 1 .. Len(k)
      BY <1>1, <3>1, KnownIs
    <3>3. Ascends(k)
      <4> HIDE DEF k
      <4> QED BY <2>1, <3>2 DEF Ascends
    <3> QED BY <1>1, <3>1, <3>3, ReceivedLoads
  <2>2. passed = CHOOSE g : g = [i \in 0 .. Len(k) |-> IF i = 0 THEN 0 ELSE g[i - 1] + l[i].delay]
    BY DEF Passes
  <2> QED BY <2>1, <2>2 DEF MsgFiles!ReplayKeepsPace
<1>6. MsgFiles!RecordingIsList
  BY RecordingSound
<1> QED BY <1>3, <1>4, <1>5, <1>6 DEF ListsComeBack

LEMMA MsgFilesInvariant == Spec => []MsgFilesRuns
<1>1. Init => MsgFilesRuns
  BY MsgFilesInit
<1>2. MsgFilesRuns /\ [Next]_vars => MsgFilesRuns'
  <2> SUFFICES ASSUME MsgFilesRuns, [Next]_vars, subject' = "msg_files" PROVE MsgFilesSound'
    BY DEF MsgFilesRuns
  <2>1. (MsgFilesStep /\ UNCHANGED subject) \/ UNCHANGED <<subject, msgFileVars>>
    BY DEF Next, vars, keepVars, SettingsStep, SerialStep, FrameStep, FilesStep, NumberStep, TextStep, MemberStep
  <2>2. subject = "msg_files" /\ MsgFilesSound
    BY <2>1 DEF MsgFilesRuns
  <2>3. CASE MsgFilesStep
    <3>1. MsgFiles!Next
      BY <2>3 DEF MsgFilesStep
    <3> QED BY <2>2, <3>1, SaveKeeps, ChangeKeeps, LoadKeeps, RecordKeeps DEF MsgFiles!Next
  <2>4. CASE UNCHANGED msgFileVars
    <3>1. /\ msgs' = msgs /\ savedAs' = savedAs /\ file' = file /\ tokens' = tokens /\ recorded' = recorded
          /\ protocol' = protocol /\ loaded' = loaded
      BY <2>4 DEF msgFileVars
    <3>2. ListSound /\ FileSound /\ LoadedSound /\ TextSound /\ protocol \in DOMAIN FormsOf
      BY <2>2 DEF MsgFilesSound
    <3>3. ListSound' /\ FileSound' /\ LoadedSound'
      BY <3>1, <3>2, ListStays, FileStays, LoadedStays
    <3>4. TextSound'
      BY <3>1, <3>2 DEF TextSound, Body, MsgFiles!Begin, MsgFiles!Comma, MsgFiles!End
    <3> QED BY <3>1, <3>2, <3>3, <3>4 DEF MsgFilesSound
  <2> QED BY <2>1, <2>3, <2>4
<1> QED BY <1>1, <1>2, PTL DEF Spec

(* Whatever is saved and whichever protocol loads it: of a received list exactly *)
(* the messages come back which that protocol can decode, with the form their    *)
(* index names or else the first one that decodes them, and their times,          *)
(* directions, comments and extra information; bytes that were no message are    *)
(* saved with it and lost.  A composed list comes back likewise with its delays   *)
(* and repetitions, a received list is sent at the pace it was received, and a    *)
(* recording that was closed is a list of what was recorded                     *)
(* (ToolsMsgFileMgr.cpp).                                                     *)
THEOREM ListsReturn == Spec => []ListsComeBack
<1>1. MsgFilesRuns => ListsComeBack
  BY FilesAreRight DEF MsgFilesRuns, ListsComeBack
<1> QED BY <1>1, MsgFilesInvariant, PTL
=============================================================================
