--------------------------- MODULE RecvArea_proofs ---------------------------
(***************************************************************************)
(* What TLAPS proves of the message manager and of the receive area above    *)
(* it, for any names, any number of messages and any nesting of handlers.    *)
(*                                                                         *)
(* The first part is about MsgMgr alone: its types, that numbers identify    *)
(* messages, that what was reported is kept, and that deletions take only    *)
(* what they were asked for.  The second part shows that what the widget     *)
(* lists and has selected follows the manager through arrivals, clicks,      *)
(* refreshes and deletions; its invariant is AreaInv.                        *)
(***************************************************************************)
EXTENDS RecvArea, SequenceTheorems, FiniteSetTheorems, WellFoundedInduction, TLAPS

-----------------------------------------------------------------------------
(* The positions of a set are numbered in their order, without a gap.        *)
LEMMA Ranks ==
  ASSUME NEW n \in Nat, NEW K \in SUBSET (1..n)
  PROVE  /\ Cardinality(K) \in Nat
         /\ \A k \in K : Cardinality({i \in K : i <= k}) \in 1..Cardinality(K)
         /\ \A k, l \in K : Cardinality({i \in K : i <= k}) = Cardinality({i \in K : i <= l}) => k = l
         /\ \A m \in 1..Cardinality(K) : \E k \in K : Cardinality({i \in K : i <= k}) = m
<1> DEFINE upto(k) == {i \in K : i <= k}
           rank == [k \in K |-> Cardinality(upto(k))]
<1>1. IsFiniteSet(K) /\ Cardinality(K) \in Nat /\ IsFiniteSet(1..n)
  <2>1. IsFiniteSet(1..n)
    BY FS_Interval
  <2>2. IsFiniteSet(K)
    BY <2>1, FS_Subset
  <2> QED BY <2>1, <2>2, FS_CardinalityType
<1>2. ASSUME NEW k \in K
      PROVE  /\ IsFiniteSet(upto(k)) /\ Cardinality(upto(k)) \in 1..Cardinality(K)
  <2>1. upto(k) \in SUBSET K /\ k \in upto(k)
    OBVIOUS
  <2>2. IsFiniteSet(upto(k)) /\ Cardinality(upto(k)) <= Cardinality(K)
    BY <1>1, <2>1, FS_Subset
  <2>3. Cardinality(upto(k)) \in Nat /\ Cardinality(upto(k)) # 0
    BY <2>1, <2>2, FS_CardinalityType, FS_EmptySet
  <2> QED BY <1>1, <2>2, <2>3
<1>3. ASSUME NEW k \in K, NEW l \in K, k < l PROVE Cardinality(upto(k)) # Cardinality(upto(l))
  <2>1. upto(k) \in SUBSET upto(l) /\ l \in upto(l) /\ l \notin upto(k)
    <3>1. k \in Nat /\ l \in Nat /\ \A i \in K : i \in Nat
      OBVIOUS
    <3>2. \A i \in K : i <= k => i <= l
      BY <1>3, <3>1
    <3>3. l <= l /\ ~(l <= k)
      BY <1>3, <3>1
    <3> QED BY <3>2, <3>3
  <2> QED BY <1>2, <2>1, FS_Subset
<1>4. ASSUME NEW k \in K, NEW l \in K, Cardinality(upto(k)) = Cardinality(upto(l)) PROVE k = l
  <2>1. k \in Nat /\ l \in Nat
    OBVIOUS
  <2> QED BY <1>3, <1>4, <2>1
<1>5. rank \in Injection(K, 1..Cardinality(K))
  <2> HIDE DEF upto
  <2> QED BY <1>2, <1>4 DEF Injection, IsInjective
<1>6. IsFiniteSet(1..Cardinality(K)) /\ Cardinality(1..Cardinality(K)) = Cardinality(K)
  BY <1>1, FS_Interval
<1>7. rank \in Surjection(K, 1..Cardinality(K))
  <2> HIDE DEF rank
  <2> QED BY <1>5, <1>6, FS_Injection
<1>8. ASSUME NEW m \in 1..Cardinality(K) PROVE \E k \in K : Cardinality(upto(k)) = m
  <2>1. PICK k \in K : rank[k] = m
    BY <1>7 DEF Surjection
  <2> QED BY <2>1
<1> QED BY <1>1, <1>2, <1>4, <1>8

(* Taking some positions of a sequence.                                      *)
LEMMA Positions ==
  ASSUME NEW M, NEW s \in Seq(M), NEW K \in SUBSET DOMAIN s
  PROVE  /\ AtPositions(s, K) \in Seq(M)
         /\ ToSet(AtPositions(s, K)) = {s[k] : k \in K}
         /\ IsInjective(s) => IsInjective(AtPositions(s, K))
<1> DEFINE c == Cardinality(K)
           rank(k) == Cardinality({i \in K : i <= k})
           at(m) == CHOOSE k \in K : rank(k) = m
<1>1. Len(s) \in Nat /\ DOMAIN s = 1..Len(s)
  OBVIOUS
<1>2. /\ c \in Nat
      /\ \A k \in K : rank(k) \in 1..c
      /\ \A k, l \in K : rank(k) = rank(l) => k = l
      /\ \A m \in 1..c : \E k \in K : rank(k) = m
  BY <1>1, Ranks
<1>3. AtPositions(s, K) = [m \in 1..c |-> s[at(m)]]
  BY DEF AtPositions
<1> HIDE DEF rank, c
<1>4. \A m \in 1..c : at(m) \in K /\ rank(at(m)) = m
  BY <1>2
<1>5. \A k \in K : at(rank(k)) = k
  BY <1>2
<1> HIDE DEF at
<1>6. AtPositions(s, K) \in Seq(M)
  <2>1. \A m \in 1..c : s[at(m)] \in M
    BY <1>4
  <2> QED BY <1>2, <1>3, <2>1
<1>7. ToSet(AtPositions(s, K)) = {s[k] : k \in K}
  <2> DEFINE t == AtPositions(s, K)
  <2>1. DOMAIN t = 1..c /\ \A m \in 1..c : t[m] = s[at(m)]
    BY <1>3
  <2> HIDE DEF t
  <2>2. ASSUME NEW m \in DOMAIN t PROVE t[m] \in {s[k] : k \in K}
    BY <1>4, <2>1
  <2>3. ASSUME NEW k \in K PROVE s[k] \in {t[m] : m \in DOMAIN t}
    <3>1. rank(k) \in DOMAIN t /\ t[rank(k)] = s[k]
      BY <1>2, <1>5, <2>1
    <3> QED BY <3>1
  <2>4. ToSet(t) = {s[k] : k \in K}
    BY <2>2, <2>3 DEF ToSet
  <2> QED BY <2>4 DEF t
<1>8. ASSUME IsInjective(s) PROVE IsInjective(AtPositions(s, K))
  <2>1. \A m, l \in 1..c : s[at(m)] = s[at(l)] => m = l
    BY <1>4, <1>8 DEF IsInjective
  <2> QED BY <1>3, <2>1 DEF IsInjective
<1> QED BY <1>6, <1>7, <1>8

LEMMA Some ==
  ASSUME NEW M, NEW s \in Seq(M), NEW S
  PROVE  /\ Among(s, S) \in Seq(M)
         /\ ToSet(Among(s, S)) = ToSet(s) \cap S
         /\ IsInjective(s) => IsInjective(Among(s, S))
<1> DEFINE K == {k \in DOMAIN s : s[k] \in S}
<1>1. K \in SUBSET DOMAIN s /\ Among(s, S) = AtPositions(s, K)
  BY DEF Among
<1>2. {s[k] : k \in K} = ToSet(s) \cap S
  BY DEF ToSet
<1> HIDE DEF K
<1> QED BY <1>1, <1>2, Positions

(* What is taken from a sequence without repetition is known by its elements.*)
LEMMA KnownByElements ==
  ASSUME NEW M, NEW s \in Seq(M), NEW K \in SUBSET DOMAIN s, IsInjective(s)
  PROVE  AtPositions(s, K) = Among(s, ToSet(AtPositions(s, K)))
<1>1. ToSet(AtPositions(s, K)) = {s[k] : k \in K}
  BY Positions
<1>2. {k \in DOMAIN s : s[k] \in {s[l] : l \in K}} = K
  BY DEF IsInjective
<1> QED BY <1>1, <1>2 DEF Among

LEMMA SameLength ==
  ASSUME NEW M, NEW s \in Seq(M), NEW t \in Seq(M), IsInjective(s), IsInjective(t),
         ToSet(s) \subseteq ToSet(t), Len(s) = Len(t)
  PROVE  ToSet(s) = ToSet(t)
<1>1. ASSUME NEW u \in Seq(M), IsInjective(u)
      PROVE  IsFiniteSet(ToSet(u)) /\ Cardinality(ToSet(u)) = Len(u)
  <2>1. u \in Bijection(1..Len(u), ToSet(u))
    BY <1>1 DEF IsInjective, ToSet, Bijection, Injection, Surjection
  <2>2. IsFiniteSet(1..Len(u)) /\ Cardinality(1..Len(u)) = Len(u)
    <3>1. Len(u) \in Nat /\ Len(u) \in Int /\ 1 \in Int
      OBVIOUS
    <3>2. IsFiniteSet(1..Len(u)) /\ Cardinality(1..Len(u)) = IF 1 > Len(u) THEN 0 ELSE Len(u) - 1 + 1
      BY <3>1, FS_Interval
    <3> QED BY <3>1, <3>2
  <2> QED BY <2>1, <2>2, FS_Bijection DEF ExistsBijection
<1>2. ToSet(s) \in SUBSET ToSet(t) /\ Cardinality(ToSet(s)) = Cardinality(ToSet(t))
  BY <1>1
<1> QED BY <1>1, <1>2, FS_Subset

(* The walk of deleteMsgs() takes out messages whose numbers are listed.     *)
LEMMA Walk ==
  ASSUME NEW msgs, NEW list
  PROVE  \E K \in SUBSET DOMAIN msgs :
           /\ DeleteMsgs(msgs, list) = AtPositions(msgs, K)
           /\ \A k \in DOMAIN msgs \ K : \E j \in DOMAIN list : list[j].num = msgs[k].num
<1> DEFINE Meets(n, k) == n + 1 \in DOMAIN list /\ list[n + 1].num = msgs[k].num
           found[k \in 0..Len(msgs)] ==
             IF k = 0 THEN 0 ELSE found[k - 1] + IF Meets(found[k - 1], k) THEN 1 ELSE 0
           K == {k \in DOMAIN msgs : ~Meets(found[k - 1], k)}
<1>1. DeleteMsgs(msgs, list) = AtPositions(msgs, K)
  BY DEF DeleteMsgs
<1> HIDE DEF found
<1>2. \A k \in DOMAIN msgs \ K : \E j \in DOMAIN list : list[j].num = msgs[k].num
  OBVIOUS
<1> QED BY <1>1, <1>2

-----------------------------------------------------------------------------
(* The messages in the hands of the handlers: those of different handlers    *)
(* differ, none is stored yet, and one the protocol is being told of was not *)
(* reported.  A handler that sends stores what it numbers at once.           *)
Hands ==
  /\ \A k \in DOMAIN handlers :
       /\ handlers[k].type = "Sent" => handlers[k].done = <<>>
       /\ IsInjective(handlers[k].done)
       /\ ToSet(handlers[k].done) \cap ToSet(stored) = {}
       /\ handlers[k].type = "Received" /\ handlers[k].told =>
            handlers[k].done # <<>> /\ Last(handlers[k].done) \notin ToSet(reported)
  /\ \A k, l \in DOMAIN handlers :
       k # l => ToSet(handlers[k].done) \cap ToSet(handlers[l].done) = {}

IInv == TypeOK /\ Hands /\ NumbersIdentify /\ ReportedAreKept

LEMMA Elements ==
  ASSUME NEW M, NEW s \in Seq(M), NEW x
  PROVE  /\ ToSet(s) \subseteq M
         /\ ToSet(<<>>) = {} /\ IsInjective(<<>>)
         /\ ToSet(Append(s, x)) = ToSet(s) \cup {x}
         /\ IsInjective(s) /\ x \notin ToSet(s) => IsInjective(Append(s, x))
         /\ Last(Append(s, x)) = x
         /\ s # <<>> => Last(s) \in ToSet(s)
<1>1. ToSet(s) \subseteq M /\ ToSet(<<>>) = {} /\ IsInjective(<<>>)
  BY DEF ToSet, IsInjective
<1>2. /\ Len(s) \in Nat /\ DOMAIN s = 1..Len(s) /\ DOMAIN Append(s, x) = 1..(Len(s) + 1)
      /\ \A k \in 1..Len(s) : Append(s, x)[k] = s[k]
      /\ Append(s, x)[Len(s) + 1] = x
      /\ Len(Append(s, x)) = Len(s) + 1
  BY AppendProperties
<1>3. ToSet(Append(s, x)) = ToSet(s) \cup {x}
  <2> DEFINE t == Append(s, x)
  <2> HIDE DEF t
  <2>1. ASSUME NEW k \in DOMAIN t PROVE t[k] \in ToSet(s) \cup {x}
    BY <1>2 DEF ToSet, t
  <2>2. ASSUME NEW k \in DOMAIN s PROVE \E l \in DOMAIN t : t[l] = s[k]
    BY <1>2 DEF t
  <2>3. \E l \in DOMAIN t : t[l] = x
    BY <1>2 DEF t
  <2>4. ToSet(t) = ToSet(s) \cup {x}
    BY <2>1, <2>2, <2>3 DEF ToSet
  <2> QED BY <2>4 DEF t
<1>4. ASSUME IsInjective(s), x \notin ToSet(s) PROVE IsInjective(Append(s, x))
  <2> DEFINE t == Append(s, x)
  <2>1. \A k \in 1..Len(s) : t[k] = s[k] /\ t[k] # x
    BY <1>2, <1>4 DEF ToSet
  <2>2. DOMAIN t = 1..(Len(s) + 1) /\ t[Len(s) + 1] = x
    BY <1>2
  <2> HIDE DEF t
  <2>3. ASSUME NEW k \in DOMAIN t, NEW l \in DOMAIN t, t[k] = t[l] PROVE k = l
    BY <1>2, <1>4, <2>1, <2>2, <2>3 DEF IsInjective
  <2> QED BY <2>3 DEF IsInjective, t
<1>5. Last(Append(s, x)) = x
  BY <1>2 DEF Last
<1>6. s # <<>> => Last(s) \in ToSet(s)
  BY <1>2 DEF Last, ToSet
<1> QED BY <1>1, <1>3, <1>4, <1>5, <1>6

LEMMA Joined ==
  ASSUME NEW M, NEW s \in Seq(M), NEW t \in Seq(M), IsInjective(s), IsInjective(t),
         ToSet(s) \cap ToSet(t) = {}
  PROVE  s \o t \in Seq(M) /\ ToSet(s \o t) = ToSet(s) \cup ToSet(t) /\ IsInjective(s \o t)
<1> DEFINE u == s \o t
<1>1. /\ Len(s) \in Nat /\ Len(t) \in Nat /\ u \in Seq(M)
      /\ DOMAIN s = 1..Len(s) /\ DOMAIN t = 1..Len(t) /\ DOMAIN u = 1..(Len(s) + Len(t))
      /\ \A k \in 1..Len(s) : u[k] = s[k]
      /\ \A k \in (Len(s) + 1)..(Len(s) + Len(t)) : u[k] = t[k - Len(s)]
  BY ConcatProperties
<1>2. \A k \in 1..Len(t) : u[k + Len(s)] = t[k] /\ k + Len(s) \in DOMAIN u
  BY <1>1
<1> HIDE DEF u
<1>3. ToSet(u) = ToSet(s) \cup ToSet(t)
  <2>1. ASSUME NEW k \in DOMAIN u PROVE u[k] \in ToSet(s) \cup ToSet(t)
    <3>1. CASE k \in 1..Len(s)
      BY <1>1, <3>1 DEF ToSet
    <3>2. CASE k \in (Len(s) + 1)..(Len(s) + Len(t))
      <4>1. k - Len(s) \in DOMAIN t /\ u[k] = t[k - Len(s)]
        BY <1>1, <3>2
      <4> QED BY <4>1 DEF ToSet
    <3> QED BY <1>1, <3>1, <3>2
  <2>2. \A k \in DOMAIN s : \E l \in DOMAIN u : u[l] = s[k]
    BY <1>1
  <2>3. \A k \in DOMAIN t : \E l \in DOMAIN u : u[l] = t[k]
    BY <1>1, <1>2
  <2> QED BY <2>1, <2>2, <2>3 DEF ToSet
<1>4. ASSUME NEW k \in DOMAIN u, NEW l \in DOMAIN u, u[k] = u[l] PROVE k = l
  <2>1. CASE k \in 1..Len(s) /\ l \in 1..Len(s)
    BY <1>1, <1>4, <2>1 DEF IsInjective
  <2>2. CASE k \notin 1..Len(s) /\ l \notin 1..Len(s)
    <3>1. /\ k - Len(s) \in DOMAIN t /\ l - Len(s) \in DOMAIN t
          /\ t[k - Len(s)] = t[l - Len(s)]
      BY <1>1, <1>4, <2>2
    <3>2. k - Len(s) = l - Len(s)
      BY <3>1 DEF IsInjective
    <3> QED BY <1>1, <3>2
  <2>3. ASSUME NEW i \in DOMAIN u, NEW j \in DOMAIN u, i \in 1..Len(s), j \notin 1..Len(s)
        PROVE  u[i] # u[j]
    <3>1. u[i] \in ToSet(s)
      BY <1>1, <2>3 DEF ToSet
    <3>2. j - Len(s) \in DOMAIN t /\ u[j] = t[j - Len(s)]
      <4>1. j \in (Len(s) + 1)..(Len(s) + Len(t))
        BY <1>1, <2>3
      <4> QED BY <1>1, <4>1
    <3>3. u[j] \in ToSet(t)
      BY <3>2 DEF ToSet
    <3> QED BY <3>1, <3>3
  <2> QED BY <1>4, <2>1, <2>2, <2>3
<1>5. u \in Seq(M) /\ ToSet(u) = ToSet(s) \cup ToSet(t) /\ IsInjective(u)
  BY <1>1, <1>3, <1>4 DEF IsInjective
<1> QED BY <1>5 DEF u

-----------------------------------------------------------------------------
(* The stack of handlers.                                                    *)
LEMMA TopOf ==
  ASSUME TypeOK, handlers # <<>>
  PROVE  /\ 1 \in DOMAIN handlers /\ Top = handlers[1] /\ Top \in Activation
         /\ \A h \in Activation : WithTop(h) =>
              /\ handlers' \in Seq(Activation) /\ DOMAIN handlers' = DOMAIN handlers
              /\ handlers'[1] = h
              /\ \A k \in DOMAIN handlers : k # 1 => handlers'[k] = handlers[k]
         /\ Return =>
              /\ handlers' \in Seq(Activation) /\ loop' \in BOOLEAN
              /\ DOMAIN handlers' = 1..(Len(handlers) - 1)
              /\ \A k \in DOMAIN handlers' : handlers'[k] = handlers[k + 1]
<1>1. handlers \in Seq(Activation) /\ Len(handlers) \in Nat /\ Len(handlers) > 0
  BY DEF TypeOK
<1>2. 1 \in DOMAIN handlers /\ Top = handlers[1] /\ Top \in Activation
  BY <1>1 DEF Top
<1>3. /\ Tail(handlers) \in Seq(Activation) /\ Len(Tail(handlers)) = Len(handlers) - 1
      /\ \A k \in 1..(Len(handlers) - 1) : Tail(handlers)[k] = handlers[k + 1]
  BY <1>1
<1>4. ASSUME NEW h \in Activation, WithTop(h)
      PROVE  /\ handlers' \in Seq(Activation) /\ DOMAIN handlers' = DOMAIN handlers
             /\ handlers'[1] = h
             /\ \A k \in DOMAIN handlers : k # 1 => handlers'[k] = handlers[k]
  <2>1. handlers' = <<h>> \o Tail(handlers)
    BY <1>4 DEF WithTop
  <2>2. <<h>> \in Seq(Activation) /\ Len(<<h>>) = 1 /\ <<h>>[1] = h
    OBVIOUS
  <2>3. /\ handlers' \in Seq(Activation) /\ Len(handlers') = Len(handlers)
        /\ handlers'[1] = h
        /\ \A k \in 2..Len(handlers) : handlers'[k] = Tail(handlers)[k - 1]
    BY <1>1, <1>3, <2>1, <2>2
  <2>4. \A k \in DOMAIN handlers : k # 1 => handlers'[k] = handlers[k]
    <3> TAKE k \in DOMAIN handlers
    <3> HAVE k # 1
    <3>1. k \in 2..Len(handlers) /\ k - 1 \in 1..(Len(handlers) - 1) /\ k - 1 + 1 = k
      BY <1>1
    <3> QED BY <1>3, <2>3, <3>1
  <2> QED BY <1>1, <2>3, <2>4
<1>5. ASSUME Return
      PROVE  /\ handlers' \in Seq(Activation) /\ loop' \in BOOLEAN
             /\ DOMAIN handlers' = 1..(Len(handlers) - 1)
             /\ \A k \in DOMAIN handlers' : handlers'[k] = handlers[k + 1]
  BY <1>2, <1>3, <1>5 DEF Return, Activation
<1> QED BY <1>2, <1>4, <1>5

LEMMA Called ==
  ASSUME TypeOK, Hands, NEW type \in Types, NEW names \in Seq(Names), NEW fromLoop \in BOOLEAN,
         Call(type, names, fromLoop), UNCHANGED <<stored, reported>>
  PROVE  handlers' \in Seq(Activation) /\ loop' \in BOOLEAN /\ Hands' /\ InHand' = InHand
<1> DEFINE h == [type |-> type, todo |-> names, told |-> FALSE, done |-> <<>>, fromLoop |-> fromLoop]
<1>1. h \in Activation /\ h.done = <<>> /\ h.told = FALSE
  BY DEF Activation
<1> HIDE DEF h
<1>2. handlers' = <<h>> \o handlers /\ loop' = FALSE
  BY DEF Call, h
<1>3. handlers \in Seq(Activation) /\ Len(handlers) \in Nat /\ DOMAIN handlers = 1..Len(handlers)
  BY DEF TypeOK
<1>4. /\ handlers' \in Seq(Activation) /\ DOMAIN handlers' = 1..(Len(handlers) + 1)
      /\ handlers'[1] = h
      /\ \A k \in 2..(Len(handlers) + 1) : handlers'[k] = handlers[k - 1]
  BY <1>1, <1>2, <1>3
<1>5. \A k \in DOMAIN handlers' : k # 1 => k - 1 \in DOMAIN handlers /\ handlers'[k] = handlers[k - 1]
  BY <1>3, <1>4
<1>6. \A k \in DOMAIN handlers : k + 1 \in DOMAIN handlers' /\ handlers'[k + 1] = handlers[k]
  BY <1>3, <1>4
<1>7. ToSet(h.done) = {} /\ IsInjective(h.done)
  BY <1>1, Elements
<1>8. InHand' = InHand
  <2>1. \A k \in DOMAIN handlers' : ToSet(handlers'[k].done) \subseteq InHand
    BY <1>4, <1>5, <1>7 DEF InHand
  <2>2. \A k \in DOMAIN handlers : ToSet(handlers[k].done) \subseteq InHand'
    BY <1>6 DEF InHand
  <2> QED BY <2>1, <2>2 DEF InHand
<1>9. Hands'
  <2>1. ASSUME NEW k \in DOMAIN handlers'
        PROVE  /\ handlers'[k].type = "Sent" => handlers'[k].done = <<>>
               /\ IsInjective(handlers'[k].done)
               /\ ToSet(handlers'[k].done) \cap ToSet(stored') = {}
               /\ handlers'[k].type = "Received" /\ handlers'[k].told =>
                    handlers'[k].done # <<>> /\ Last(handlers'[k].done) \notin ToSet(reported')
    BY <1>1, <1>4, <1>5, <1>7 DEF Hands
  <2>2. ASSUME NEW k \in DOMAIN handlers', NEW l \in DOMAIN handlers', k # l
        PROVE  ToSet(handlers'[k].done) \cap ToSet(handlers'[l].done) = {}
    <3>1. CASE k = 1 \/ l = 1
      BY <1>4, <1>7, <3>1
    <3>2. CASE k # 1 /\ l # 1
      <4>1. k - 1 # l - 1
        BY <1>4, <2>2
      <4> QED BY <1>5, <3>2, <4>1 DEF Hands
    <3> QED BY <3>1, <3>2
  <2> QED BY <2>1, <2>2 DEF Hands
<1> QED BY <1>2, <1>4, <1>8, <1>9

LEMMA Returned ==
  ASSUME TypeOK, Hands, handlers # <<>>, Return, UNCHANGED reported,
         ToSet(stored') \subseteq ToSet(stored) \cup ToSet(Top.done)
  PROVE  handlers' \in Seq(Activation) /\ loop' \in BOOLEAN /\ Hands'
         /\ InHand' \subseteq InHand /\ InHand \subseteq InHand' \cup ToSet(Top.done)
<1>1. /\ handlers' \in Seq(Activation) /\ loop' \in BOOLEAN
      /\ DOMAIN handlers' = 1..(Len(handlers) - 1)
      /\ \A k \in DOMAIN handlers' : handlers'[k] = handlers[k + 1]
      /\ 1 \in DOMAIN handlers /\ Top = handlers[1]
  BY TopOf
<1>2. Len(handlers) \in Nat /\ DOMAIN handlers = 1..Len(handlers)
  BY DEF TypeOK
<1>3. \A k \in DOMAIN handlers' : k + 1 \in DOMAIN handlers /\ k + 1 # 1
  BY <1>1, <1>2
<1>4. \A k \in DOMAIN handlers : k # 1 => k - 1 \in DOMAIN handlers' /\ handlers'[k - 1] = handlers[k]
  BY <1>1, <1>2
<1>5. InHand' \subseteq InHand
  BY <1>1, <1>3 DEF InHand
<1>6. InHand \subseteq InHand' \cup ToSet(Top.done)
  <2>1. \A k \in DOMAIN handlers : ToSet(handlers[k].done) \subseteq InHand' \cup ToSet(Top.done)
    BY <1>1, <1>4 DEF InHand
  <2> QED BY <2>1 DEF InHand
<1>7. ASSUME NEW k \in DOMAIN handlers'
      PROVE  /\ handlers'[k].type = "Sent" => handlers'[k].done = <<>>
             /\ IsInjective(handlers'[k].done)
             /\ ToSet(handlers'[k].done) \cap ToSet(stored') = {}
             /\ handlers'[k].type = "Received" /\ handlers'[k].told =>
                  handlers'[k].done # <<>> /\ Last(handlers'[k].done) \notin ToSet(reported')
  <2>1. handlers'[k] = handlers[k + 1] /\ k + 1 \in DOMAIN handlers /\ k + 1 # 1
    BY <1>1, <1>3
  <2>2. ToSet(handlers[k + 1].done) \cap ToSet(Top.done) = {}
    BY <1>1, <2>1 DEF Hands
  <2> QED BY <2>1, <2>2 DEF Hands
<1>8. ASSUME NEW k \in DOMAIN handlers', NEW l \in DOMAIN handlers', k # l
      PROVE  ToSet(handlers'[k].done) \cap ToSet(handlers'[l].done) = {}
  <2>1. k + 1 # l + 1 /\ handlers'[k] = handlers[k + 1] /\ handlers'[l] = handlers[l + 1]
    BY <1>1, <1>2, <1>8
  <2> QED BY <1>3, <2>1 DEF Hands
<1> QED BY <1>1, <1>5, <1>6, <1>7, <1>8 DEF Hands

LEMMA Replaced ==
  ASSUME TypeOK, Hands, handlers # <<>>, NEW h \in Activation, WithTop(h),
         ToSet(Top.done) \subseteq ToSet(h.done),
         h.type = "Sent" => h.done = <<>>,
         IsInjective(h.done),
         ToSet(h.done) \cap ToSet(stored') = {},
         h.type = "Received" /\ h.told => h.done # <<>> /\ Last(h.done) \notin ToSet(reported'),
         \A k \in DOMAIN handlers : k # 1 =>
           /\ ToSet(handlers[k].done) \cap ToSet(h.done) = {}
           /\ ToSet(handlers[k].done) \cap ToSet(stored') = {}
           /\ handlers[k].type = "Received" /\ handlers[k].told =>
                Last(handlers[k].done) \notin ToSet(reported')
  PROVE  handlers' \in Seq(Activation) /\ Hands' /\ InHand' = InHand \cup ToSet(h.done)
<1>1. /\ 1 \in DOMAIN handlers /\ Top = handlers[1]
      /\ handlers' \in Seq(Activation) /\ DOMAIN handlers' = DOMAIN handlers
      /\ handlers'[1] = h
      /\ \A k \in DOMAIN handlers : k # 1 => handlers'[k] = handlers[k]
  BY TopOf
<1>2. InHand' = InHand \cup ToSet(h.done)
  <2>1. \A k \in DOMAIN handlers' : ToSet(handlers'[k].done) \subseteq InHand \cup ToSet(h.done)
    BY <1>1 DEF InHand
  <2>2. \A k \in DOMAIN handlers : ToSet(handlers[k].done) \subseteq InHand'
    BY <1>1 DEF InHand
  <2>3. ToSet(h.done) \subseteq InHand'
    BY <1>1 DEF InHand
  <2> QED BY <2>1, <2>2, <2>3 DEF InHand
<1>3. ASSUME NEW k \in DOMAIN handlers'
      PROVE  /\ handlers'[k].type = "Sent" => handlers'[k].done = <<>>
             /\ IsInjective(handlers'[k].done)
             /\ ToSet(handlers'[k].done) \cap ToSet(stored') = {}
             /\ handlers'[k].type = "Received" /\ handlers'[k].told =>
                  handlers'[k].done # <<>> /\ Last(handlers'[k].done) \notin ToSet(reported')
  <2>1. CASE k = 1
    BY <1>1, <2>1
  <2>2. CASE k # 1
    BY <1>1, <2>2 DEF Hands
  <2> QED BY <2>1, <2>2
<1>4. ASSUME NEW k \in DOMAIN handlers', NEW l \in DOMAIN handlers', k # l
      PROVE  ToSet(handlers'[k].done) \cap ToSet(handlers'[l].done) = {}
  <2>1. CASE k = 1
    BY <1>1, <1>4, <2>1
  <2>2. CASE l = 1
    BY <1>1, <1>4, <2>2
  <2>3. CASE k # 1 /\ l # 1
    BY <1>1, <1>4, <2>3 DEF Hands
  <2> QED BY <2>1, <2>2, <2>3
<1> QED BY <1>1, <1>2, <1>3, <1>4 DEF Hands

-----------------------------------------------------------------------------
(* The messages there are, by their numbers.                                 *)
Existing == ToSet(stored) \cup InHand \cup ToSet(reported)

LEMMA ExistingTypes ==
  ASSUME TypeOK
  PROVE  /\ ToSet(stored) \subseteq Message /\ InHand \subseteq Message
         /\ ToSet(reported) \subseteq Message /\ Existing \subseteq Message
         /\ \A m \in Existing : m.num \in Nat
<1>1. ToSet(stored) \subseteq Message /\ ToSet(reported) \subseteq Message
  BY Elements DEF TypeOK
<1>2. \A k \in DOMAIN handlers : handlers[k] \in Activation
  BY DEF TypeOK
<1>3. \A k \in DOMAIN handlers : handlers[k].done \in Seq(Message)
  BY <1>2 DEF Activation
<1>4. \A k \in DOMAIN handlers : ToSet(handlers[k].done) \subseteq Message
  BY <1>3, Elements
<1>5. InHand \subseteq Message
  BY <1>4 DEF InHand
<1>6. \A m \in Message : m.num \in Nat
  BY DEF Message
<1> QED BY <1>1, <1>5, <1>6 DEF Existing

LEMMA NoneNew ==
  ASSUME TypeOK, NumbersIdentify, UNCHANGED nextNum, Existing' \subseteq Existing,
         IsInjective(stored'), IsInjective(reported')
  PROVE  NumbersIdentify'
BY DEF NumbersIdentify, Existing

LEMMA OneNew ==
  ASSUME TypeOK, NumbersIdentify, NEW m, m.num = nextNum, nextNum' = nextNum + 1,
         Existing' \subseteq Existing \cup {m}, IsInjective(stored'), IsInjective(reported')
  PROVE  NumbersIdentify'
<1>1. nextNum \in Nat /\ \A x \in Existing : x.num \in Nat /\ x.num < nextNum
  BY ExistingTypes DEF NumbersIdentify, Existing, TypeOK
<1>2. \A x \in Existing' : x.num < nextNum'
  BY <1>1
<1>3. ASSUME NEW x \in Existing', NEW y \in Existing', x.num = y.num PROVE x = y
  <2>1. CASE x \in Existing /\ y \in Existing
    BY <1>3, <2>1 DEF NumbersIdentify, Existing
  <2>2. CASE x = m \/ y = m
    <3>1. x = m /\ y = m
      BY <1>1, <1>3, <2>2
    <3> QED BY <3>1
  <2> QED BY <2>1, <2>2
<1> QED BY <1>2, <1>3 DEF NumbersIdentify, Existing

LEMMA NumberedIsNew ==
  ASSUME TypeOK, NumbersIdentify, NEW type \in Types, NEW name \in Names
  PROVE  /\ Numbered(type, name) \in Message
         /\ Numbered(type, name).num = nextNum
         /\ Numbered(type, name) \notin Existing
<1>1. Numbered(type, name) \in Message /\ Numbered(type, name).num = nextNum /\ nextNum \in Nat
  BY DEF Numbered, Message, TypeOK
<1>2. \A x \in Existing : x.num \in Nat /\ x.num < nextNum
  BY ExistingTypes DEF NumbersIdentify, Existing
<1> HIDE DEF Numbered
<1>3. Numbered(type, name) \notin Existing
  BY <1>1, <1>2
<1> QED BY <1>1, <1>3

-----------------------------------------------------------------------------
LEMMA InitIInv == Init => IInv
<1> SUFFICES ASSUME Init PROVE IInv
  OBVIOUS
<1>1. ToSet(stored) = {} /\ ToSet(reported) = {} /\ IsInjective(stored) /\ IsInjective(reported)
  BY DEF Init, ToSet, IsInjective
<1>2. DOMAIN handlers = {}
  BY DEF Init
<1>3. InHand = {}
  BY <1>2 DEF InHand
<1>4. TypeOK
  <2>1. stored \in Seq(Message) /\ reported \in Seq(Message) /\ handlers \in Seq(Activation)
    BY DEF Init
  <2>2. attached \in BOOLEAN /\ recvEnabled \in BOOLEAN /\ loop \in BOOLEAN /\ nextNum \in Nat
    BY DEF Init
  <2> QED BY <2>1, <2>2 DEF TypeOK
<1>5. Hands
  BY <1>2 DEF Hands
<1>6. NumbersIdentify /\ ReportedAreKept
  BY <1>1, <1>3 DEF NumbersIdentify, ReportedAreKept
<1> QED BY <1>4, <1>5, <1>6 DEF IInv

LEMMA StaysSame ==
  ASSUME IInv, UNCHANGED <<nextNum, stored, handlers, reported>>,
         attached' \in BOOLEAN, recvEnabled' \in BOOLEAN, loop' \in BOOLEAN
  PROVE  IInv'
<1>1. TypeOK'
  BY DEF IInv, TypeOK
<1>2. Hands'
  BY DEF IInv, Hands
<1>3. NumbersIdentify' /\ ReportedAreKept'
  BY DEF IInv, NumbersIdentify, ReportedAreKept, InHand
<1> QED BY <1>1, <1>2, <1>3 DEF IInv

LEMMA CallKeeps ==
  ASSUME IInv, NEW type \in Types, NEW names \in Seq(Names), NEW fromLoop \in BOOLEAN,
         Call(type, names, fromLoop), UNCHANGED <<attached, recvEnabled, nextNum, stored, reported>>
  PROVE  IInv'
<1>1. handlers' \in Seq(Activation) /\ loop' \in BOOLEAN /\ Hands' /\ InHand' = InHand
  BY Called DEF IInv
<1>2. TypeOK'
  BY <1>1 DEF IInv, TypeOK
<1>3. NumbersIdentify' /\ ReportedAreKept'
  BY <1>1 DEF IInv, NumbersIdentify, ReportedAreKept
<1> QED BY <1>1, <1>2, <1>3 DEF IInv

LEMMA ChunksAreNames == \A names \in Chunks : names \in Seq(Names)
BY DEF Chunks

LEMMA Activated ==
  ASSUME NEW a, NEW names, NEW done, NEW h,
         a \in Activation, names \in Seq(Names), done \in Seq(Message),
         h = [a EXCEPT !.told = TRUE, !.todo = names, !.done = done]
  PROVE  h \in Activation
BY DEF Activation

LEMMA TellReceivedKeeps == IInv /\ TellReceived => IInv'
<1> SUFFICES ASSUME IInv, TellReceived PROVE IInv'
  OBVIOUS
<1> DEFINE m == Numbered("Received", Head(Top.todo))
           h == [Top EXCEPT !.told = TRUE, !.todo = Tail(@), !.done = Append(@, m)]
<1>1. /\ handlers # <<>> /\ Top.type = "Received" /\ Top.todo # <<>>
      /\ WithTop(h) /\ nextNum' = nextNum + 1
      /\ UNCHANGED <<attached, recvEnabled, stored, loop, reported>>
  BY DEF TellReceived, Running
<1>2. /\ 1 \in DOMAIN handlers /\ Top = handlers[1] /\ Top \in Activation
  BY <1>1, TopOf DEF IInv
<1>3. Top.todo \in Seq(Names) /\ Top.done \in Seq(Message) /\ Head(Top.todo) \in Names
  BY <1>1, <1>2 DEF Activation
<1>4. m \in Message /\ m.num = nextNum /\ m \notin Existing
  BY <1>3, NumberedIsNew DEF IInv, Types
<1> HIDE DEF m
<1>5. /\ h \in Activation /\ h.type = "Received" /\ h.done = Append(Top.done, m)
  <2>1. Tail(Top.todo) \in Seq(Names) /\ Append(Top.done, m) \in Seq(Message)
    BY <1>1, <1>3, <1>4
  <2> DEFINE names == Tail(Top.todo)
             done == Append(Top.done, m)
  <2>2. h = [Top EXCEPT !.told = TRUE, !.todo = names, !.done = done]
    OBVIOUS
  <2>3. names \in Seq(Names) /\ done \in Seq(Message)
    BY <2>1
  <2> HIDE DEF h, names, done
  <2>4. h \in Activation /\ h.type = Top.type /\ h.done = done
    <3>1. Top \in Activation
      BY <1>2
    <3>2. h \in Activation
      BY <2>3, <2>2, <3>1, Activated, Zenon
    <3>3. h.type = Top.type
      BY <2>2, <3>1 DEF Activation
    <3>4. h.done = done
      BY <2>2, <3>1 DEF Activation
    <3> QED BY <3>2, <3>3, <3>4
  <2>5. h \in Activation /\ h.type = Top.type /\ h.done = Append(Top.done, m)
    BY <2>4 DEF done
  <2> QED BY <1>1, <2>5
<1> HIDE DEF h
<1>6. /\ ToSet(h.done) = ToSet(Top.done) \cup {m} /\ h.done # <<>> /\ Last(h.done) = m
  <2>1. h.done # <<>>
    BY <1>3, <1>5
  <2> QED BY <1>3, <1>5, <2>1, Elements
<1>7. ToSet(Top.done) \subseteq InHand /\ m \notin InHand
  BY <1>2, <1>4 DEF InHand, Existing
<1>8. IsInjective(h.done)
  BY <1>2, <1>3, <1>5, <1>7, Elements DEF IInv, Hands
<1>9. m \notin ToSet(stored) /\ m \notin ToSet(reported)
  BY <1>4 DEF Existing
<1>10. \A k \in DOMAIN handlers : m \notin ToSet(handlers[k].done)
  BY <1>7 DEF InHand
<1>11. \A k \in DOMAIN handlers : k # 1 =>
         /\ ToSet(handlers[k].done) \cap ToSet(h.done) = {}
         /\ ToSet(handlers[k].done) \cap ToSet(stored') = {}
         /\ handlers[k].type = "Received" /\ handlers[k].told =>
              Last(handlers[k].done) \notin ToSet(reported')
  BY <1>1, <1>2, <1>6, <1>10 DEF IInv, Hands
<1>12. ToSet(h.done) \cap ToSet(stored') = {}
  BY <1>1, <1>2, <1>6, <1>9 DEF IInv, Hands
<1>13. handlers' \in Seq(Activation) /\ Hands' /\ InHand' = InHand \cup ToSet(h.done)
  BY <1>1, <1>5, <1>6, <1>8, <1>9, <1>11, <1>12, Replaced DEF IInv
<1>14. Existing' \subseteq Existing \cup {m} /\ InHand \subseteq InHand'
  BY <1>1, <1>6, <1>7, <1>13 DEF Existing
<1>15. NumbersIdentify'
  BY <1>1, <1>4, <1>14, OneNew DEF IInv, NumbersIdentify
<1>16. TypeOK' /\ ReportedAreKept'
  BY <1>1, <1>13, <1>14 DEF IInv, TypeOK, ReportedAreKept
<1> QED BY <1>13, <1>15, <1>16 DEF IInv

LEMMA ReportReceivedKeeps ==
  ASSUME IInv, NEW m \in InHand, ReportReceived(m)
  PROVE  IInv'
<1> DEFINE h == [Top EXCEPT !.told = FALSE]
<1>1. /\ handlers # <<>> /\ Top.type = "Received" /\ Top.told /\ m = Last(Top.done)
      /\ WithTop(h) /\ reported' = Append(reported, m)
      /\ UNCHANGED <<attached, recvEnabled, nextNum, stored, loop>>
  BY DEF ReportReceived, Running
<1>2. /\ 1 \in DOMAIN handlers /\ Top = handlers[1] /\ Top \in Activation
  BY <1>1, TopOf DEF IInv
<1>3. h \in Activation /\ h.type = "Received" /\ h.done = Top.done /\ ~h.told
  BY <1>1, <1>2 DEF Activation
<1> HIDE DEF h
<1>4. Top.done \in Seq(Message) /\ Top.done # <<>> /\ m \in ToSet(Top.done) /\ m \notin ToSet(reported)
  <2>1. Top.done \in Seq(Message)
    BY <1>2 DEF Activation
  <2>2. Top.done # <<>> /\ m \notin ToSet(reported)
    BY <1>1, <1>2 DEF IInv, Hands
  <2> QED BY <1>1, <2>1, <2>2, Elements
<1>5. m \in Message
  BY ExistingTypes DEF IInv
<1>6. /\ ToSet(reported') = ToSet(reported) \cup {m} /\ IsInjective(reported')
      /\ reported' \in Seq(Message)
  <2>1. reported \in Seq(Message) /\ IsInjective(reported)
    BY DEF IInv, TypeOK, NumbersIdentify
  <2> QED BY <1>1, <1>4, <1>5, <2>1, Elements
<1>7. ASSUME NEW k \in DOMAIN handlers, k # 1
      PROVE  /\ ToSet(handlers[k].done) \cap ToSet(h.done) = {}
             /\ ToSet(handlers[k].done) \cap ToSet(stored') = {}
             /\ handlers[k].type = "Received" /\ handlers[k].told =>
                  Last(handlers[k].done) \notin ToSet(reported')
  <2>1. /\ ToSet(handlers[k].done) \cap ToSet(h.done) = {}
        /\ ToSet(handlers[k].done) \cap ToSet(stored') = {}
    BY <1>1, <1>2, <1>3, <1>7 DEF IInv, Hands
  <2>2. ASSUME handlers[k].type = "Received", handlers[k].told
        PROVE  Last(handlers[k].done) \notin ToSet(reported')
    <3>1. handlers[k].done # <<>> /\ Last(handlers[k].done) \notin ToSet(reported)
      BY <2>2 DEF IInv, Hands
    <3>2. handlers[k] \in Activation
      BY DEF IInv, TypeOK
    <3>3. handlers[k].done \in Seq(Message)
      BY <3>2 DEF Activation
    <3>4. Last(handlers[k].done) \in ToSet(handlers[k].done)
      BY <3>1, <3>3, Elements
    <3> QED BY <1>3, <1>4, <1>6, <2>1, <3>1, <3>4
  <2> QED BY <2>1, <2>2
<1>8. ToSet(h.done) \cap ToSet(stored') = {} /\ IsInjective(h.done)
  BY <1>1, <1>2, <1>3 DEF IInv, Hands
<1>9. handlers' \in Seq(Activation) /\ Hands' /\ InHand' = InHand \cup ToSet(h.done)
  BY <1>1, <1>3, <1>7, <1>8, Replaced DEF IInv
<1>10. InHand' = InHand
  BY <1>2, <1>3, <1>9 DEF InHand
<1>11. Existing' \subseteq Existing
  BY <1>1, <1>6, <1>10 DEF Existing
<1>12. NumbersIdentify'
  BY <1>1, <1>6, <1>11, NoneNew DEF IInv, NumbersIdentify
<1>13. TypeOK' /\ ReportedAreKept'
  BY <1>1, <1>6, <1>9, <1>10 DEF IInv, TypeOK, ReportedAreKept
<1> QED BY <1>9, <1>12, <1>13 DEF IInv

LEMMA StoreReceivedKeeps == IInv /\ StoreReceived => IInv'
<1> SUFFICES ASSUME IInv, StoreReceived PROVE IInv'
  OBVIOUS
<1>1. /\ handlers # <<>> /\ Return /\ stored' = stored \o Top.done
      /\ UNCHANGED <<attached, recvEnabled, nextNum, reported>>
  BY DEF StoreReceived, Running
<1>2. /\ 1 \in DOMAIN handlers /\ Top = handlers[1] /\ Top \in Activation
  BY <1>1, TopOf DEF IInv
<1>3. Top.done \in Seq(Message)
  BY <1>2 DEF Activation
<1>4. /\ stored' \in Seq(Message) /\ ToSet(stored') = ToSet(stored) \cup ToSet(Top.done)
      /\ IsInjective(stored')
  <2>1. stored \in Seq(Message) /\ IsInjective(stored)
    BY DEF IInv, TypeOK, NumbersIdentify
  <2>2. IsInjective(Top.done) /\ ToSet(stored) \cap ToSet(Top.done) = {}
    BY <1>2 DEF IInv, Hands
  <2> QED BY <1>1, <1>3, <2>1, <2>2, Joined
<1>5. /\ handlers' \in Seq(Activation) /\ loop' \in BOOLEAN /\ Hands'
      /\ InHand' \subseteq InHand /\ InHand \subseteq InHand' \cup ToSet(Top.done)
  BY <1>1, <1>4, Returned DEF IInv
<1>6. ToSet(Top.done) \subseteq InHand
  BY <1>2 DEF InHand
<1>7. Existing' \subseteq Existing
  BY <1>1, <1>4, <1>5, <1>6 DEF Existing
<1>8. NumbersIdentify'
  BY <1>1, <1>4, <1>7, NoneNew DEF IInv, NumbersIdentify
<1>9. TypeOK' /\ ReportedAreKept'
  BY <1>1, <1>4, <1>5 DEF IInv, TypeOK, ReportedAreKept
<1> QED BY <1>5, <1>8, <1>9 DEF IInv

LEMMA TellSentKeeps == IInv /\ TellSent => IInv'
<1> SUFFICES ASSUME IInv, TellSent PROVE IInv'
  OBVIOUS
<1> DEFINE h == [Top EXCEPT !.told = TRUE]
<1>1. /\ handlers # <<>> /\ Top.type = "Sent" /\ WithTop(h)
      /\ UNCHANGED <<attached, recvEnabled, nextNum, stored, loop, reported>>
  BY DEF TellSent, Running
<1>2. /\ 1 \in DOMAIN handlers /\ Top = handlers[1] /\ Top \in Activation
  BY <1>1, TopOf DEF IInv
<1>3. h \in Activation /\ h.type = "Sent" /\ h.done = Top.done
  BY <1>1, <1>2 DEF Activation
<1> HIDE DEF h
<1>4. Top.done = <<>>
  BY <1>1, <1>2 DEF IInv, Hands
<1>5. ToSet(h.done) = {} /\ IsInjective(h.done)
  BY <1>3, <1>4 DEF ToSet, IsInjective
<1>6. \A k \in DOMAIN handlers : k # 1 =>
        /\ ToSet(handlers[k].done) \cap ToSet(h.done) = {}
        /\ ToSet(handlers[k].done) \cap ToSet(stored') = {}
        /\ handlers[k].type = "Received" /\ handlers[k].told =>
             Last(handlers[k].done) \notin ToSet(reported')
  BY <1>1, <1>5 DEF IInv, Hands
<1>7. handlers' \in Seq(Activation) /\ Hands' /\ InHand' = InHand \cup ToSet(h.done)
  BY <1>1, <1>3, <1>4, <1>5, <1>6, Replaced DEF IInv
<1>8. InHand' = InHand
  BY <1>5, <1>7
<1>9. NumbersIdentify' /\ ReportedAreKept' /\ TypeOK'
  BY <1>1, <1>7, <1>8 DEF IInv, NumbersIdentify, ReportedAreKept, TypeOK
<1> QED BY <1>7, <1>9 DEF IInv

LEMMA StoreSentKeeps ==
  ASSUME IInv, NEW name \in Names, StoreSent(Numbered("Sent", name))
  PROVE  IInv'
<1> DEFINE m == Numbered("Sent", name)
           h == [Top EXCEPT !.told = FALSE, !.todo = Tail(Top.todo)]
<1>1. /\ handlers # <<>> /\ Top.type = "Sent" /\ Top.todo # <<>> /\ WithTop(h)
      /\ nextNum' = nextNum + 1 /\ stored' = Append(stored, m) /\ reported' = Append(reported, m)
      /\ UNCHANGED <<attached, recvEnabled, loop>>
  BY DEF StoreSent, Running
<1>2. /\ 1 \in DOMAIN handlers /\ Top = handlers[1] /\ Top \in Activation
  BY <1>1, TopOf DEF IInv
<1>3. m \in Message /\ m.num = nextNum /\ m \notin Existing
  BY NumberedIsNew DEF IInv, Types
<1> HIDE DEF m
<1>4. h \in Activation /\ h.type = "Sent" /\ h.done = Top.done
  <2> DEFINE names == Tail(Top.todo)
  <2>1. Top.todo \in Seq(Names)
    BY <1>2 DEF Activation
  <2>2. names \in Seq(Names)
    BY <1>1, <2>1
  <2> HIDE DEF names
  <2>3. h = [Top EXCEPT !.told = FALSE, !.todo = names]
    BY DEF names
  <2> HIDE DEF h
  <2> QED BY <1>1, <1>2, <2>2, <2>3 DEF Activation
<1> HIDE DEF h
<1>5. Top.done = <<>>
  BY <1>1, <1>2 DEF IInv, Hands
<1>6. ToSet(h.done) = {} /\ IsInjective(h.done)
  BY <1>4, <1>5 DEF ToSet, IsInjective
<1>7. /\ stored' \in Seq(Message) /\ ToSet(stored') = ToSet(stored) \cup {m} /\ IsInjective(stored')
      /\ reported' \in Seq(Message) /\ ToSet(reported') = ToSet(reported) \cup {m}
      /\ IsInjective(reported')
  <2>1. /\ stored \in Seq(Message) /\ reported \in Seq(Message)
        /\ IsInjective(stored) /\ IsInjective(reported)
    BY DEF IInv, TypeOK, NumbersIdentify
  <2>2. m \notin ToSet(stored) /\ m \notin ToSet(reported)
    BY <1>3 DEF Existing
  <2> QED BY <1>1, <1>3, <2>1, <2>2, Elements
<1>8. ASSUME NEW k \in DOMAIN handlers, k # 1
      PROVE  /\ ToSet(handlers[k].done) \cap ToSet(h.done) = {}
             /\ ToSet(handlers[k].done) \cap ToSet(stored') = {}
             /\ handlers[k].type = "Received" /\ handlers[k].told =>
                  Last(handlers[k].done) \notin ToSet(reported')
  <2>1. m \notin ToSet(handlers[k].done)
    BY <1>3 DEF Existing, InHand
  <2>2. /\ ToSet(handlers[k].done) \cap ToSet(h.done) = {}
        /\ ToSet(handlers[k].done) \cap ToSet(stored') = {}
    BY <1>6, <1>7, <2>1 DEF IInv, Hands
  <2>3. ASSUME handlers[k].type = "Received", handlers[k].told
        PROVE  Last(handlers[k].done) \notin ToSet(reported')
    <3>1. handlers[k].done # <<>> /\ Last(handlers[k].done) \notin ToSet(reported)
      BY <2>3 DEF IInv, Hands
    <3>2. handlers[k] \in Activation
      BY DEF IInv, TypeOK
    <3>3. handlers[k].done \in Seq(Message)
      BY <3>2 DEF Activation
    <3>4. Last(handlers[k].done) \in ToSet(handlers[k].done)
      BY <3>1, <3>3, Elements
    <3> QED BY <1>7, <2>1, <3>1, <3>4
  <2> QED BY <2>2, <2>3
<1>9. handlers' \in Seq(Activation) /\ Hands' /\ InHand' = InHand \cup ToSet(h.done)
  BY <1>1, <1>4, <1>5, <1>6, <1>8, Replaced DEF IInv
<1>10. Existing' \subseteq Existing \cup {m}
  BY <1>6, <1>7, <1>9 DEF Existing
<1>11. NumbersIdentify'
  BY <1>1, <1>3, <1>7, <1>10, OneNew DEF IInv
<1>12. TypeOK' /\ ReportedAreKept'
  BY <1>1, <1>6, <1>7, <1>9 DEF IInv, TypeOK, ReportedAreKept
<1> QED BY <1>9, <1>11, <1>12 DEF IInv

LEMMA SendDoneKeeps == IInv /\ SendDone => IInv'
<1> SUFFICES ASSUME IInv, SendDone PROVE IInv'
  OBVIOUS
<1>1. /\ handlers # <<>> /\ Top.type = "Sent" /\ Return
      /\ UNCHANGED <<attached, recvEnabled, nextNum, stored, reported>>
  BY DEF SendDone, Running
<1>2. 1 \in DOMAIN handlers /\ Top = handlers[1]
  BY <1>1, TopOf DEF IInv
<1>3. ToSet(Top.done) = {}
  BY <1>1, <1>2 DEF IInv, Hands, ToSet
<1>4. handlers' \in Seq(Activation) /\ loop' \in BOOLEAN /\ Hands' /\ InHand' = InHand
  BY <1>1, <1>3, Returned DEF IInv
<1>5. NumbersIdentify' /\ ReportedAreKept' /\ TypeOK'
  BY <1>1, <1>4 DEF IInv, NumbersIdentify, ReportedAreKept, TypeOK
<1> QED BY <1>4, <1>5 DEF IInv

-----------------------------------------------------------------------------
(* The application deletes, clears and loads while no handler runs.          *)
LEMMA WhileNoneRuns ==
  ASSUME IInv, UserMayAct, UNCHANGED <<handlers, loop>>, attached' \in BOOLEAN, recvEnabled' \in BOOLEAN,
         nextNum' \in Nat, stored' \in Seq(Message), reported' \in Seq(Message),
         NumbersIdentify', ToSet(reported') \subseteq ToSet(stored')
  PROVE  IInv'
<1>1. handlers = <<>> /\ handlers' = <<>>
  BY DEF UserMayAct
<1>2. TypeOK'
  BY DEF IInv, TypeOK
<1>3. Hands'
  BY <1>1 DEF Hands
<1> QED BY <1>2, <1>3 DEF IInv, ReportedAreKept

LEMMA NoHands ==
  ASSUME UserMayAct, UNCHANGED handlers
  PROVE  InHand = {} /\ InHand' = {}
BY DEF UserMayAct, InHand

LEMMA TakenKeeps ==
  ASSUME IInv, UserMayAct, UNCHANGED <<handlers, loop, attached, recvEnabled, nextNum>>,
         stored' \in Seq(Message), reported' \in Seq(Message),
         IsInjective(stored'), IsInjective(reported'),
         ToSet(stored') \subseteq ToSet(stored), ToSet(reported') \subseteq ToSet(reported),
         ToSet(reported') \subseteq ToSet(stored')
  PROVE  IInv'
<1>1. Existing' \subseteq Existing
  BY NoHands DEF Existing
<1>2. NumbersIdentify'
  BY <1>1, NoneNew DEF IInv
<1> QED BY <1>2, WhileNoneRuns DEF IInv, TypeOK

LEMMA DeleteKeeps ==
  ASSUME IInv, NEW m, Delete(m)
  PROVE  IInv'
<1>1. /\ UserMayAct /\ stored' = DeleteMsg(stored, m) /\ reported' = DeleteMsg(reported, m)
      /\ UNCHANGED <<attached, recvEnabled, nextNum, handlers, loop>>
  BY DEF Delete
<1>2. /\ stored \in Seq(Message) /\ reported \in Seq(Message)
      /\ IsInjective(stored) /\ IsInjective(reported) /\ ToSet(reported) \subseteq ToSet(stored)
  BY <1>1, NoHands DEF IInv, TypeOK, NumbersIdentify, ReportedAreKept
<1>3. ASSUME NEW s \in Seq(Message), IsInjective(s)
      PROVE  /\ DeleteMsg(s, m) \in Seq(Message) /\ IsInjective(DeleteMsg(s, m))
             /\ ToSet(DeleteMsg(s, m)) = {x \in ToSet(s) : x.num # m.num}
  <2> DEFINE S == {x \in ToSet(s) : x.num # m.num}
  <2>1. /\ Among(s, S) \in Seq(Message) /\ ToSet(Among(s, S)) = ToSet(s) \cap S
        /\ IsInjective(Among(s, S))
    BY <1>3, Some
  <2> QED BY <2>1 DEF DeleteMsg
<1> QED BY <1>1, <1>2, <1>3, TakenKeeps

(* What deleteMsgs() is asked for is in the store, and what it takes out of  *)
(* the store it was asked for.                                               *)
LEMMA Listed ==
  ASSUME IInv, NEW list \in AppLists
  PROVE  list \in Seq(Message) /\ IsInjective(list) /\ ToSet(list) \subseteq ToSet(reported)
<1>1. PICK all \in {reported, Among(stored, ToSet(reported))}, some \in SUBSET ToSet(reported) :
        list = Among(all, some)
  BY DEF AppLists
<1>2. /\ stored \in Seq(Message) /\ reported \in Seq(Message)
      /\ IsInjective(stored) /\ IsInjective(reported)
  BY DEF IInv, TypeOK, NumbersIdentify
<1>3. all \in Seq(Message) /\ IsInjective(all)
  <2>1. CASE all = reported
    BY <1>2, <2>1
  <2>2. CASE all = Among(stored, ToSet(reported))
    BY <1>2, <2>2, Some
  <2> QED BY <2>1, <2>2
<1>4. list \in Seq(Message) /\ IsInjective(list) /\ ToSet(list) = ToSet(all) \cap some
  BY <1>1, <1>3, Some
<1> QED BY <1>4

LEMMA Empty == ASSUME NEW M, NEW s \in Seq(M), ToSet(s) = {} PROVE s = <<>>
<1>1. DOMAIN s = {}
  BY DEF ToSet
<1>2. Len(s) = 0
  BY <1>1
<1> QED BY <1>2

LEMMA NoneTaken == ASSUME NEW M, NEW s \in Seq(M) PROVE Among(s, {}) = <<>>
<1>1. Among(s, {}) \in Seq(M) /\ ToSet(Among(s, {})) = {}
  BY Some
<1> QED BY <1>1, Empty

LEMMA ListTaken ==
  ASSUME IInv, NEW list \in Seq(Message), IsInjective(list), ToSet(list) \subseteq ToSet(stored),
         DeleteList(list)
  PROVE  /\ stored' \in Seq(Message) /\ IsInjective(stored')
         /\ reported' \in Seq(Message) /\ IsInjective(reported')
         /\ ToSet(stored') \subseteq ToSet(stored)
         /\ ToSet(reported') = ToSet(reported) \ ToSet(list)
         /\ ToSet(stored) \ ToSet(stored') \subseteq ToSet(list)
         /\ ToSet(reported) \subseteq ToSet(stored)
         /\ stored' = Among(stored, ToSet(stored'))
<1>1. /\ UserMayAct /\ UNCHANGED handlers
      /\ stored' = IF Len(list) = Len(stored) THEN <<>> ELSE DeleteMsgs(stored, list)
      /\ reported' = Among(reported, ToSet(reported) \ ToSet(list))
  BY DEF DeleteList
<1>2. /\ stored \in Seq(Message) /\ reported \in Seq(Message)
      /\ IsInjective(stored) /\ IsInjective(reported) /\ ToSet(reported) \subseteq ToSet(stored)
  BY <1>1, NoHands DEF IInv, TypeOK, NumbersIdentify, ReportedAreKept
<1>3. /\ reported' \in Seq(Message) /\ IsInjective(reported')
      /\ ToSet(reported') = ToSet(reported) \ ToSet(list)
  <2> DEFINE S == ToSet(reported) \ ToSet(list)
  <2>1. /\ Among(reported, S) \in Seq(Message) /\ IsInjective(Among(reported, S))
        /\ ToSet(Among(reported, S)) = ToSet(reported) \cap S
    BY <1>2, Some
  <2> QED BY <1>1, <2>1
<1>4. /\ stored' \in Seq(Message) /\ IsInjective(stored')
      /\ ToSet(stored') \subseteq ToSet(stored)
      /\ ToSet(stored) \ ToSet(stored') \subseteq ToSet(list)
      /\ stored' = Among(stored, ToSet(stored'))
  <2>1. CASE Len(list) = Len(stored)
    <3>1. ToSet(list) = ToSet(stored)
      BY <1>2, <2>1, SameLength
    <3>2. stored' = <<>> /\ stored' \in Seq(Message) /\ ToSet(stored') = {} /\ IsInjective(stored')
      BY <1>1, <1>2, <2>1, Elements
    <3>3. Among(stored, {}) = <<>>
      BY <1>2, NoneTaken
    <3> QED BY <3>1, <3>2, <3>3
  <2>2. CASE Len(list) # Len(stored)
    <3>1. PICK K \in SUBSET DOMAIN stored :
            /\ DeleteMsgs(stored, list) = AtPositions(stored, K)
            /\ \A k \in DOMAIN stored \ K : \E j \in DOMAIN list : list[j].num = stored[k].num
      BY Walk
    <3>2. stored' = AtPositions(stored, K)
      BY <1>1, <2>2, <3>1
    <3>3. /\ stored' \in Seq(Message) /\ IsInjective(stored')
          /\ ToSet(stored') = {stored[k] : k \in K}
      BY <1>2, <3>2, Positions
    <3>4. ToSet(stored') \subseteq ToSet(stored)
      BY <3>3 DEF ToSet
    <3>5. ASSUME NEW k \in DOMAIN stored \ K PROVE stored[k] \in ToSet(list)
      <4>1. PICK j \in DOMAIN list : list[j].num = stored[k].num
        BY <3>1
      <4>2. stored[k] \in ToSet(stored) /\ list[j] \in ToSet(list)
        BY DEF ToSet
      <4>3. list[j] \in ToSet(stored)
        BY <4>2
      <4>4. stored[k] = list[j]
        BY <4>1, <4>2, <4>3 DEF IInv, NumbersIdentify
      <4> QED BY <4>2, <4>4
    <3>6. ToSet(stored) \ ToSet(stored') \subseteq ToSet(list)
      BY <3>3, <3>5 DEF ToSet
    <3>7. stored' = Among(stored, ToSet(stored'))
      BY <1>2, <3>2, KnownByElements
    <3> QED BY <3>3, <3>4, <3>6, <3>7
  <2> QED BY <2>1, <2>2
<1> QED BY <1>2, <1>3, <1>4

LEMMA DeleteListKeeps ==
  ASSUME IInv, NEW list \in Seq(Message), IsInjective(list), ToSet(list) \subseteq ToSet(stored),
         DeleteList(list)
  PROVE  IInv'
<1>1. UserMayAct /\ UNCHANGED <<attached, recvEnabled, nextNum, handlers, loop>>
  BY DEF DeleteList
<1>2. /\ stored' \in Seq(Message) /\ IsInjective(stored')
      /\ reported' \in Seq(Message) /\ IsInjective(reported')
      /\ ToSet(stored') \subseteq ToSet(stored)
      /\ ToSet(reported') \subseteq ToSet(reported)
      /\ ToSet(reported') \subseteq ToSet(stored')
  BY ListTaken
<1> QED BY <1>1, <1>2, TakenKeeps

LEMMA AppListKeeps ==
  ASSUME IInv, NEW list \in AppLists, DeleteList(list)
  PROVE  IInv'
<1>1. list \in Seq(Message) /\ IsInjective(list) /\ ToSet(list) \subseteq ToSet(reported)
  BY Listed
<1>2. UserMayAct /\ UNCHANGED handlers
  BY DEF DeleteList
<1>3. ToSet(reported) \subseteq ToSet(stored)
  BY <1>2, NoHands DEF IInv, ReportedAreKept
<1> QED BY <1>1, <1>3, DeleteListKeeps

LEMMA ResetKeeps == IInv /\ Reset => IInv'
<1> SUFFICES ASSUME IInv, Reset PROVE IInv'
  OBVIOUS
<1>1. /\ UserMayAct /\ attached' = FALSE /\ stored' = <<>> /\ reported' = <<>>
      /\ UNCHANGED <<recvEnabled, nextNum, handlers, loop>>
  BY DEF Reset
<1>2. /\ ToSet(stored') = {} /\ ToSet(reported') = {} /\ InHand' = {}
      /\ IsInjective(stored') /\ IsInjective(reported')
      /\ stored' \in Seq(Message) /\ reported' \in Seq(Message)
  BY <1>1, NoHands, Elements DEF IInv, TypeOK
<1>3. NumbersIdentify'
  BY <1>2 DEF NumbersIdentify
<1> QED BY <1>1, <1>2, <1>3, WhileNoneRuns DEF IInv, TypeOK

LEMMA FileIsNumbered ==
  ASSUME TypeOK, NEW msgs \in Files
  PROVE  /\ msgs \in Seq(Message) /\ Len(msgs) \in Nat \ {0}
         /\ \A k \in DOMAIN msgs : msgs[k].num = nextNum + k - 1
<1>1. PICK names \in Chunks : \E types \in [DOMAIN names -> Types] : msgs = Loaded(names, types)
  BY DEF Files
<1>2. PICK types \in [DOMAIN names -> Types] : msgs = Loaded(names, types)
  BY <1>1
<1>3. PICK n \in 1..MaxChunk : names \in [1..n -> Names]
  BY <1>1 DEF Chunks
<1>4. n \in Nat \ {0} /\ nextNum \in Nat
  BY MsgMgrAssumption DEF TypeOK
<1>5. Len(names) = n /\ DOMAIN names = 1..n
  BY <1>3, <1>4
<1>6. \A k \in 1..n :
        [num |-> nextNum + k - 1, type |-> types[k], name |-> names[k]] \in Message
  <2> TAKE k \in 1..n
  <2>1. nextNum + k - 1 \in Nat /\ types[k] \in Types /\ names[k] \in Names
    BY <1>2, <1>3, <1>4, <1>5
  <2> QED BY <2>1 DEF Message
<1>7. msgs = [k \in 1..n |-> [num |-> nextNum + k - 1, type |-> types[k], name |-> names[k]]]
  BY <1>2, <1>5 DEF Loaded
<1>8. msgs \in Seq(Message) /\ Len(msgs) = n
  BY <1>4, <1>6, <1>7
<1> QED BY <1>4, <1>7, <1>8

LEMMA LoadKeeps ==
  ASSUME IInv, NEW msgs \in Files, Load(msgs)
  PROVE  IInv'
<1>1. /\ UserMayAct /\ stored' = msgs /\ reported' = msgs /\ nextNum' = nextNum + Len(msgs)
      /\ UNCHANGED <<attached, recvEnabled, handlers, loop>>
  BY DEF Load
<1>2. /\ msgs \in Seq(Message) /\ Len(msgs) \in Nat \ {0} /\ nextNum \in Nat
      /\ \A k \in DOMAIN msgs : msgs[k].num = nextNum + k - 1
  BY FileIsNumbered DEF IInv, TypeOK
<1>3. DOMAIN msgs = 1..Len(msgs)
  BY <1>2
<1>4. \A k, l \in DOMAIN msgs :
        msgs[k].num < nextNum + Len(msgs) /\ (msgs[k].num = msgs[l].num => k = l)
  BY <1>2, <1>3
<1>5. IsInjective(msgs)
  BY <1>4 DEF IsInjective
<1>6. \A m, n \in ToSet(msgs) :
        m.num < nextNum + Len(msgs) /\ (m.num = n.num => m = n)
  BY <1>4 DEF ToSet
<1>7. ToSet(stored') \cup InHand' \cup ToSet(reported') = ToSet(msgs)
  BY <1>1, NoHands
<1>8. NumbersIdentify'
  BY <1>1, <1>5, <1>6, <1>7 DEF NumbersIdentify
<1> QED BY <1>1, <1>2, <1>8, WhileNoneRuns DEF IInv, TypeOK

-----------------------------------------------------------------------------
LEMMA SilentKeeps == IInv /\ Silent => IInv'
<1> SUFFICES ASSUME IInv, Silent PROVE IInv'
  OBVIOUS
<1>1. attached \in BOOLEAN /\ recvEnabled \in BOOLEAN /\ loop \in BOOLEAN
  BY DEF IInv, TypeOK
<1>2. CASE Attach
  BY <1>1, <1>2, StaysSame DEF Attach
<1>3. CASE Clear
  BY <1>1, <1>3, StaysSame DEF Clear
<1>4. CASE SetRecvEnabled
  BY <1>1, <1>4, StaysSame DEF SetRecvEnabled
<1>5. CASE SocketDataReceived
  <2>1. PICK names \in Chunks : Call("Received", names, TRUE)
    BY <1>5 DEF SocketDataReceived
  <2>2. names \in Seq(Names) /\ "Received" \in Types
    BY ChunksAreNames DEF Types
  <2> QED BY <1>5, <2>1, <2>2, CallKeeps DEF SocketDataReceived
<1>6. CASE SendMsgs
  <2>1. PICK names \in Chunks : Call("Sent", names, TRUE)
    BY <1>6 DEF SendMsgs
  <2>2. names \in Seq(Names) /\ "Sent" \in Types
    BY ChunksAreNames DEF Types
  <2> QED BY <1>6, <2>1, <2>2, CallKeeps DEF SendMsgs
<1>7. CASE Reply
  <2>1. PICK name \in Names : Call("Sent", <<name>>, FALSE)
    BY <1>7 DEF Reply
  <2>2. <<name>> \in Seq(Names) /\ "Sent" \in Types
    BY DEF Types
  <2> QED BY <1>7, <2>1, <2>2, CallKeeps DEF Reply
<1>8. CASE OpenBox
  BY <1>1, <1>8, StaysSame DEF OpenBox
<1>9. CASE CloseBox
  BY <1>1, <1>9, StaysSame DEF CloseBox
<1> QED BY <1>2, <1>3, <1>4, <1>5, <1>6, <1>7, <1>8, <1>9, TellReceivedKeeps,
           StoreReceivedKeeps, TellSentKeeps, SendDoneKeeps DEF Silent

LEMMA NextKeeps == IInv /\ [Next]_msgMgrVars => IInv'
<1> SUFFICES ASSUME IInv, [Next]_msgMgrVars PROVE IInv'
  OBVIOUS
<1>1. CASE UNCHANGED msgMgrVars
  BY <1>1, StaysSame DEF msgMgrVars, IInv, TypeOK
<1> QED BY <1>1, SilentKeeps, ResetKeeps, LoadKeeps, AppListKeeps, DeleteKeeps,
           StoreSentKeeps, ReportReceivedKeeps DEF Next

LEMMA Inductive == Spec => []IInv
BY InitIInv, NextKeeps, PTL DEF Spec

(* Numbers, lists and the stack of handlers stay what they are declared as.  *)
THEOREM TypeCorrect == Spec => []TypeOK
<1>1. IInv => TypeOK
  BY DEF IInv
<1> QED BY <1>1, Inductive, PTL

(* m_nextMsgNum gives every message a number of its own, however the         *)
(* handlers of received and sent messages nest: deleteMsg() and deleteMsgs() *)
(* find the message that was meant.                                          *)
THEOREM NumbersAreUnique == Spec => []NumbersIdentify
<1>1. IInv => NumbersIdentify
  BY DEF IInv
<1> QED BY <1>1, Inductive, PTL

(* A message the application was told of is in m_allMsgs, or about to be     *)
(* spliced into it by a handler that still runs.                             *)
THEOREM NothingReportedIsLost == Spec => []ReportedAreKept
<1>1. IInv => ReportedAreKept
  BY DEF IInv
<1> QED BY <1>1, Inductive, PTL

-----------------------------------------------------------------------------
OnlyListed ==
  /\ ToSet(stored) \ ToSet(stored') \subseteq ToSet(reported) \ ToSet(reported')
  /\ stored' = Among(stored, ToSet(stored'))

LEMMA DeleteTakesListed ==
  ASSUME IInv, NEW m \in ToSet(reported), Delete(m)
  PROVE  OnlyListed
<1> DEFINE S(s) == {x \in ToSet(s) : x.num # m.num}
<1>1. /\ UserMayAct /\ UNCHANGED handlers
      /\ stored' = Among(stored, S(stored)) /\ reported' = Among(reported, S(reported))
  BY DEF Delete, DeleteMsg
<1>2. /\ stored \in Seq(Message) /\ reported \in Seq(Message)
      /\ IsInjective(stored) /\ ToSet(reported) \subseteq ToSet(stored)
  BY <1>1, NoHands DEF IInv, TypeOK, NumbersIdentify, ReportedAreKept
<1>3. /\ ToSet(stored') = ToSet(stored) \cap S(stored)
      /\ ToSet(reported') = ToSet(reported) \cap S(reported)
  BY <1>1, <1>2, Some
<1>4. ASSUME NEW x \in ToSet(stored), x \notin ToSet(stored') PROVE x = m
  BY <1>2, <1>3, <1>4 DEF IInv, NumbersIdentify
<1>5. m \notin ToSet(reported')
  BY <1>3
<1>6. stored' = Among(stored, ToSet(stored'))
  <2> DEFINE K == {k \in DOMAIN stored : stored[k] \in S(stored)}
  <2>1. stored' = AtPositions(stored, K) /\ K \in SUBSET DOMAIN stored
    BY <1>1 DEF Among
  <2> HIDE DEF K
  <2> QED BY <1>2, <2>1, KnownByElements
<1> QED BY <1>4, <1>5, <1>6 DEF OnlyListed

LEMMA StoreOnlyShrinksByDeleting ==
  ASSUME IInv, Next, Len(stored') < Len(stored), attached' = attached, nextNum' = nextNum
  PROVE  OnlyListed
<1>1. /\ stored \in Seq(Message) /\ Len(stored) \in Nat /\ nextNum \in Nat
  BY DEF IInv, TypeOK
<1>2. stored' # stored
  BY <1>1
<1>3. ~StoreReceived
  <2> SUFFICES ASSUME StoreReceived PROVE FALSE
    OBVIOUS
  <2>1. handlers # <<>> /\ stored' = stored \o Top.done
    BY DEF StoreReceived, Running
  <2>2. Top \in Activation
    BY <2>1, TopOf DEF IInv
  <2>3. Top.done \in Seq(Message)
    BY <2>2 DEF Activation
  <2>4. Len(stored') = Len(stored) + Len(Top.done) /\ Len(Top.done) \in Nat
    BY <1>1, <2>1, <2>3
  <2> QED BY <1>1, <2>4
<1>4. ~Silent
  BY <1>2, <1>3 DEF Silent, Attach, Clear, SetRecvEnabled, SocketDataReceived, SendMsgs,
     TellReceived, TellSent, SendDone, Reply, OpenBox, CloseBox
<1>5. ~Reset
  BY DEF Reset
<1>6. ASSUME NEW msgs \in Files, Load(msgs) PROVE FALSE
  <2>1. Len(msgs) \in Nat \ {0} /\ nextNum' = nextNum + Len(msgs)
    BY <1>6, FileIsNumbered DEF Load, IInv
  <2> QED BY <1>1, <2>1
<1>7. ASSUME NEW name \in Names, StoreSent(Numbered("Sent", name)) PROVE FALSE
  BY <1>1, <1>7 DEF StoreSent
<1>8. ASSUME NEW m \in InHand, ReportReceived(m) PROVE FALSE
  BY <1>2, <1>8 DEF ReportReceived
<1>9. ASSUME NEW list \in AppLists, DeleteList(list) PROVE OnlyListed
  <2>1. list \in Seq(Message) /\ IsInjective(list) /\ ToSet(list) \subseteq ToSet(reported)
    BY Listed
  <2>2. UserMayAct /\ UNCHANGED handlers
    BY <1>9 DEF DeleteList
  <2>3. ToSet(reported) \subseteq ToSet(stored)
    BY <2>2, NoHands DEF IInv, ReportedAreKept
  <2> QED BY <1>9, <2>1, <2>3, ListTaken DEF OnlyListed
<1> QED BY <1>4, <1>5, <1>6, <1>7, <1>8, <1>9, DeleteTakesListed DEF Next

(* deleteMsg() and deleteMsgs(), with its shortcut for a list as long as the *)
(* store, take out what they were asked for and keep the rest in its order.  *)
THEOREM DeletionsAreAsked == Spec => DeletesOnlyListed
<1>1. IInv /\ [Next]_msgMgrVars =>
        [ Len(stored') < Len(stored) /\ attached' = attached /\ nextNum' = nextNum =>
            /\ ToSet(stored) \ ToSet(stored') \subseteq ToSet(reported) \ ToSet(reported')
            /\ stored' = Among(stored, ToSet(stored')) ]_msgMgrVars
  BY StoreOnlyShrinksByDeleting DEF OnlyListed
<1> QED BY <1>1, Inductive, PTL DEF Spec, DeletesOnlyListed

-----------------------------------------------------------------------------
(* Induction over a range of numbers, for a set instead of a predicate.      *)
LEMMA NatLess == IsWellFoundedOn({ss \in Nat \X Nat : ss[1] < ss[2]}, Nat)
BY NatLessThanWellFounded DEF OpToRel

LEMMA Steps ==
  ASSUME NEW n \in Nat, NEW S, 0 \in S, \A k \in 1..n : k - 1 \in S => k \in S
  PROVE  \A k \in 0..n : k \in S
<1> DEFINE T == {k \in 0..n : k \notin S}
           R == {ss \in Nat \X Nat : ss[1] < ss[2]}
<1> SUFFICES ASSUME T # {} PROVE FALSE
  OBVIOUS
<1>1. \A a, b \in Nat : a < b => <<a, b>> \in R
  OBVIOUS
<1>2. IsWellFoundedOn(R, Nat) /\ T \subseteq Nat
  BY NatLess
<1> HIDE DEF R
<1>3. PICK x \in T : \A y \in T : <<y, x>> \notin R
  BY <1>2, WFMin, Zenon
<1>4. x \in 1..n /\ x - 1 \in Nat /\ x - 1 < x /\ x \in Nat
  OBVIOUS
<1>5. x - 1 \notin T
  BY <1>1, <1>3, <1>4
<1> QED BY <1>4, <1>5

(* A loop over positions: what each round makes of the state, as a function. *)
Loops(f, n, V, base, step) ==
  f \in [0..n -> V] /\ f[0] = base /\ \A k \in 1..n : f[k] = step[k][f[k - 1]]

LEMMA LoopExists ==
  ASSUME NEW n \in Nat, NEW V, NEW base \in V, NEW step \in [1..n -> [V -> V]]
  PROVE  \E f : Loops(f, n, V, base, step)
<1> DEFINE Good(j, f) == f[0] = base /\ \A k \in 1..j : f[k] = step[k][f[k - 1]]
           S == {j \in 0..n : \E f \in [0..j -> V] : Good(j, f)}
<1>1. 0 \in S
  <2>1. [k \in 0..0 |-> base] \in [0..0 -> V] /\ Good(0, [k \in 0..0 |-> base])
    OBVIOUS
  <2>2. \E f \in [0..0 -> V] : Good(0, f)
    <3> DEFINE g == [k \in 0..0 |-> base]
    <3>1. g \in [0..0 -> V] /\ Good(0, g)
      BY <2>1
    <3> HIDE DEF g, Good
    <3> QED BY <3>1
  <2>3. 0 \in 0..n
    OBVIOUS
  <2> HIDE DEF Good
  <2> QED BY <2>2, <2>3
<1>2. ASSUME NEW j \in 1..n, j - 1 \in S PROVE j \in S
  <2>1. PICK f \in [0..j - 1 -> V] : Good(j - 1, f)
    BY <1>2
  <2> DEFINE g == [k \in 0..j |-> IF k = j THEN step[j][f[j - 1]] ELSE f[k]]
  <2>2. step[j][f[j - 1]] \in V
    OBVIOUS
  <2>3. g \in [0..j -> V]
    BY <2>2
  <2>4. \A k \in 0..j - 1 : g[k] = f[k]
    OBVIOUS
  <2>5. g[0] = base
    BY <2>1, <2>4
  <2>6. ASSUME NEW k \in 1..j PROVE g[k] = step[k][g[k - 1]]
    <3>1. CASE k = j
      BY <2>4, <3>1
    <3>2. CASE k # j
      <4>1. k \in 1..j - 1 /\ k - 1 \in 0..j - 1 /\ k \in 0..j - 1
        BY <3>2
      <4>2. g[k] = f[k] /\ g[k - 1] = f[k - 1]
        BY <2>4, <4>1
      <4> QED BY <2>1, <4>1, <4>2
    <3> QED BY <3>1, <3>2
  <2>7. g \in [0..j -> V] /\ Good(j, g)
    BY <2>3, <2>5, <2>6
  <2> HIDE DEF g, Good
  <2> QED BY <2>7
<1> HIDE DEF S
<1>3. n \in S
  <2>1. \A k \in 1..n : k - 1 \in S => k \in S
    BY <1>2
  <2>2. \A k \in 0..n : k \in S
    BY <1>1, <2>1, Steps
  <2> QED BY <2>2
<1>4. PICK f \in [0..n -> V] : Good(n, f)
  BY <1>3 DEF S
<1>5. Loops(f, n, V, base, step)
  BY <1>4 DEF Loops
<1> QED BY <1>5

-----------------------------------------------------------------------------
(* The positions of a set in their order: there is such a list, and it is    *)
(* the one AtPositions goes by.                                              *)
Enumerates(g, c, K) ==
  /\ c \in Nat /\ g \in [1..c -> K]
  /\ \A k, l \in 1..c : k < l => g[k] < g[l]
  /\ \A k \in K : \E m \in 1..c : g[m] = k

LEMMA Enumeration ==
  ASSUME NEW n \in Nat, NEW K \in SUBSET (1..n)
  PROVE  \E c, g : Enumerates(g, c, K)
<1> DEFINE upto(k) == {i \in K : i <= k}
           c == Cardinality(K)
           rank(k) == Cardinality(upto(k))
           g == [m \in 1..c |-> CHOOSE k \in K : rank(k) = m]
<1>1. /\ c \in Nat
      /\ \A k \in K : rank(k) \in 1..c
      /\ \A k, l \in K : rank(k) = rank(l) => k = l
      /\ \A m \in 1..c : \E k \in K : rank(k) = m
  BY Ranks
<1>2. \A k \in K : k \in Nat
  OBVIOUS
<1>3. \A k, l \in K : l <= k => rank(l) <= rank(k)
  <2> TAKE k, l \in K
  <2> HAVE l <= k
  <2>1. IsFiniteSet(1..n) /\ upto(k) \in SUBSET (1..n)
    <3>1. n \in Int /\ 1 \in Int
      OBVIOUS
    <3>2. IsFiniteSet(1..n)
      BY <3>1, FS_Interval
    <3> QED BY <3>2
  <2>2. IsFiniteSet(upto(k))
    BY <2>1, FS_Subset
  <2>3. \A i \in K : i <= l => i <= k
    BY <1>2
  <2>4. upto(l) \in SUBSET upto(k)
    BY <2>3
  <2> HIDE DEF upto
  <2> QED BY <2>2, <2>4, FS_Subset
<1> HIDE DEF c, rank
<1>4. \A m \in 1..c : g[m] \in K /\ rank(g[m]) = m
  BY <1>1
<1>5. g \in [1..c -> K]
  BY <1>4
<1>6. \A k \in K : \E m \in 1..c : g[m] = k
  BY <1>1, <1>4
<1> HIDE DEF g
<1>7. \A k, l \in 1..c : k < l => g[k] < g[l]
  <2> TAKE k, l \in 1..c
  <2> HAVE k < l
  <2>1. g[k] \in Nat /\ g[l] \in Nat /\ g[k] \in K /\ g[l] \in K
    BY <1>2, <1>4
  <2>2. g[l] <= g[k] => l <= k
    BY <1>3, <1>4, <2>1
  <2>3. k \in Nat /\ l \in Nat /\ ~(l <= k)
    BY <1>1
  <2> QED BY <2>1, <2>2, <2>3
<1>8. Enumerates(g, c, K)
  BY <1>1, <1>5, <1>6, <1>7 DEF Enumerates
<1> QED BY <1>8

LEMMA Enumerated ==
  ASSUME NEW M, NEW s \in Seq(M), NEW K \in SUBSET DOMAIN s, NEW c, NEW g, Enumerates(g, c, K)
  PROVE  /\ Cardinality(K) = c /\ c \in Nat
         /\ AtPositions(s, K) \in Seq(M) /\ Len(AtPositions(s, K)) = c
         /\ \A m \in 1..c : AtPositions(s, K)[m] = s[g[m]]
<1> DEFINE upto(k) == {i \in K : i <= k}
           rank(k) == Cardinality(upto(k))
           n == Len(s)
<1>1. n \in Nat /\ K \in SUBSET (1..n)
  OBVIOUS
<1> HIDE DEF n
<1>2. /\ c \in Nat /\ g \in [1..c -> K]
      /\ \A k, l \in 1..c : k < l => g[k] < g[l]
      /\ \A k \in K : \E m \in 1..c : g[m] = k
  BY DEF Enumerates
<1>3. \A k \in K : k \in Nat
  BY <1>1
<1>4. \A k, l \in 1..c : g[k] = g[l] => k = l
  <2> TAKE k, l \in 1..c
  <2>1. k \in Nat /\ l \in Nat /\ g[k] \in Nat /\ g[l] \in Nat
    <3>1. g[k] \in K /\ g[l] \in K
      BY <1>2
    <3>2. g[k] \in Nat /\ g[l] \in Nat
      BY <1>3, <3>1, Zenon
    <3> QED BY <1>2, <3>2
  <2>2. (k < l => g[k] < g[l]) /\ (l < k => g[l] < g[k])
    BY <1>2
  <2> QED BY <2>1, <2>2
<1>5. \A k, l \in 1..c : g[k] <= g[l] <=> k <= l
  <2> TAKE k, l \in 1..c
  <2>1. k \in Nat /\ l \in Nat /\ g[k] \in Nat /\ g[l] \in Nat
    <3>1. g[k] \in K /\ g[l] \in K
      BY <1>2
    <3>2. g[k] \in Nat /\ g[l] \in Nat
      BY <1>3, <3>1, Zenon
    <3> QED BY <1>2, <3>2
  <2>2. (k < l => g[k] < g[l]) /\ (l < k => g[l] < g[k])
    BY <1>2
  <2> QED BY <1>4, <2>1, <2>2
<1>6. ASSUME NEW m \in 0..c PROVE IsFiniteSet(1..m) /\ Cardinality(1..m) = m
  <2>1. m \in Int /\ 1 \in Int /\ m \in Nat
    BY <1>2
  <2>2. IsFiniteSet(1..m) /\ Cardinality(1..m) = IF 1 > m THEN 0 ELSE m - 1 + 1
    BY <2>1, FS_Interval
  <2> QED BY <2>1, <2>2
<1>7. Cardinality(K) = c
  <2>1. g \in Bijection(1..c, K)
    BY <1>2, <1>4 DEF Bijection, Injection, Surjection, IsInjective
  <2>2. IsFiniteSet(1..c) /\ Cardinality(1..c) = c
    BY <1>2, <1>6
  <2> QED BY <2>1, <2>2, FS_Bijection DEF ExistsBijection
<1>8. ASSUME NEW m \in 1..c PROVE rank(g[m]) = m
  <2> DEFINE h == [l \in 1..m |-> g[l]]
  <2>1. \A l \in 1..m : l \in 1..c /\ l <= m
    BY <1>2
  <2>2. \A l \in 1..m : g[l] \in upto(g[m])
    BY <1>2, <1>5, <2>1
  <2>3. \A k \in upto(g[m]) : \E l \in 1..m : g[l] = k
    <3> TAKE k \in upto(g[m])
    <3>1. PICK l \in 1..c : g[l] = k
      BY <1>2
    <3>2. l <= m
      BY <1>5, <3>1
    <3> QED BY <1>2, <3>1, <3>2
  <2>4. h \in Bijection(1..m, upto(g[m]))
    <3> HIDE DEF upto
    <3>1. h \in [1..m -> upto(g[m])]
      BY <2>2
    <3>2. \A k, l \in 1..m : h[k] = h[l] => k = l
      BY <1>4, <2>1
    <3>3. \A k \in upto(g[m]) : \E l \in 1..m : h[l] = k
      BY <2>3
    <3> HIDE DEF h
    <3> QED BY <3>1, <3>2, <3>3 DEF Bijection, Injection, Surjection, IsInjective
  <2>5. IsFiniteSet(1..m) /\ Cardinality(1..m) = m
    BY <1>2, <1>6
  <2> HIDE DEF h, upto
  <2> QED BY <2>4, <2>5, FS_Bijection DEF ExistsBijection
<1>9. AtPositions(s, K) = [m \in 1..c |-> s[CHOOSE k \in K : rank(k) = m]]
  BY <1>7 DEF AtPositions
<1>10. ASSUME NEW m \in 1..c PROVE (CHOOSE k \in K : rank(k) = m) = g[m]
  <2>1. \A k, l \in K : rank(k) = rank(l) => k = l
    BY <1>1, Ranks
  <2>2. g[m] \in K /\ rank(g[m]) = m
    BY <1>2, <1>8
  <2> HIDE DEF rank
  <2> QED BY <2>1, <2>2
<1> HIDE DEF rank
<1>11. AtPositions(s, K) \in Seq(M)
  BY Positions
<1>12. DOMAIN AtPositions(s, K) = 1..c /\ \A m \in 1..c : AtPositions(s, K)[m] = s[g[m]]
  BY <1>9, <1>10
<1> QED BY <1>2, <1>7, <1>11, <1>12

(* Only the elements that are there count.                                   *)
LEMMA AmongSame ==
  ASSUME NEW s, NEW S, NEW T, ToSet(s) \cap S = ToSet(s) \cap T
  PROVE  Among(s, S) = Among(s, T)
<1>1. {k \in DOMAIN s : s[k] \in S} = {k \in DOMAIN s : s[k] \in T}
  BY DEF ToSet
<1> QED BY <1>1 DEF Among

LEMMA AmongAll ==
  ASSUME NEW M, NEW s \in Seq(M), NEW S, ToSet(s) \subseteq S
  PROVE  Among(s, S) = s
<1> DEFINE n == Len(s)
           g == [k \in 1..n |-> k]
           t == AtPositions(s, 1..n)
<1>1. n \in Nat /\ DOMAIN s = 1..n
  OBVIOUS
<1>2. {k \in DOMAIN s : s[k] \in S} = 1..n
  BY <1>1 DEF ToSet
<1>3. Enumerates(g, n, 1..n) /\ \A k \in 1..n : g[k] = k
  BY <1>1 DEF Enumerates
<1> HIDE DEF g
<1>4. t \in Seq(M) /\ Len(t) = n /\ \A m \in 1..n : t[m] = s[g[m]]
  <2>1. 1..n \in SUBSET DOMAIN s
    BY <1>1
  <2> QED BY <1>3, <2>1, Enumerated
<1>5. \A m \in 1..n : t[m] = s[m]
  BY <1>3, <1>4
<1>6. t = s
  <2> HIDE DEF t
  <2> QED BY <1>4, <1>5, SeqEqual
<1> QED BY <1>2, <1>6 DEF Among

(* One more element at the end.                                              *)
LEMMA AmongAppend ==
  ASSUME NEW M, NEW s \in Seq(M), NEW x \in M, NEW S
  PROVE  Among(Append(s, x), S) = IF x \in S THEN Append(Among(s, S), x) ELSE Among(s, S)
<1> DEFINE n == Len(s)
           t == Append(s, x)
           K == {k \in DOMAIN s : s[k] \in S}
           L == {k \in DOMAIN t : t[k] \in S}
<1>1. n \in Nat /\ DOMAIN s = 1..n
  OBVIOUS
<1>2. /\ t \in Seq(M) /\ Len(t) = n + 1 /\ DOMAIN t = 1..(n + 1)
      /\ \A k \in 1..n : t[k] = s[k]
      /\ t[n + 1] = x
  BY AppendProperties
<1> HIDE DEF n, t
<1>3. K \in SUBSET (1..n) /\ L \in SUBSET (1..(n + 1)) /\ n + 1 \in Nat
  BY <1>1, <1>2
<1>4. L = IF x \in S THEN K \cup {n + 1} ELSE K
  <2>1. \A k \in 1..(n + 1) : k \in 1..n \/ k = n + 1
    BY <1>1
  <2>2. \A k \in 1..n : k \in 1..(n + 1) /\ k # n + 1
    BY <1>1
  <2>3. n + 1 \in 1..(n + 1)
    BY <1>1
  <2> QED BY <1>1, <1>2, <2>1, <2>2, <2>3
<1> HIDE DEF K, L
<1>5. PICK c, g : Enumerates(g, c, K)
  BY <1>1, <1>3, Enumeration
<1>6. /\ c \in Nat /\ g \in [1..c -> K]
      /\ \A k, l \in 1..c : k < l => g[k] < g[l]
      /\ \A k \in K : \E m \in 1..c : g[m] = k
  BY <1>5 DEF Enumerates
<1> DEFINE a == Among(s, S)
           b == Among(t, S)
<1>7. a = AtPositions(s, K) /\ b = AtPositions(t, L)
  BY DEF Among, K, L
<1>8. a \in Seq(M) /\ Len(a) = c /\ \A m \in 1..c : a[m] = s[g[m]]
  <2>1. K \in SUBSET DOMAIN s
    BY <1>1, <1>3
  <2> QED BY <1>5, <1>7, <2>1, Enumerated
<1>9. CASE x \notin S
  <2> HIDE DEF a, b
  <2>1. K \in SUBSET DOMAIN t /\ b = AtPositions(t, K)
    <3>1. L = K
      BY <1>4, <1>9
    <3>2. L \in SUBSET DOMAIN t
      BY <1>2, <1>3
    <3> QED BY <1>7, <3>1, <3>2
  <2>2. b \in Seq(M) /\ Len(b) = c /\ \A m \in 1..c : b[m] = t[g[m]]
    BY <1>2, <1>5, <2>1, Enumerated
  <2>3. \A m \in 1..c : t[g[m]] = s[g[m]]
    BY <1>2, <1>3, <1>6
  <2>4. \A m \in 1..c : a[m] = b[m]
    BY <1>8, <2>2, <2>3
  <2>5. a = b
    BY <1>8, <2>2, <2>4, SeqEqual
  <2> QED BY <1>9, <2>5 DEF a, b, t
<1>10. CASE x \in S
  <2> DEFINE h == [m \in 1..(c + 1) |-> IF m = c + 1 THEN n + 1 ELSE g[m]]
  <2>1. \A m \in 1..(c + 1) : m \in 1..c \/ m = c + 1
    BY <1>6
  <2>2. \A m \in 1..c : m # c + 1 /\ m \in 1..(c + 1) /\ g[m] \in K /\ g[m] < n + 1
    <3>1. \A k \in K : k < n + 1
      BY <1>1, <1>3
    <3> QED BY <1>6, <3>1
  <2>3. L = K \cup {n + 1}
    BY <1>4, <1>10
  <2>4. h \in [1..(c + 1) -> L]
    BY <2>1, <2>2, <2>3
  <2>5. \A m \in 1..c : h[m] = g[m]
    BY <2>2
  <2>6. h[c + 1] = n + 1 /\ c + 1 \in 1..(c + 1)
    BY <1>6
  <2> HIDE DEF h
  <2>7. \A k, l \in 1..(c + 1) : k < l => h[k] < h[l]
    <3> TAKE k, l \in 1..(c + 1)
    <3> HAVE k < l
    <3>1. k \in 1..c
      BY <1>6
    <3>2. CASE l \in 1..c
      BY <1>6, <2>5, <3>1, <3>2
    <3>3. CASE l = c + 1
      BY <2>2, <2>5, <2>6, <3>1, <3>3
    <3> QED BY <2>1, <3>2, <3>3
  <2>8. \A k \in L : \E m \in 1..(c + 1) : h[m] = k
    BY <1>6, <2>2, <2>3, <2>5, <2>6
  <2>9. Enumerates(h, c + 1, L)
    BY <1>6, <2>4, <2>7, <2>8 DEF Enumerates
  <2>10. L \in SUBSET DOMAIN t
    BY <1>2, <1>3
  <2>11. \A m \in 1..c : t[h[m]] = s[g[m]]
    BY <1>2, <1>3, <2>2, <2>5
  <2>12. t[h[c + 1]] = x
    BY <1>2, <2>6
  <2> DEFINE d == c + 1
  <2>13. Enumerates(h, d, L)
    BY <2>9
  <2> HIDE DEF a, b, d
  <2>14. b \in Seq(M) /\ Len(b) = d /\ \A m \in 1..d : b[m] = t[h[m]]
    BY <1>2, <1>7, <2>10, <2>13, Enumerated
  <2>15. b \in Seq(M) /\ Len(b) = c + 1 /\ \A m \in 1..(c + 1) : b[m] = t[h[m]]
    BY <2>14 DEF d
  <2>16. /\ Append(a, x) \in Seq(M) /\ Len(Append(a, x)) = c + 1
         /\ \A m \in 1..c : Append(a, x)[m] = a[m]
         /\ Append(a, x)[c + 1] = x
    BY <1>8, AppendProperties
  <2>17. \A m \in 1..(c + 1) : b[m] = Append(a, x)[m]
    <3> TAKE m \in 1..(c + 1)
    <3>1. CASE m = c + 1
      BY <2>6, <2>12, <2>15, <2>16, <3>1
    <3>2. CASE m \in 1..c
      BY <1>8, <2>11, <2>15, <2>16, <3>2
    <3> QED BY <2>1, <3>1, <3>2
  <2>18. b = Append(a, x)
    BY <2>15, <2>16, <2>17, SeqEqual
  <2> QED BY <1>10, <2>18 DEF a, b, t
<1> QED BY <1>9, <1>10

(* What is left of what is left.                                             *)
LEMMA AmongAmong ==
  ASSUME NEW M, NEW s \in Seq(M), NEW S, NEW T
  PROVE  Among(Among(s, S), T) = Among(s, S \cap T)
<1> DEFINE n == Len(s)
           K == {k \in DOMAIN s : s[k] \in S}
           L == {k \in DOMAIN s : s[k] \in S \cap T}
           t == Among(s, S)
           J == {m \in DOMAIN t : t[m] \in T}
<1>1. n \in Nat /\ DOMAIN s = 1..n /\ K \in SUBSET (1..n) /\ L \in SUBSET (1..n)
  OBVIOUS
<1>2. L = {k \in K : s[k] \in T}
  OBVIOUS
<1>3. t = AtPositions(s, K) /\ Among(s, S \cap T) = AtPositions(s, L)
  BY DEF Among
<1>4. Among(t, T) = AtPositions(t, J)
  BY DEF Among
<1>5. K \in SUBSET DOMAIN s /\ L \in SUBSET DOMAIN s
  OBVIOUS
<1> HIDE DEF n, K, L, t
<1>6. PICK c, g : Enumerates(g, c, K)
  BY <1>1, Enumeration
<1>7. /\ c \in Nat /\ g \in [1..c -> K]
      /\ \A k, l \in 1..c : k < l => g[k] < g[l]
      /\ \A k \in K : \E m \in 1..c : g[m] = k
  BY <1>6 DEF Enumerates
<1>8. t \in Seq(M) /\ Len(t) = c /\ \A m \in 1..c : t[m] = s[g[m]]
  BY <1>3, <1>6, <1>5, Enumerated
<1>9. DOMAIN t = 1..c
  BY <1>8
<1>10. J \in SUBSET (1..c) /\ J = {m \in 1..c : s[g[m]] \in T}
  BY <1>8, <1>9
<1> HIDE DEF J
<1>11. PICK d, e : Enumerates(e, d, J)
  BY <1>7, <1>10, Enumeration
<1>12. /\ d \in Nat /\ e \in [1..d -> J]
       /\ \A k, l \in 1..d : k < l => e[k] < e[l]
       /\ \A k \in J : \E m \in 1..d : e[m] = k
  BY <1>11 DEF Enumerates
<1> DEFINE u == AtPositions(t, J)
           w == AtPositions(s, L)
<1>13. u \in Seq(M) /\ Len(u) = d /\ \A m \in 1..d : u[m] = t[e[m]]
  <2>1. J \in SUBSET DOMAIN t
    BY <1>10, <1>9
  <2> QED BY <1>8, <1>11, <2>1, Enumerated
<1> DEFINE h == [m \in 1..d |-> g[e[m]]]
<1>14. \A m \in 1..d : e[m] \in 1..c /\ e[m] \in J /\ g[e[m]] \in L
  BY <1>2, <1>7, <1>10, <1>12
<1>15. Enumerates(h, d, L)
  <2>1. h \in [1..d -> L]
    BY <1>14
  <2>2. \A k, l \in 1..d : k < l => h[k] < h[l]
    BY <1>7, <1>12, <1>14
  <2>3. \A k \in L : \E m \in 1..d : h[m] = k
    <3> TAKE k \in L
    <3>1. PICK l \in 1..c : g[l] = k
      BY <1>2, <1>7
    <3>2. l \in J
      BY <1>2, <1>10, <3>1
    <3>3. PICK m \in 1..d : e[m] = l
      BY <1>12, <3>2
    <3> QED BY <3>1, <3>3
  <2> HIDE DEF h
  <2> QED BY <1>12, <2>1, <2>2, <2>3 DEF Enumerates
<1>16. \A m \in 1..d : h[m] = g[e[m]]
  OBVIOUS
<1> HIDE DEF h
<1>17. w \in Seq(M) /\ Len(w) = d /\ \A m \in 1..d : w[m] = s[h[m]]
  BY <1>15, <1>5, Enumerated
<1>18. \A m \in 1..d : u[m] = w[m]
  <2> HIDE DEF u, w
  <2> QED BY <1>8, <1>13, <1>14, <1>17, <1>16
<1>19. u = w
  <2> HIDE DEF u, w
  <2> QED BY <1>13, <1>17, <1>18, SeqEqual
<1> QED BY <1>3, <1>4, <1>19 DEF t

-----------------------------------------------------------------------------
LEMMA LengthIsSize ==
  ASSUME NEW M, NEW s \in Seq(M), IsInjective(s)
  PROVE  IsFiniteSet(ToSet(s)) /\ Cardinality(ToSet(s)) = Len(s)
<1>1. s \in Bijection(1..Len(s), ToSet(s))
  BY DEF IsInjective, ToSet, Bijection, Injection, Surjection
<1>2. IsFiniteSet(1..Len(s)) /\ Cardinality(1..Len(s)) = Len(s)
  <2>1. Len(s) \in Nat /\ Len(s) \in Int /\ 1 \in Int
    OBVIOUS
  <2>2. IsFiniteSet(1..Len(s)) /\ Cardinality(1..Len(s)) = IF 1 > Len(s) THEN 0 ELSE Len(s) - 1 + 1
    BY <2>1, FS_Interval
  <2> QED BY <2>1, <2>2
<1> QED BY <1>1, <1>2, FS_Bijection DEF ExistsBijection

LEMMA OneLess ==
  ASSUME NEW M, NEW s \in Seq(M), IsInjective(s), NEW x \in ToSet(s)
  PROVE  Len(Among(s, ToSet(s) \ {x})) = Len(s) - 1
<1> DEFINE S == ToSet(s) \ {x}
           t == Among(s, S)
<1>1. t \in Seq(M) /\ ToSet(t) = S /\ IsInjective(t)
  <2>1. ToSet(s) \cap S = S
    OBVIOUS
  <2> HIDE DEF S
  <2> QED BY <2>1, Some
<1> HIDE DEF t
<1>2. IsFiniteSet(ToSet(s)) /\ Cardinality(ToSet(s)) = Len(s)
  BY LengthIsSize
<1>3. Cardinality(ToSet(t)) = Len(t)
  BY <1>1, LengthIsSize
<1>4. Cardinality(S) = Cardinality(ToSet(s)) - 1
  BY <1>2, FS_RemoveElement
<1> QED BY <1>1, <1>2, <1>3, <1>4 DEF t

LEMMA Ends ==
  ASSUME NEW M, NEW s \in Seq(M), NEW x \in M
  PROVE  /\ s \o <<>> = s /\ Front(Append(s, x)) = s
         /\ s # <<>> => Front(s) \in Seq(M) /\ Append(Front(s), Last(s)) = s
<1>1. s \o <<>> = s
  OBVIOUS
<1>2. Front(Append(s, x)) = s
  <2> DEFINE t == Append(s, x)
  <2>1. t \in Seq(M) /\ Len(t) = Len(s) + 1 /\ \A k \in 1..Len(s) : t[k] = s[k]
    BY AppendProperties
  <2> HIDE DEF t
  <2> DEFINE u == SubSeq(t, 1, Len(t) - 1)
  <2>2. u \in Seq(M) /\ Len(u) = Len(s) /\ \A k \in 1..Len(s) : u[k] = s[k]
    BY <2>1
  <2>3. u = s
    <3> HIDE DEF u
    <3> QED BY <2>2, SeqEqual
  <2> QED BY <2>3 DEF Front, t
<1>3. ASSUME s # <<>> PROVE Front(s) \in Seq(M) /\ Append(Front(s), Last(s)) = s
  <2> DEFINE u == SubSeq(s, 1, Len(s) - 1)
             y == s[Len(s)]
             t == Append(u, y)
  <2>1. Len(s) \in Nat \ {0} /\ y \in M
    BY <1>3
  <2>2. u \in Seq(M) /\ Len(u) = Len(s) - 1 /\ \A k \in 1..(Len(s) - 1) : u[k] = s[k]
    <3> DEFINE n == Len(s) - 1
    <3>1. n \in Nat /\ \A k \in 1..n : s[k] \in M
      BY <2>1
    <3>2. u = [k \in 1..n |-> s[k]]
      BY <2>1
    <3> HIDE DEF n, u
    <3>3. u \in Seq(M) /\ Len(u) = n /\ \A k \in 1..n : u[k] = s[k]
      BY <3>1, <3>2
    <3> QED BY <3>3 DEF n
  <2> HIDE DEF u
  <2>3. /\ t \in Seq(M) /\ Len(t) = Len(u) + 1
        /\ \A k \in 1..Len(u) : t[k] = u[k]
        /\ t[Len(u) + 1] = y
    BY <2>1, <2>2, AppendProperties
  <2>4. ASSUME NEW k \in 1..Len(s) PROVE t[k] = s[k]
    <3> HIDE DEF t
    <3>1. CASE k = Len(s)
      BY <2>1, <2>2, <2>3, <3>1
    <3>2. CASE k # Len(s)
      BY <2>1, <2>2, <2>3, <3>2
    <3> QED BY <3>1, <3>2
  <2>5. t = s
    <3> HIDE DEF t, y
    <3> QED BY <2>1, <2>2, <2>3, <2>4, SeqEqual
  <2> QED BY <2>2, <2>5 DEF Front, Last, u
<1> QED BY <1>1, <1>2, <1>3

LEMMA OneMore ==
  ASSUME NEW M, NEW s \in Seq(M), NEW t \in Seq(M), NEW x \in M
  PROVE  Append(s \o t, x) = s \o Append(t, x)
<1>1. <<x>> \in Seq(M) /\ s \o t \in Seq(M) /\ Append(t, x) = t \o <<x>>
  BY AppendIsConcat
<1>2. Append(s \o t, x) = (s \o t) \o <<x>>
  BY <1>1, AppendIsConcat
<1>3. (s \o t) \o <<x>> = s \o (t \o <<x>>)
  BY <1>1, ConcatAssociative
<1> QED BY <1>1, <1>2, <1>3

(* The walk of deleteMsgs() finds every message of the list, when the list   *)
(* has them in the order of the store.                                       *)
LEMMA WalkFindsAll ==
  ASSUME NEW s \in Seq(Message), NEW S,
         \A m, n \in ToSet(s) : m.num = n.num => m = n
  PROVE  DeleteMsgs(s, Among(s, S)) = Among(s, ToSet(s) \ S)
<1> DEFINE n == Len(s)
           K == {k \in DOMAIN s : s[k] \in S}
           t == Among(s, S)
           rank(k) == Cardinality({i \in K : i <= k})
           c == Cardinality(K)
           Meets(j, k) == j + 1 \in DOMAIN t /\ t[j + 1].num = s[k].num
           met == [k \in 0..n |-> rank(k)]
           found[k \in 0..n] ==
             IF k = 0 THEN 0 ELSE found[k - 1] + IF Meets(found[k - 1], k) THEN 1 ELSE 0
<1>1. n \in Nat /\ DOMAIN s = 1..n /\ K \in SUBSET (1..n)
  OBVIOUS
<1>2. t = [m \in 1..c |-> s[CHOOSE k \in K : rank(k) = m]]
  BY DEF Among, AtPositions
<1>3. /\ c \in Nat
      /\ \A k \in K : rank(k) \in 1..c
      /\ \A k, l \in K : rank(k) = rank(l) => k = l
      /\ \A m \in 1..c : \E k \in K : rank(k) = m
  BY <1>1, Ranks
<1>4. DOMAIN t = 1..c
  BY <1>2
<1>5. \A k \in K : t[rank(k)] = s[k]
  <2> HIDE DEF rank
  <2> QED BY <1>2, <1>3
<1>6. \A m \in 1..c : t[m] \in S /\ t[m] \in ToSet(s)
  <2> TAKE m \in 1..c
  <2>1. PICK k \in K : rank(k) = m
    BY <1>3
  <2> HIDE DEF t, rank
  <2>2. t[m] = s[k]
    BY <1>5, <2>1
  <2> QED BY <2>2 DEF ToSet
<1>7. ASSUME NEW k \in 1..n
      PROVE  rank(k - 1) \in Nat /\ rank(k) = rank(k - 1) + IF k \in K THEN 1 ELSE 0
  <2> DEFINE A == {i \in K : i <= k - 1}
             B == {i \in K : i <= k}
  <2>1. IsFiniteSet(1..n)
    <3>1. n \in Int /\ 1 \in Int
      BY <1>1
    <3> QED BY <3>1, FS_Interval
  <2>2. A \in SUBSET (1..n)
    BY <1>1
  <2>3. IsFiniteSet(A)
    BY <2>1, <2>2, FS_Subset
  <2>4. Cardinality(A) \in Nat
    BY <2>3, FS_CardinalityType
  <2>5. \A i \in K : i \in Int
    BY <1>1
  <2>6. B = IF k \in K THEN A \cup {k} ELSE A
    <3>1. \A i \in K : i <= k <=> i <= k - 1 \/ i = k
      BY <1>1, <2>5
    <3> HIDE DEF K
    <3> QED BY <3>1
  <2>7. k \notin A
    BY <1>1
  <2> HIDE DEF A, B
  <2>8. Cardinality(B) = Cardinality(A) + IF k \in K THEN 1 ELSE 0
    <3>1. CASE k \in K
      <4>1. B = A \cup {k}
        BY <2>6, <3>1
      <4> QED BY <2>3, <2>4, <2>7, <3>1, <4>1, FS_AddElement
    <3>2. CASE k \notin K
      BY <2>4, <2>6, <3>2
    <3> QED BY <3>1, <3>2
  <2> QED BY <2>4, <2>8 DEF A, B
<1>8. rank(0) = 0
  <2>1. {i \in K : i <= 0} = {}
    BY <1>1
  <2> QED BY <2>1, FS_EmptySet
<1>9. \A k \in 1..n : (k \in K) = (s[k] \in S) /\ s[k] \in ToSet(s)
  BY <1>1 DEF ToSet
<1> HIDE DEF n, K, t, rank, c
<1>10. ASSUME NEW k \in 1..n PROVE Meets(rank(k - 1), k) <=> k \in K
  <2>1. CASE k \in K
    <3>1. rank(k - 1) + 1 = rank(k)
      BY <1>7, <2>1
    <3>2. rank(k) \in DOMAIN t /\ t[rank(k)] = s[k]
      BY <1>3, <1>4, <1>5, <2>1
    <3> QED BY <2>1, <3>1, <3>2
  <2>2. CASE k \notin K
    <3>1. s[k] \in ToSet(s) /\ s[k] \notin S
      BY <1>9, <2>2
    <3>2. ASSUME NEW m \in 1..c PROVE t[m].num # s[k].num
      BY <1>6, <3>1
    <3> QED BY <1>4, <2>2, <3>2
  <2> QED BY <2>1, <2>2
<1>11. \A k \in 0..n : met[k] = IF k = 0 THEN 0 ELSE met[k - 1] + IF Meets(met[k - 1], k) THEN 1 ELSE 0
  <2> TAKE k \in 0..n
  <2>1. CASE k = 0
    BY <1>8, <2>1
  <2>2. CASE k # 0
    <3>1. k \in 1..n /\ k - 1 \in 0..n
      BY <1>1, <2>2
    <3>2. met[k] = rank(k) /\ met[k - 1] = rank(k - 1)
      BY <3>1
    <3>3. rank(k) = rank(k - 1) + IF k \in K THEN 1 ELSE 0
      BY <1>7, <3>1
    <3>4. Meets(rank(k - 1), k) <=> k \in K
      BY <1>10, <3>1
    <3> HIDE DEF Meets
    <3> QED BY <2>2, <3>2, <3>3, <3>4
  <2> QED BY <2>1, <2>2
<1> DEFINE Counts(f) == f = [k \in 0..n |->
             IF k = 0 THEN 0 ELSE f[k - 1] + IF Meets(f[k - 1], k) THEN 1 ELSE 0]
<1>12. Counts(met)
  <2> HIDE DEF Meets
  <2>1. met = [k \in 0..n |-> met[k]]
    OBVIOUS
  <2> HIDE DEF met
  <2> QED BY <1>11, <2>1
<1>13. Counts(found)
  <2> HIDE DEF met
  <2> QED BY <1>12
<1> HIDE DEF met, found
<1>14. \A k \in 0..n : found[k] = rank(k)
  <2> DEFINE T == {k \in 0..n : found[k] = rank(k)}
  <2>1. 0 \in T
    BY <1>1, <1>8, <1>13
  <2>2. ASSUME NEW k \in 1..n, k - 1 \in T PROVE k \in T
    <3>1. k \in 0..n /\ k # 0 /\ found[k - 1] = rank(k - 1)
      BY <1>1, <2>2
    <3>2. found[k] = found[k - 1] + IF Meets(found[k - 1], k) THEN 1 ELSE 0
      <4> HIDE DEF Meets
      <4> QED BY <1>13, <3>1
    <3>3. found[k] = rank(k)
      <4> HIDE DEF Meets
      <4> QED BY <1>7, <1>10, <3>1, <3>2
    <3> QED BY <3>1, <3>3
  <2> HIDE DEF T
  <2>3. \A k \in 0..n : k \in T
    BY <1>1, <2>1, <2>2, Steps
  <2> QED BY <2>3 DEF T
<1>15. ASSUME NEW k \in 1..n PROVE ~Meets(found[k - 1], k) <=> k \notin K
  <2>1. k - 1 \in 0..n
    BY <1>1
  <2>2. found[k - 1] = rank(k - 1)
    BY <1>14, <2>1
  <2> HIDE DEF Meets
  <2> QED BY <1>10, <2>2
<1>16. DeleteMsgs(s, t) = AtPositions(s, {k \in DOMAIN s : ~Meets(found[k - 1], k)})
  BY DEF DeleteMsgs, found, n
<1>17. {k \in DOMAIN s : ~Meets(found[k - 1], k)} = {k \in DOMAIN s : s[k] \in ToSet(s) \ S}
  <2> HIDE DEF Meets
  <2> QED BY <1>1, <1>9, <1>15
<1> QED BY <1>16, <1>17 DEF Among, t

-----------------------------------------------------------------------------
(* The pane, the current row and the tool bar go by the selected message,    *)
(* and while there is one neither a new row nor the timer takes its place.   *)
Selected(v) ==
  /\ v \in View /\ IsInjective(v.shown)
  /\ v.selType = "None" <=> v.clicked = NoMsg
  /\ v.selType = "Send" <=> v.clicked = SendItem
  /\ v.clicked # NoMsg => ~v.selectOnAdd /\ v.pending = NoMsg /\ v.pane = v.clicked
  /\ v.selType = "Send" => v.row = NoMsg
  /\ v.selType = "Recv" =>
       /\ v.row = v.clicked
       /\ v.barIdx \in DOMAIN v.shown /\ v.shown[v.barIdx] = v.clicked
  /\ v.selType # "Recv" => v.barIdx = 0

Sound(v) == Selected(v) /\ v.count = Len(v.shown)

LEMMA Viewed ==
  ASSUME NEW v \in View
  PROVE  /\ v.shown \in Seq(Message) /\ v.count \in Nat /\ v.row \in Message \cup {NoMsg}
         /\ v.selectOnAdd \in BOOLEAN /\ v.selType \in {"None", "Recv", "Send"}
         /\ v.clicked \in Message \cup {NoMsg, SendItem} /\ v.barIdx \in Nat
         /\ v.pane \in Message \cup {NoMsg, SendItem} /\ v.pending \in Message \cup {NoMsg}
         /\ v.waiting \in BOOLEAN
BY DEF View

LEMMA RowAddedTypes ==
  ASSUME NEW v \in View, NEW m \in Message
  PROVE  /\ AddRow(v, m) \in View
         /\ AddRow(v, m).shown = Append(v.shown, m) /\ AddRow(v, m).count = v.count + 1
         /\ AddRow(v, m).row = IF v.selectOnAdd THEN m ELSE v.row
         /\ AddRow(v, m).selectOnAdd = v.selectOnAdd /\ AddRow(v, m).selType = v.selType
         /\ AddRow(v, m).clicked = v.clicked /\ AddRow(v, m).barIdx = v.barIdx
         /\ AddRow(v, m).pane = v.pane /\ AddRow(v, m).pending = v.pending
         /\ AddRow(v, m).waiting = v.waiting
<1> DEFINE s == Append(v.shown, m)
           c == v.count + 1
           r == IF v.selectOnAdd THEN m ELSE v.row
<1>1. s \in Seq(Message) /\ c \in Nat /\ r \in Message \cup {NoMsg}
  BY Viewed
<1>2. AddRow(v, m) = [v EXCEPT !.shown = s, !.count = c, !.row = r]
  BY DEF AddRow
<1> HIDE DEF s, c, r
<1>3. AddRow(v, m) \in View
  BY <1>1, <1>2 DEF View
<1>4. /\ AddRow(v, m).shown = s /\ AddRow(v, m).count = c /\ AddRow(v, m).row = r
      /\ AddRow(v, m).selectOnAdd = v.selectOnAdd /\ AddRow(v, m).selType = v.selType
      /\ AddRow(v, m).clicked = v.clicked /\ AddRow(v, m).barIdx = v.barIdx
      /\ AddRow(v, m).pane = v.pane /\ AddRow(v, m).pending = v.pending
      /\ AddRow(v, m).waiting = v.waiting
  BY <1>2 DEF View
<1> QED BY <1>3, <1>4 DEF s, c, r

LEMMA RowAdded ==
  ASSUME NEW v, Sound(v), NEW m \in Message, m \notin ToSet(v.shown)
  PROVE  Sound(AddRow(v, m))
<1> DEFINE w == AddRow(v, m)
<1>1. v \in View /\ IsInjective(v.shown) /\ v.shown \in Seq(Message) /\ v.count = Len(v.shown)
  BY Viewed DEF Sound, Selected
<1>2. /\ w \in View /\ w.shown = Append(v.shown, m) /\ w.count = v.count + 1
      /\ w.row = IF v.selectOnAdd THEN m ELSE v.row
      /\ w.selectOnAdd = v.selectOnAdd /\ w.selType = v.selType
      /\ w.clicked = v.clicked /\ w.barIdx = v.barIdx
      /\ w.pane = v.pane /\ w.pending = v.pending
  BY <1>1, RowAddedTypes
<1> HIDE DEF w
<1>3. /\ IsInjective(w.shown) /\ Len(w.shown) = Len(v.shown) + 1
      /\ \A k \in DOMAIN v.shown : k \in DOMAIN w.shown /\ w.shown[k] = v.shown[k]
  BY <1>1, <1>2, Elements, AppendProperties
<1>4. v.selType # "None" => ~v.selectOnAdd
  BY DEF Sound, Selected
<1>5. Selected(w)
  BY <1>2, <1>3, <1>4 DEF Sound, Selected
<1> QED BY <1>1, <1>2, <1>3, <1>5 DEF Sound, w

(* msgClicked() for a message of the list, with its row current.             *)
LEMMA RowClickedFields ==
  ASSUME NEW v \in View, NEW m \in Message, NEW k \in Nat, NEW w, w = RecvClicked(v, m, k)
  PROVE  /\ w \in View /\ w.shown = v.shown /\ w.count = v.count
         /\ v.clicked = m =>
              /\ w.selType = "None" /\ w.clicked = NoMsg /\ w.row = NoMsg /\ w.barIdx = 0
              /\ w.selectOnAdd
         /\ v.clicked # m =>
              /\ w.selType = "Recv" /\ w.clicked = m /\ w.row = v.row /\ w.barIdx = k
              /\ ~w.selectOnAdd /\ w.pane = m /\ w.pending = NoMsg
<1>1. m # NoMsg
  BY RecvAreaAssumption
<1>2. CASE v.clicked = m
  <2>1. w = [shown |-> v.shown, count |-> v.count, row |-> NoMsg, selectOnAdd |-> TRUE,
             selType |-> "None", clicked |-> NoMsg, barIdx |-> 0, pane |-> NoMsg,
             pending |-> v.pending, waiting |-> v.waiting]
    BY <1>2 DEF RecvClicked, Click, ClearDisplayed, View
  <2>2. w \in View
    BY <2>1 DEF View
  <2>3. /\ w.shown = v.shown /\ w.count = v.count
        /\ w.selType = "None" /\ w.clicked = NoMsg /\ w.row = NoMsg /\ w.barIdx = 0
        /\ w.selectOnAdd
    BY <2>1 DEF View
  <2> QED BY <1>2, <2>2, <2>3
<1>3. CASE v.clicked # m
  <2>1. w = [v EXCEPT !.pending = NoMsg, !.pane = m, !.selType = "Recv", !.clicked = m,
                      !.selectOnAdd = FALSE, !.barIdx = k]
    BY <1>1, <1>3 DEF RecvClicked, Click, Display, View
  <2>2. w \in View
    BY <2>1 DEF View
  <2>3. /\ w.shown = v.shown /\ w.count = v.count
        /\ w.selType = "Recv" /\ w.clicked = m /\ w.row = v.row /\ w.barIdx = k
        /\ ~w.selectOnAdd /\ w.pane = m /\ w.pending = NoMsg
    BY <2>1 DEF View
  <2> QED BY <1>3, <2>2, <2>3
<1> QED BY <1>2, <1>3

LEMMA RowClicked ==
  ASSUME NEW v \in View, IsInjective(v.shown), NEW k \in DOMAIN v.shown, v.row = v.shown[k],
         NEW w, w = RecvClicked(v, v.shown[k], k)
  PROVE  Selected(w)
<1> DEFINE m == v.shown[k]
<1>1. m \in Message /\ k \in Nat
  BY Viewed
<1>2. m # NoMsg /\ m # SendItem /\ NoMsg # SendItem
  BY <1>1, RecvAreaAssumption
<1>3. k \in DOMAIN v.shown /\ v.shown[k] = m /\ v.row = m
  OBVIOUS
<1>4. w = RecvClicked(v, m, k)
  OBVIOUS
<1> HIDE DEF m
<1>5. /\ w \in View /\ w.shown = v.shown /\ w.count = v.count
      /\ v.clicked = m =>
           /\ w.selType = "None" /\ w.clicked = NoMsg /\ w.row = NoMsg /\ w.barIdx = 0
           /\ w.selectOnAdd
      /\ v.clicked # m =>
           /\ w.selType = "Recv" /\ w.clicked = m /\ w.row = v.row /\ w.barIdx = k
           /\ ~w.selectOnAdd /\ w.pane = m /\ w.pending = NoMsg
  BY <1>1, <1>4, RowClickedFields
<1>6. CASE v.clicked = m
  BY <1>2, <1>5, <1>6 DEF Selected
<1>7. CASE v.clicked # m
  BY <1>2, <1>3, <1>5, <1>7 DEF Selected
<1> QED BY <1>6, <1>7

LEMMA SendClickedKeeps ==
  ASSUME NEW v, Sound(v)
  PROVE  Sound(SendClicked(v)) /\ SendClicked(v).shown = v.shown
<1> DEFINE w == SendClicked(v)
<1>1. v \in View /\ SendItem # NoMsg
  BY RecvAreaAssumption DEF Sound, Selected
<1>2. CASE v.clicked = SendItem
  <2>1. w = [v EXCEPT !.row = NoMsg, !.barIdx = 0, !.selType = "None", !.clicked = NoMsg,
                      !.pane = NoMsg, !.selectOnAdd = TRUE]
    BY <1>1, <1>2 DEF SendClicked, Click, ClearDisplayed, View
  <2> HIDE DEF w
  <2>2. w \in View
    BY <1>1, <2>1 DEF View
  <2>3. /\ w.shown = v.shown /\ w.count = v.count /\ w.selType = "None"
        /\ w.clicked = NoMsg /\ w.row = NoMsg /\ w.barIdx = 0
    BY <1>1, <2>1 DEF View
  <2>4. Sound(w) /\ w.shown = v.shown
    BY <1>1, <2>2, <2>3 DEF Sound, Selected
  <2> QED BY <2>4 DEF w
<1>3. CASE v.clicked # SendItem
  <2>1. w = [v EXCEPT !.row = NoMsg, !.barIdx = 0, !.pending = NoMsg, !.pane = SendItem,
                      !.selType = "Send", !.clicked = SendItem, !.selectOnAdd = FALSE]
    BY <1>1, <1>3 DEF SendClicked, Click, Display, View
  <2> HIDE DEF w
  <2>2. w \in View
    BY <1>1, <2>1 DEF View
  <2>3. /\ w.shown = v.shown /\ w.count = v.count /\ w.selType = "Send"
        /\ w.clicked = SendItem /\ w.row = NoMsg /\ w.barIdx = 0 /\ w.pending = NoMsg
        /\ w.pane = SendItem /\ ~w.selectOnAdd
    BY <1>1, <2>1 DEF View
  <2>4. Sound(w) /\ w.shown = v.shown
    BY <1>1, <2>2, <2>3 DEF Sound, Selected
  <2> QED BY <2>4 DEF w
<1> QED BY <1>2, <1>3

LEMMA SendDropped ==
  ASSUME NEW v, Sound(v), v.selType = "Send"
  PROVE  Sound(ClearDisplayed(v)) /\ ClearDisplayed(v).shown = v.shown
<1> DEFINE w == ClearDisplayed(v)
<1>1. v \in View /\ SendItem # NoMsg
  BY RecvAreaAssumption DEF Sound, Selected
<1>2. /\ w \in View /\ w.shown = v.shown /\ w.count = v.count /\ w.selType = "None"
      /\ w.clicked = NoMsg /\ w.barIdx = v.barIdx
  BY <1>1 DEF ClearDisplayed, View
<1> HIDE DEF w
<1>3. Sound(w) /\ w.shown = v.shown
  BY <1>1, <1>2 DEF Sound, Selected
<1> QED BY <1>3 DEF w

LEMMA TimedOut ==
  ASSUME NEW v, Sound(v)
  PROVE  /\ v.pending # NoMsg =>
              LET w == [Display(v, v.pending) EXCEPT !.waiting = FALSE]
              IN  Sound(w) /\ w.shown = v.shown
         /\ LET w == [v EXCEPT !.waiting = FALSE] IN Sound(w) /\ w.shown = v.shown
<1>1. v \in View
  BY DEF Sound, Selected
<1>2. ASSUME v.pending # NoMsg
      PROVE  LET w == [Display(v, v.pending) EXCEPT !.waiting = FALSE]
             IN  Sound(w) /\ w.shown = v.shown
  <2> DEFINE w == [Display(v, v.pending) EXCEPT !.waiting = FALSE]
  <2>1. v.clicked = NoMsg
    BY <1>2 DEF Sound, Selected
  <2>2. v.pending \in Message
    BY <1>1, <1>2, Viewed
  <2>3. w = [v EXCEPT !.pending = NoMsg, !.pane = v.pending, !.waiting = FALSE]
    BY <1>1 DEF Display, View
  <2>4. /\ w \in View /\ w.shown = v.shown /\ w.count = v.count /\ w.selType = v.selType
        /\ w.clicked = v.clicked /\ w.row = v.row /\ w.barIdx = v.barIdx
    BY <1>1, <2>2, <2>3 DEF View
  <2> HIDE DEF w
  <2>5. Sound(w) /\ w.shown = v.shown
    BY <1>1, <2>1, <2>4 DEF Sound, Selected
  <2> QED BY <2>5 DEF w
<1>3. LET w == [v EXCEPT !.waiting = FALSE] IN Sound(w) /\ w.shown = v.shown
  <2> DEFINE w == [v EXCEPT !.waiting = FALSE]
  <2>1. /\ w \in View /\ w.shown = v.shown /\ w.count = v.count /\ w.selType = v.selType
        /\ w.clicked = v.clicked /\ w.row = v.row /\ w.barIdx = v.barIdx
        /\ w.pending = v.pending /\ w.pane = v.pane /\ w.selectOnAdd = v.selectOnAdd
    BY <1>1 DEF View
  <2> HIDE DEF w
  <2>2. Sound(w) /\ w.shown = v.shown
    BY <2>1 DEF Sound, Selected
  <2> QED BY <2>2 DEF w
<1> QED BY <1>2, <1>3

LEMMA Cleared ==
  ASSUME NEW v \in View, v.selType = "Send" <=> v.clicked = SendItem,
         v.selType = "Send" => ~v.selectOnAdd /\ v.pending = NoMsg /\ v.pane = v.clicked,
         v.selType # "Recv" => v.barIdx = 0
  PROVE  /\ Sound(ClearList(v)) /\ ClearList(v).shown = <<>> /\ ClearList(v).count = 0
         /\ v.selType # "Send" =>
              /\ ClearList(v).clicked = NoMsg
              /\ v.selectOnAdd => ClearList(v).selectOnAdd
         /\ v.selType = "Send" => ClearList(v).clicked = SendItem
<1> DEFINE w == ClearList(v)
<1>1. SendItem # NoMsg /\ <<>> \in Seq(Message) /\ Len(<<>>) = 0 /\ IsInjective(<<>>)
  BY RecvAreaAssumption DEF IsInjective
<1>2. CASE v.selType = "Send"
  <2>1. w = [v EXCEPT !.count = 0, !.shown = <<>>, !.row = NoMsg]
    BY <1>2 DEF ClearList
  <2> HIDE DEF w
  <2>2. w \in View
    BY <1>1, <1>2, <2>1 DEF View
  <2>3. /\ w.shown = <<>> /\ w.count = 0 /\ w.selType = "Send"
        /\ w.clicked = v.clicked /\ w.row = NoMsg /\ w.barIdx = v.barIdx
        /\ w.pending = v.pending /\ w.pane = v.pane /\ w.selectOnAdd = v.selectOnAdd
    BY <1>1, <1>2, <2>1 DEF View
  <2>4. Sound(w)
    BY <1>1, <1>2, <2>2, <2>3 DEF Sound, Selected
  <2> QED BY <1>2, <2>2, <2>3, <2>4 DEF w
<1>3. CASE v.selType = "None"
  <2>1. w = [v EXCEPT !.selType = "None", !.clicked = NoMsg, !.pane = NoMsg,
                      !.count = 0, !.shown = <<>>, !.row = NoMsg]
    BY <1>3 DEF ClearList, ClearDisplayed, View
  <2> HIDE DEF w
  <2>2. w \in View
    BY <1>1, <2>1 DEF View
  <2>3. /\ w.shown = <<>> /\ w.count = 0 /\ w.selType = "None"
        /\ w.clicked = NoMsg /\ w.row = NoMsg /\ w.barIdx = v.barIdx
        /\ w.selectOnAdd = v.selectOnAdd
    BY <1>1, <2>1 DEF View
  <2>4. Sound(w)
    BY <1>1, <1>3, <2>2, <2>3 DEF Sound, Selected
  <2> QED BY <1>3, <2>2, <2>3, <2>4 DEF w
<1>4. CASE v.selType = "Recv"
  <2>1. w = [v EXCEPT !.selType = "None", !.clicked = NoMsg, !.pane = NoMsg,
                      !.selectOnAdd = TRUE, !.barIdx = 0,
                      !.count = 0, !.shown = <<>>, !.row = NoMsg]
    BY <1>4 DEF ClearList, ClearDisplayed, View
  <2> HIDE DEF w
  <2>2. w \in View
    BY <1>1, <2>1 DEF View
  <2>3. /\ w.shown = <<>> /\ w.count = 0 /\ w.selType = "None"
        /\ w.clicked = NoMsg /\ w.row = NoMsg /\ w.barIdx = 0
        /\ w.selectOnAdd
    BY <1>1, <2>1 DEF View
  <2>4. Sound(w)
    BY <1>1, <2>2, <2>3 DEF Sound, Selected
  <2> QED BY <1>4, <2>2, <2>3, <2>4 DEF w
<1> QED BY <1>2, <1>3, <1>4, Viewed

LEMMA ClearedSound ==
  ASSUME NEW v, Sound(v)
  PROVE  Sound(ClearList(v)) /\ ClearList(v).shown = <<>>
<1>1. SendItem # NoMsg
  BY RecvAreaAssumption
<1> QED BY <1>1, Cleared DEF Sound, Selected

-----------------------------------------------------------------------------
LEMMA Initials ==
  ASSUME NEW M, NEW s \in Seq(M)
  PROVE  /\ SubSeq(s, 1, 0) = <<>> /\ SubSeq(s, 1, Len(s)) = s
         /\ \A k \in 0..Len(s) : SubSeq(s, 1, k) \in Seq(M)
         /\ \A k \in 1..Len(s) :
              /\ s[k] \in M
              /\ SubSeq(s, 1, k) = Append(SubSeq(s, 1, k - 1), s[k])
              /\ IsInjective(s) => s[k] \notin ToSet(SubSeq(s, 1, k - 1))
<1>1. Len(s) \in Nat /\ SubSeq(s, 1, 0) = <<>> /\ SubSeq(s, 1, Len(s)) = s
  OBVIOUS
<1>2. ASSUME NEW k \in 0..Len(s)
      PROVE  /\ SubSeq(s, 1, k) \in Seq(M) /\ Len(SubSeq(s, 1, k)) = k
             /\ \A i \in 1..k : SubSeq(s, 1, k)[i] = s[i]
  <2> DEFINE u == [i \in 1..k |-> s[i]]
  <2>1. k \in Nat /\ \A i \in 1..k : s[i] \in M
    OBVIOUS
  <2>2. SubSeq(s, 1, k) = u
    BY <2>1
  <2>3. u \in Seq(M) /\ Len(u) = k /\ \A i \in 1..k : u[i] = s[i]
    BY <2>1
  <2> HIDE DEF u
  <2> QED BY <2>2, <2>3
<1>3. ASSUME NEW k \in 1..Len(s)
      PROVE  /\ s[k] \in M
             /\ SubSeq(s, 1, k) = Append(SubSeq(s, 1, k - 1), s[k])
             /\ IsInjective(s) => s[k] \notin ToSet(SubSeq(s, 1, k - 1))
  <2> DEFINE t == SubSeq(s, 1, k - 1)
             u == SubSeq(s, 1, k)
             w == Append(t, s[k])
  <2>1. k \in 0..Len(s) /\ k - 1 \in 0..Len(s) /\ k \in Nat /\ s[k] \in M
    OBVIOUS
  <2>2. /\ u \in Seq(M) /\ Len(u) = k /\ \A i \in 1..k : u[i] = s[i]
        /\ t \in Seq(M) /\ Len(t) = k - 1 /\ \A i \in 1..(k - 1) : t[i] = s[i]
    BY <1>2, <2>1
  <2> HIDE DEF t, u
  <2>3. /\ w \in Seq(M) /\ Len(w) = k /\ w[k] = s[k]
        /\ \A i \in 1..(k - 1) : w[i] = s[i]
    <3>1. /\ w \in Seq(M) /\ Len(w) = Len(t) + 1
          /\ \A i \in 1..Len(t) : w[i] = t[i]
          /\ w[Len(t) + 1] = s[k]
      BY <2>1, <2>2, AppendProperties
    <3> HIDE DEF w
    <3> QED BY <2>1, <2>2, <3>1
  <2> HIDE DEF w
  <2>4. \A i \in 1..k : u[i] = w[i]
    <3> TAKE i \in 1..k
    <3>1. i = k \/ i \in 1..(k - 1)
      BY <2>1
    <3> QED BY <2>2, <2>3, <3>1
  <2>5. u = w
    BY <2>2, <2>3, <2>4, SeqEqual
  <2>6. ASSUME IsInjective(s), s[k] \in ToSet(t) PROVE FALSE
    <3>1. PICK i \in DOMAIN t : t[i] = s[k]
      BY <2>6 DEF ToSet
    <3>2. i \in 1..(k - 1) /\ i \in DOMAIN s /\ k \in DOMAIN s /\ i # k
      BY <2>1, <2>2
    <3>3. s[i] = s[k]
      BY <2>2, <3>1, <3>2
    <3> QED BY <2>6, <3>2, <3>3 DEF IsInjective
  <2> QED BY <2>1, <2>5, <2>6 DEF t, u, w
<1> QED BY <1>1, <1>2, <1>3

-----------------------------------------------------------------------------
LEMMA AmongNone == ASSUME NEW S PROVE Among(<<>>, S) = <<>>
<1> DEFINE e == <<>>
<1>1. e \in Seq(Message) /\ ToSet(e) = {}
  BY DEF ToSet
<1> HIDE DEF e
<1>2. Among(e, S) \in Seq(Message) /\ ToSet(Among(e, S)) = {}
  BY <1>1, Some
<1>3. Among(e, S) = <<>>
  BY <1>2, Empty
<1> QED BY <1>3 DEF e

LEMMA AddedTypes ==
  ASSUME NEW v \in View, NEW m \in Message
  PROVE  MsgAdded(v, m) \in View
<1> DEFINE a == AddRow(v, m)
<1>1. a \in View
  BY RowAddedTypes
<1> HIDE DEF a
<1>2. [a EXCEPT !.pending = m] \in View
  BY <1>1 DEF View
<1>3. [Display(a, m) EXCEPT !.waiting = TRUE] \in View
  <2>1. [Display(a, m) EXCEPT !.waiting = TRUE] = [a EXCEPT !.pending = NoMsg, !.pane = m, !.waiting = TRUE]
    BY <1>1 DEF Display, View
  <2> QED BY <1>1, <2>1 DEF View
<1> QED BY <1>1, <1>2, <1>3 DEF MsgAdded, a

LEMMA Added ==
  ASSUME NEW v, Sound(v), NEW m \in Message, m \notin ToSet(v.shown), NEW w, w = MsgAdded(v, m)
  PROVE  Sound(w) /\ w.shown = IF CanAdd(m, mode, hidden) THEN Append(v.shown, m) ELSE v.shown
<1> DEFINE a == AddRow(v, m)
<1>1. v \in View
  BY DEF Sound, Selected
<1>2. Sound(a) /\ a \in View /\ a.shown = Append(v.shown, m)
  BY <1>1, RowAdded, RowAddedTypes
<1>3. w = IF ~CanAdd(m, mode, hidden) THEN v
          ELSE IF a.clicked # NoMsg THEN a
          ELSE IF a.waiting THEN [a EXCEPT !.pending = m]
          ELSE [Display(a, m) EXCEPT !.waiting = TRUE]
  BY DEF MsgAdded
<1> HIDE DEF a
<1>4. CASE ~CanAdd(m, mode, hidden)
  BY <1>3, <1>4
<1>5. CASE CanAdd(m, mode, hidden) /\ a.clicked # NoMsg
  BY <1>2, <1>3, <1>5
<1>6. CASE CanAdd(m, mode, hidden) /\ a.clicked = NoMsg
  <2>1. /\ w \in View /\ w.shown = a.shown /\ w.count = a.count /\ w.selType = a.selType
        /\ w.clicked = a.clicked /\ w.barIdx = a.barIdx /\ w.row = a.row
    <3>1. CASE a.waiting
      <4>1. w = [a EXCEPT !.pending = m]
        BY <1>3, <1>6, <3>1
      <4> QED BY <1>2, <4>1 DEF View
    <3>2. CASE ~a.waiting
      <4>1. w = [a EXCEPT !.pending = NoMsg, !.pane = m, !.waiting = TRUE]
        BY <1>2, <1>3, <1>6, <3>2 DEF Display, View
      <4>2. w \in View
        BY <1>2, <4>1 DEF View
      <4>3. /\ w.shown = a.shown /\ w.count = a.count /\ w.selType = a.selType
            /\ w.clicked = a.clicked /\ w.barIdx = a.barIdx /\ w.row = a.row
        BY <1>2, <4>1 DEF View
      <4> QED BY <4>2, <4>3
    <3> QED BY <3>1, <3>2
  <2>2. NoMsg # SendItem
    BY RecvAreaAssumption
  <2>3. Sound(w)
    BY <1>2, <1>6, <2>1, <2>2 DEF Sound, Selected
  <2> QED BY <1>2, <1>6, <2>1, <2>3
<1> QED BY <1>4, <1>5, <1>6

(* addMsgs() shows what may be shown, in its order.                          *)
LEMMA AllAreAdded ==
  ASSUME NEW v, Sound(v), v.shown = <<>>, NEW msgs \in Seq(Message), IsInjective(msgs),
         NEW w, w = AllAdded(v, msgs)
  PROVE  Sound(w) /\ w.shown = Among(msgs, {m \in ToSet(msgs) : CanAdd(m, mode, hidden)})
<1> DEFINE n == Len(msgs)
           C == {m \in ToSet(msgs) : CanAdd(m, mode, hidden)}
           added[k \in 0..n] == IF k = 0 THEN v ELSE MsgAdded(added[k - 1], msgs[k])
           Adds(f) == f = [k \in 0..n |-> IF k = 0 THEN v ELSE MsgAdded(f[k - 1], msgs[k])]
           step == [k \in 1..n |-> [u \in View |-> MsgAdded(u, msgs[k])]]
<1>1. w = added[n] /\ n \in Nat /\ v \in View
  BY DEF AllAdded, Sound, Selected
<1>2. \A k \in 1..n : msgs[k] \in Message
  OBVIOUS
<1>3. step \in [1..n -> [View -> View]]
  BY <1>2, AddedTypes
<1> HIDE DEF n
<1>4. PICK f : Loops(f, n, View, v, step)
  <2> HIDE DEF added, step
  <2> QED BY <1>1, <1>3, LoopExists
<1>5. f \in [0..n -> View] /\ f[0] = v /\ \A k \in 1..n : f[k] = step[k][f[k - 1]]
  BY <1>4 DEF Loops
<1>6. Adds(f)
  <2>1. ASSUME NEW k \in 0..n
        PROVE  f[k] = IF k = 0 THEN v ELSE MsgAdded(f[k - 1], msgs[k])
    <3>1. CASE k = 0
      BY <1>5, <3>1
    <3>2. CASE k # 0
      <4>1. k \in 1..n /\ k - 1 \in 0..n
        BY <1>1, <3>2
      <4>2. f[k - 1] \in View
        BY <1>5, <4>1
      <4> QED BY <1>5, <3>2, <4>1, <4>2
    <3> QED BY <3>1, <3>2
  <2>2. f = [k \in 0..n |-> f[k]]
    BY <1>5
  <2> QED BY <2>1, <2>2
<1>7. Adds(added)
  BY <1>6
<1> HIDE DEF added, step
<1>8. \A k \in 0..n : added[k] = IF k = 0 THEN v ELSE MsgAdded(added[k - 1], msgs[k])
  BY <1>7
<1> DEFINE T == {k \in 0..n : Sound(added[k]) /\ added[k].shown = Among(SubSeq(msgs, 1, k), C)}
<1>9. 0 \in T
  <2>1. added[0] = v /\ 0 \in 0..n /\ SubSeq(msgs, 1, 0) = <<>>
    <3>1. 0 \in 0..n
      BY <1>1
    <3>2. SubSeq(msgs, 1, 0) = <<>>
      OBVIOUS
    <3> QED BY <1>8, <3>1, <3>2
  <2>2. Among(<<>>, C) = <<>>
    BY AmongNone
  <2> HIDE DEF C
  <2> QED BY <2>1, <2>2
<1>10. ASSUME NEW k \in 1..n, k - 1 \in T PROVE k \in T
  <2> DEFINE u == added[k - 1]
             m == msgs[k]
             s == SubSeq(msgs, 1, k - 1)
  <2>1. k \in 0..n /\ k # 0 /\ k - 1 \in 0..n
    BY <1>1
  <2>2. added[k] = MsgAdded(u, m)
    BY <1>8, <2>1
  <2>3. Sound(u) /\ u.shown = Among(s, C)
    BY <1>10
  <2>4. /\ m \in Message /\ s \in Seq(Message) /\ m \notin ToSet(s)
        /\ SubSeq(msgs, 1, k) = Append(s, m)
    <3>1. k \in 1..Len(msgs)
      BY DEF n
    <3> HIDE DEF C
    <3> QED BY <3>1, Initials
  <2>5. m \in ToSet(msgs)
    BY DEF ToSet, n
  <2>6. m \in C <=> CanAdd(m, mode, hidden)
    BY <2>5
  <2> HIDE DEF u, m, s, C
  <2>7. m \notin ToSet(u.shown)
    BY <2>3, <2>4, Some
  <2>8. /\ Sound(added[k])
        /\ added[k].shown = IF CanAdd(m, mode, hidden) THEN Append(u.shown, m) ELSE u.shown
    BY <2>2, <2>3, <2>4, <2>7, Added
  <2>9. Among(Append(s, m), C) = IF m \in C THEN Append(Among(s, C), m) ELSE Among(s, C)
    BY <2>4, AmongAppend
  <2>10. added[k].shown = Among(SubSeq(msgs, 1, k), C)
    BY <2>3, <2>4, <2>6, <2>8, <2>9
  <2> QED BY <2>1, <2>8, <2>10
<1> HIDE DEF T
<1>11. n \in T
  <2>1. \A k \in 0..n : k \in T
    BY <1>1, <1>9, <1>10, Steps
  <2> QED BY <1>1, <2>1
<1>12. SubSeq(msgs, 1, n) = msgs
  BY Initials DEF n
<1> QED BY <1>1, <1>11, <1>12 DEF T

-----------------------------------------------------------------------------
(* A round of refreshRecvList(): p is the message selected before.           *)
ShownAgain(w, m, p) ==
  IF m = p THEN RecvClicked(AddRow(w, m), m, AddRow(w, m).count) ELSE AddRow(w, m)

LEMMA ShownAgainTypes ==
  ASSUME NEW w \in View, NEW m \in Message, NEW p
  PROVE  ShownAgain(w, m, p) \in View
<1> DEFINE a == AddRow(w, m)
           r == RecvClicked(a, m, a.count)
<1>1. a \in View
  BY RowAddedTypes
<1> HIDE DEF a
<1>2. a.count \in Nat /\ r = RecvClicked(a, m, a.count)
  BY <1>1, Viewed
<1> HIDE DEF r
<1>3. r \in View
  BY <1>1, <1>2, RowClickedFields
<1> QED BY <1>1, <1>3 DEF ShownAgain, a, r

(* Until its message comes by again the selection is open.                   *)
Open(w, p) == p \in Message => (w.clicked = NoMsg /\ w.selectOnAdd) \/ w.clicked = p

LEMMA ShownAgainKeeps ==
  ASSUME NEW w, Sound(w), NEW m \in Message, m \notin ToSet(w.shown), NEW p, Open(w, p),
         NEW r, r = ShownAgain(w, m, p)
  PROVE  Sound(r) /\ r.shown = Append(w.shown, m) /\ Open(r, p)
<1> DEFINE a == AddRow(w, m)
<1>1. w \in View
  BY DEF Sound, Selected
<1>2. /\ a \in View /\ a.shown = Append(w.shown, m) /\ a.count = w.count + 1
      /\ a.row = IF w.selectOnAdd THEN m ELSE w.row
      /\ a.selectOnAdd = w.selectOnAdd /\ a.selType = w.selType
      /\ a.clicked = w.clicked
  BY <1>1, RowAddedTypes
<1>3. Sound(a)
  BY RowAdded
<1>4. r = IF m = p THEN RecvClicked(a, m, a.count) ELSE a
  BY DEF ShownAgain
<1> HIDE DEF a
<1>5. CASE m # p
  BY <1>2, <1>3, <1>4, <1>5 DEF Open
<1>6. CASE m = p
  <2>1. m # NoMsg /\ m # SendItem
    BY RecvAreaAssumption
  <2>2. w.clicked # m
    <3> SUFFICES ASSUME w.clicked = m PROVE FALSE
      OBVIOUS
    <3>1. w.selType = "Recv"
      BY <1>1, <2>1, Viewed DEF Sound, Selected
    <3>2. w.barIdx \in DOMAIN w.shown /\ w.shown[w.barIdx] = m
      BY <3>1 DEF Sound, Selected
    <3> QED BY <3>2 DEF ToSet
  <2>3. w.clicked = NoMsg /\ w.selectOnAdd
    BY <1>6, <2>2 DEF Open
  <2>4. a.row = m /\ a.clicked # m
    BY <1>2, <2>2, <2>3
  <2>5. /\ w.shown \in Seq(Message) /\ a.count = Len(a.shown) /\ a.shown[a.count] = m
        /\ a.count \in DOMAIN a.shown /\ a.count \in Nat
    <3>1. w.shown \in Seq(Message) /\ w.count = Len(w.shown)
      BY <1>1, Viewed DEF Sound
    <3> QED BY <1>2, <3>1, AppendProperties
  <2>6. r = RecvClicked(a, m, a.count)
    BY <1>4, <1>6
  <2>7. a \in View /\ IsInjective(a.shown)
    BY <1>3 DEF Sound, Selected
  <2>8. Selected(r)
    <3>1. a.row = a.shown[a.count] /\ r = RecvClicked(a, a.shown[a.count], a.count)
      BY <2>4, <2>5, <2>6
    <3> QED BY <2>5, <2>7, <3>1, RowClicked
  <2>9. r.shown = a.shown /\ r.count = a.count /\ r.clicked = m
    <3>1. a.clicked # m /\ a.count \in Nat
      BY <2>4, <2>5
    <3> QED BY <2>6, <2>7, <3>1, RowClickedFields
  <2> QED BY <1>2, <1>6, <2>5, <2>8, <2>9 DEF Sound, Open
<1> QED BY <1>5, <1>6

(* Where refreshRecvList() starts.                                           *)
Restart(v) ==
  CASE v.selType = "Recv" -> RecvClicked(v, v.clicked, v.count)
    [] v.selType = "None" -> [v EXCEPT !.pane = NoMsg]
    [] v.selType = "Send" -> v

LEMMA Restarted ==
  ASSUME NEW v, Sound(v), NEW w, w = ClearList(Restart(v))
  PROVE  Sound(w) /\ w.shown = <<>> /\ Open(w, v.clicked)
<1> DEFINE s == Restart(v)
<1>1. v \in View /\ v.count \in Nat /\ SendItem # NoMsg
  BY RecvAreaAssumption, Viewed DEF Sound, Selected
<1>2. CASE v.selType = "Recv"
  <2>1. v.clicked \in Message
    BY <1>1, <1>2, Viewed DEF Sound, Selected
  <2>2. s = RecvClicked(v, v.clicked, v.count)
    BY <1>2 DEF Restart
  <2> HIDE DEF s
  <2>3. /\ s \in View /\ s.selType = "None" /\ s.clicked = NoMsg /\ s.barIdx = 0 /\ s.selectOnAdd
    BY <1>1, <2>1, <2>2, RowClickedFields
  <2>4. /\ Sound(ClearList(s)) /\ ClearList(s).shown = <<>>
        /\ ClearList(s).clicked = NoMsg /\ ClearList(s).selectOnAdd
    BY <1>1, <2>3, Cleared
  <2> QED BY <2>4 DEF Open, s
<1>3. CASE v.selType = "None"
  <2>1. v.clicked = NoMsg /\ v.barIdx = 0
    BY <1>3 DEF Sound, Selected
  <2>2. s = [v EXCEPT !.pane = NoMsg]
    BY <1>3 DEF Restart
  <2> HIDE DEF s
  <2>3. /\ s \in View /\ s.selType = "None" /\ s.clicked = NoMsg /\ s.barIdx = 0
    BY <1>1, <1>3, <2>1, <2>2 DEF View
  <2>4. Sound(ClearList(s)) /\ ClearList(s).shown = <<>>
    BY <1>1, <2>3, Cleared
  <2> QED BY <2>1, <2>4, RecvAreaAssumption DEF Open, s
<1>4. CASE v.selType = "Send"
  <2>1. s = v /\ v.clicked = SendItem
    BY <1>4 DEF Restart, Sound, Selected
  <2>2. Sound(ClearList(v)) /\ ClearList(v).shown = <<>>
    BY ClearedSound
  <2> QED BY <2>1, <2>2, RecvAreaAssumption DEF Open
<1> QED BY <1>1, <1>2, <1>3, <1>4, Viewed

(* The list is the store's again, less what is hidden.                       *)
LEMMA Refreshed ==
  ASSUME NEW v, Sound(v), NEW msgs \in Seq(Message), IsInjective(msgs), NEW modes, NEW names,
         NEW w, w = Refresh(v, msgs, modes, names)
  PROVE  Sound(w) /\ w.shown = Among(msgs, {m \in ToSet(msgs) : CanAdd(m, modes, names)})
<1> DEFINE listed == Among(msgs, {m \in ToSet(msgs) : CanAdd(m, modes, names)})
           n == Len(listed)
           start == CASE v.selType = "Recv" -> RecvClicked(v, v.clicked, v.count)
                      [] v.selType = "None" -> [v EXCEPT !.pane = NoMsg]
                      [] v.selType = "Send" -> v
           base == ClearList(start)
           p == v.clicked
           ShowAgain(u, m) ==
             LET a == AddRow(u, m)
             IN  IF m = p THEN RecvClicked(a, m, a.count) ELSE a
           rows[k \in 0..n] == IF k = 0 THEN base ELSE ShowAgain(rows[k - 1], listed[k])
           end == rows[n]
           Shows(f) == f = [k \in 0..n |-> IF k = 0 THEN base ELSE ShowAgain(f[k - 1], listed[k])]
           step == [k \in 1..n |-> [u \in View |-> ShowAgain(u, listed[k])]]
<1>1. w = IF end.clicked = NoMsg THEN [end EXCEPT !.row = NoMsg] ELSE end
  BY DEF Refresh
<1>2. listed \in Seq(Message) /\ IsInjective(listed)
  <2> DEFINE C == {m \in ToSet(msgs) : CanAdd(m, modes, names)}
  <2> HIDE DEF C
  <2>1. Among(msgs, C) \in Seq(Message) /\ IsInjective(Among(msgs, C))
    BY Some
  <2> QED BY <2>1 DEF C
<1> HIDE DEF listed
<1>3. n \in Nat /\ \A k \in 1..n : listed[k] \in Message
  BY <1>2
<1>4. base = ClearList(Restart(v))
  BY DEF Restart
<1>5. \A u, m : ShowAgain(u, m) = ShownAgain(u, m, p)
  BY DEF ShownAgain
<1> HIDE DEF start, base, ShowAgain
<1>6. Sound(base) /\ base.shown = <<>> /\ Open(base, p)
  BY <1>4, Restarted
<1>7. base \in View
  BY <1>6 DEF Sound, Selected
<1>8. step \in [1..n -> [View -> View]]
  BY <1>3, <1>5, ShownAgainTypes
<1> HIDE DEF n, p
<1>9. PICK f : Loops(f, n, View, base, step)
  <2> HIDE DEF rows, step
  <2> QED BY <1>3, <1>7, <1>8, LoopExists
<1>10. f \in [0..n -> View] /\ f[0] = base /\ \A k \in 1..n : f[k] = step[k][f[k - 1]]
  BY <1>9 DEF Loops
<1>11. Shows(f)
  <2>1. ASSUME NEW k \in 0..n
        PROVE  f[k] = IF k = 0 THEN base ELSE ShowAgain(f[k - 1], listed[k])
    <3>1. CASE k = 0
      BY <1>10, <3>1
    <3>2. CASE k # 0
      <4>1. k \in 1..n /\ k - 1 \in 0..n
        BY <1>3, <3>2
      <4>2. f[k - 1] \in View
        BY <1>10, <4>1
      <4> QED BY <1>10, <3>2, <4>1, <4>2
    <3> QED BY <3>1, <3>2
  <2>2. f = [k \in 0..n |-> f[k]]
    BY <1>10
  <2> QED BY <2>1, <2>2
<1>12. Shows(rows)
  BY <1>11
<1> HIDE DEF rows, step
<1>13. \A k \in 0..n : rows[k] = IF k = 0 THEN base ELSE ShowAgain(rows[k - 1], listed[k])
  BY <1>12
<1> DEFINE T == {k \in 0..n : Sound(rows[k]) /\ rows[k].shown = SubSeq(listed, 1, k) /\ Open(rows[k], p)}
<1>14. 0 \in T
  <2>1. 0 \in 0..n
    BY <1>3
  <2>2. SubSeq(listed, 1, 0) = <<>>
    BY <1>2, Initials
  <2> QED BY <1>6, <1>13, <2>1, <2>2
<1>15. ASSUME NEW k \in 1..n, k - 1 \in T PROVE k \in T
  <2> DEFINE u == rows[k - 1]
             m == listed[k]
             s == SubSeq(listed, 1, k - 1)
  <2>1. k \in 0..n /\ k # 0 /\ k - 1 \in 0..n
    BY <1>3
  <2>2. rows[k] = ShownAgain(u, m, p)
    BY <1>5, <1>13, <2>1
  <2>3. Sound(u) /\ u.shown = s /\ Open(u, p)
    BY <1>15
  <2>4. m \in Message /\ m \notin ToSet(s) /\ SubSeq(listed, 1, k) = Append(s, m)
    <3>1. k \in 1..Len(listed)
      BY DEF n
    <3> QED BY <1>2, <3>1, Initials
  <2> HIDE DEF u, m, s
  <2>5. Sound(rows[k]) /\ rows[k].shown = SubSeq(listed, 1, k) /\ Open(rows[k], p)
    BY <2>2, <2>3, <2>4, ShownAgainKeeps
  <2> QED BY <2>1, <2>5
<1> HIDE DEF T
<1>16. n \in T
  <2>1. \A k \in 0..n : k \in T
    BY <1>3, <1>14, <1>15, Steps
  <2> QED BY <1>3, <2>1
<1>17. SubSeq(listed, 1, n) = listed
  BY <1>2, Initials DEF n
<1>18. Sound(end) /\ end.shown = listed
  BY <1>16, <1>17 DEF T
<1> HIDE DEF end
<1>19. Sound(w) /\ w.shown = listed
  <2>1. CASE end.clicked = NoMsg
    <3>1. w = [end EXCEPT !.row = NoMsg]
      BY <1>1, <2>1
    <3>2. end \in View /\ NoMsg # SendItem
      BY <1>18, RecvAreaAssumption DEF Sound, Selected
    <3>3. /\ w \in View /\ w.shown = end.shown /\ w.count = end.count /\ w.selType = end.selType
          /\ w.clicked = end.clicked /\ w.barIdx = end.barIdx
      BY <3>1, <3>2 DEF View
    <3> QED BY <1>18, <2>1, <3>2, <3>3 DEF Sound, Selected
  <2>2. CASE end.clicked # NoMsg
    BY <1>1, <1>18, <2>2
  <2> QED BY <2>1, <2>2
<1> QED BY <1>19 DEF listed

-----------------------------------------------------------------------------
(* deleteCurrentMessage() and decRecvListCount(): the row of the selected    *)
(* message goes, and the next one is selected.                               *)
LEMMA RowDeleted ==
  ASSUME NEW v, Sound(v), v.barIdx > 0, NEW w, w = DecCount(DeleteRow(ClearDisplayed(v)))
  PROVE  /\ v.clicked \in ToSet(v.shown)
         /\ Sound(w) /\ w.shown = Among(v.shown, ToSet(v.shown) \ {v.clicked})
<1> DEFINE u == ClearDisplayed(v)
           x == v.clicked
           rest == Among(v.shown, ToSet(v.shown) \ {x})
           i == CHOOSE k \in DOMAIN u.shown : u.shown[k] = u.row
           next == IF i <= Len(rest) THEN i ELSE Len(rest)
           d == DeleteRow(u)
<1>1. /\ v \in View /\ v.shown \in Seq(Message) /\ IsInjective(v.shown) /\ v.count = Len(v.shown)
      /\ v.count \in Nat /\ NoMsg # SendItem
  BY Viewed, RecvAreaAssumption DEF Sound, Selected
<1>2. v.selType = "Recv" /\ v.row = x /\ v.barIdx \in DOMAIN v.shown /\ v.shown[v.barIdx] = x
  BY DEF Sound, Selected
<1>3. x \in ToSet(v.shown)
  BY <1>2 DEF ToSet
<1>4. /\ u \in View /\ u.shown = v.shown /\ u.count = v.count /\ u.row = x
      /\ u.selType = "None" /\ u.clicked = NoMsg /\ u.barIdx = v.barIdx
  BY <1>1, <1>2 DEF ClearDisplayed, View
<1> HIDE DEF u, x
<1>5. i \in DOMAIN v.shown
  BY <1>2, <1>4
<1>6. d = IF rest = <<>> THEN [u EXCEPT !.shown = rest, !.row = NoMsg]
          ELSE RecvClicked([u EXCEPT !.shown = rest, !.row = rest[next]], rest[next], next)
  BY <1>4 DEF DeleteRow
<1>7. rest \in Seq(Message) /\ IsInjective(rest) /\ Len(rest) = v.count - 1
  <2>1. rest \in Seq(Message) /\ IsInjective(rest)
    <3> DEFINE S == ToSet(v.shown) \ {x}
    <3> HIDE DEF S
    <3>1. Among(v.shown, S) \in Seq(Message) /\ IsInjective(Among(v.shown, S))
      BY <1>1, Some
    <3> QED BY <3>1 DEF S
  <2>2. Len(rest) = Len(v.shown) - 1
    BY <1>1, <1>3, OneLess
  <2> QED BY <1>1, <2>1, <2>2
<1>8. w = [d EXCEPT !.count = d.count - 1, !.barIdx = IF d.count = 1 THEN 0 ELSE d.barIdx]
  BY DEF DecCount, u
<1> HIDE DEF rest, i, d
<1>9. CASE rest = <<>>
  <2>1. v.count = 1
    BY <1>1, <1>7, <1>9
  <2>2. d = [u EXCEPT !.shown = rest, !.row = NoMsg]
    BY <1>6, <1>9
  <2>3. /\ d \in View /\ d.shown = rest /\ d.row = NoMsg /\ d.count = v.count
        /\ d.selType = "None" /\ d.clicked = NoMsg
    BY <1>4, <1>7, <2>2 DEF View
  <2>4. w = [d EXCEPT !.count = 0, !.barIdx = 0]
    BY <1>8, <2>1, <2>3
  <2>5. w \in View
    <3> DEFINE z == 0
    <3>1. z \in Nat /\ w = [d EXCEPT !.count = z, !.barIdx = z]
      BY <2>4
    <3> HIDE DEF z
    <3> QED BY <2>3, <3>1 DEF View
  <2>6. /\ w.shown = rest /\ w.count = 0 /\ w.selType = "None" /\ w.clicked = NoMsg
        /\ w.barIdx = 0
    BY <2>3, <2>4 DEF View
  <2>7. Sound(w)
    BY <1>1, <1>7, <2>1, <2>5, <2>6 DEF Sound, Selected
  <2> QED BY <1>3, <2>6, <2>7 DEF rest, x
<1>10. CASE rest # <<>>
  <2>1. Len(rest) \in Nat \ {0} /\ v.count # 1
    BY <1>1, <1>7, <1>10
  <2>2. next \in DOMAIN rest /\ next \in Nat
    <3>1. i \in Nat \ {0}
      BY <1>1, <1>5
    <3>2. DOMAIN rest = 1..Len(rest)
      BY <1>7
    <3>3. next \in 1..Len(rest) /\ next \in Nat
      BY <2>1, <3>1
    <3> QED BY <3>2, <3>3
  <2> HIDE DEF next
  <2> DEFINE y == rest[next]
             e == [u EXCEPT !.shown = rest, !.row = y]
  <2>3. y \in Message /\ y # NoMsg
    BY <1>7, <2>2, RecvAreaAssumption
  <2>4. d = RecvClicked(e, y, next)
    BY <1>6, <1>10
  <2>5. y = rest[next]
    OBVIOUS
  <2> HIDE DEF y
  <2>6. e \in View /\ e.shown = rest /\ e.row = y /\ e.count = v.count /\ e.clicked = NoMsg
    BY <1>4, <1>7, <2>3 DEF View
  <2> HIDE DEF e
  <2>7. /\ d \in View /\ d.shown = rest /\ d.count = v.count
    BY <2>2, <2>3, <2>4, <2>6, RowClickedFields
  <2>8. Selected(d)
    BY <1>7, <2>2, <2>4, <2>5, <2>6, RowClicked
  <2>9. w = [d EXCEPT !.count = v.count - 1]
    BY <1>8, <2>1, <2>7 DEF View
  <2>10. v.count - 1 \in Nat
    BY <1>7
  <2>11. w \in View
    BY <2>7, <2>9, <2>10 DEF View
  <2>12. /\ w.shown = rest /\ w.count = v.count - 1 /\ w.selType = d.selType
         /\ w.clicked = d.clicked /\ w.row = d.row /\ w.barIdx = d.barIdx
         /\ w.pending = d.pending /\ w.pane = d.pane /\ w.selectOnAdd = d.selectOnAdd
    BY <2>7, <2>9 DEF View
  <2>13. Sound(w)
    BY <1>7, <2>7, <2>8, <2>11, <2>12 DEF Sound, Selected
  <2> QED BY <1>3, <2>12, <2>13 DEF rest, x
<1> QED BY <1>9, <1>10

-----------------------------------------------------------------------------
(* The inductive invariant of the receive area: that of the message manager, *)
(* the selection, rows that were stored or reported and, until a handler has *)
(* run inside another one, the order in which the messages come: stored ones *)
(* and then those a running handler has reported and not yet stored.         *)
Listable == {m \in ToSet(reported) : CanAdd(m, mode, hidden)}

Known ==
  IF handlers = <<>> THEN <<>>
  ELSE IF Top.type = "Received" /\ Top.told THEN Front(Top.done) ELSE Top.done

InOrder ==
  ~nested =>
    /\ Len(handlers) <= 1
    /\ reported = stored \o Known
    /\ view.shown = Among(reported, Listable)

AreaInv ==
  /\ IInv
  /\ mode \subseteq Modes /\ hidden \in Filters \cup {{}} /\ nested \in BOOLEAN
  /\ Sound(view)
  /\ ToSet(view.shown) \subseteq ToSet(stored) \cup ToSet(reported)
  /\ InOrder

Nests == nested' = (nested \/ Len(handlers') > 1)

LEMMA Together ==
  ASSUME AreaInv, IInv', mode' \subseteq Modes, hidden' \in Filters \cup {{}}, Nests, Sound(view'),
         ToSet(view'.shown) \subseteq ToSet(stored') \cup ToSet(reported'),
         ~nested /\ Len(handlers') <= 1 =>
           reported' = stored' \o Known' /\ view'.shown = Among(reported', Listable')
  PROVE  AreaInv'
<1>1. nested \in BOOLEAN /\ nested' \in BOOLEAN
  BY DEF AreaInv, Nests
<1>2. Len(handlers') \in Nat
  BY DEF IInv, TypeOK
<1>3. ASSUME ~nested'
      PROVE  /\ Len(handlers') <= 1
             /\ reported' = stored' \o Known' /\ view'.shown = Among(reported', Listable')
  <2>1. ~nested /\ ~(Len(handlers') > 1)
    BY <1>3 DEF Nests
  <2>2. Len(handlers') <= 1
    BY <1>2, <2>1
  <2> QED BY <2>1, <2>2
<1>4. InOrder'
  BY <1>3 DEF InOrder
<1> QED BY <1>1, <1>4 DEF AreaInv

LEMMA AreaStarts == AreaInit => AreaInv
<1> SUFFICES ASSUME AreaInit PROVE AreaInv
  OBVIOUS
<1>1. IInv
  BY InitIInv DEF AreaInit
<1>2. /\ reported = <<>> /\ stored = <<>> /\ handlers = <<>> /\ nested = FALSE
      /\ mode = Modes /\ hidden = {}
  BY DEF AreaInit, Init
<1>3. /\ view.shown = <<>> /\ view.count = 0 /\ view.clicked = NoMsg /\ view.selType = "None"
      /\ view.barIdx = 0
  BY DEF AreaInit
<1>4. view \in View
  <2>1. <<>> \in Seq(Message)
    OBVIOUS
  <2> QED BY <2>1 DEF AreaInit, View
<1>5. Sound(view)
  BY <1>3, <1>4, RecvAreaAssumption DEF Sound, Selected, IsInjective
<1>6. ToSet(view.shown) = {} /\ Known = <<>> /\ <<>> \o <<>> = <<>>
  BY <1>2, <1>3 DEF ToSet, Known
<1>7. InOrder
  BY <1>2, <1>3, <1>6, AmongNone DEF InOrder
<1> QED BY <1>1, <1>2, <1>5, <1>6, <1>7 DEF AreaInv

-----------------------------------------------------------------------------
LEMMA NewTop ==
  ASSUME TypeOK, handlers # <<>>, NEW h, WithTop(h)
  PROVE  handlers' # <<>> /\ Top' = h /\ Len(handlers') = Len(handlers)
<1> DEFINE S == Activation \cup {h}
           t == Tail(handlers)
           u == <<h>> \o t
<1>1. handlers' = u
  BY DEF WithTop
<1>2. t \in Seq(Activation) /\ Len(t) = Len(handlers) - 1 /\ Len(handlers) \in Nat \ {0}
  <2>1. handlers \in Seq(Activation) /\ Len(handlers) \in Nat /\ Len(handlers) > 0
    BY DEF TypeOK
  <2> QED BY <2>1
<1> HIDE DEF t
<1>3. t \in Seq(S)
  BY <1>2
<1>4. <<h>> \in Seq(S) /\ Len(<<h>>) = 1 /\ <<h>>[1] = h
  OBVIOUS
<1> HIDE DEF S
<1>5. u \in Seq(S) /\ Len(u) = 1 + Len(t) /\ u[1] = h
  BY <1>3, <1>4, ConcatProperties
<1>6. u # <<>> /\ Head(u) = h
  BY <1>2, <1>5
<1> HIDE DEF u
<1> QED BY <1>1, <1>2, <1>5, <1>6 DEF Top

LEMMA LastReturns ==
  ASSUME TypeOK, handlers # <<>>, Len(handlers) <= 1, Return
  PROVE  handlers' = <<>>
<1>1. handlers \in Seq(Activation) /\ Len(handlers) = 1
  <2> DEFINE n == Len(handlers)
  <2>1. handlers \in Seq(Activation) /\ n \in Nat /\ n > 0 /\ n <= 1
    BY DEF TypeOK
  <2> HIDE DEF n
  <2>2. n = 1
    BY <2>1
  <2> QED BY <2>1, <2>2 DEF n
<1>2. Tail(handlers) \in Seq(Activation) /\ Len(Tail(handlers)) = 0
  BY <1>1
<1> QED BY <1>2 DEF Return

LEMMA OnlyCall ==
  ASSUME TypeOK, NEW type \in Types, NEW names \in Seq(Names), NEW fromLoop \in BOOLEAN,
         Call(type, names, fromLoop), Len(handlers') <= 1
  PROVE  Known = <<>> /\ Known' = <<>>
<1> DEFINE h == [type |-> type, todo |-> names, told |-> FALSE, done |-> <<>>, fromLoop |-> fromLoop]
<1>1. h \in Activation /\ h.done = <<>> /\ ~h.told
  BY DEF Activation
<1> HIDE DEF h
<1>2. handlers' = <<h>> \o handlers
  BY DEF Call, h
<1>3. handlers \in Seq(Activation) /\ Len(handlers) \in Nat
  BY DEF TypeOK
<1>4. handlers' \in Seq(Activation) /\ Len(handlers') = 1 + Len(handlers) /\ handlers'[1] = h
  BY <1>1, <1>2, <1>3
<1>5. Len(handlers) = 0
  BY <1>3, <1>4
<1>6. handlers = <<>>
  BY <1>3, <1>5
<1>7. handlers' # <<>> /\ Top' = h
  BY <1>3, <1>4 DEF Top
<1> QED BY <1>1, <1>6, <1>7 DEF Known

LEMMA SilentOrder ==
  ASSUME AreaInv, Silent, ~nested, Len(handlers') <= 1
  PROVE  reported' = stored' \o Known'
<1>1. /\ TypeOK /\ Len(handlers) <= 1 /\ reported = stored \o Known
      /\ stored \in Seq(Message) /\ reported \in Seq(Message)
  BY DEF AreaInv, InOrder, IInv, TypeOK
<1>2. CASE UNCHANGED <<handlers, stored, reported>>
  BY <1>1, <1>2 DEF Known, Top
<1>3. ASSUME NEW type \in Types, NEW names \in Seq(Names), NEW fromLoop \in BOOLEAN,
             Call(type, names, fromLoop), UNCHANGED <<stored, reported>>
      PROVE  reported' = stored' \o Known'
  BY <1>1, <1>3, OnlyCall
<1>4. CASE SocketDataReceived
  <2>1. PICK names \in Chunks : Call("Received", names, TRUE)
    BY <1>4 DEF SocketDataReceived
  <2>2. names \in Seq(Names) /\ "Received" \in Types
    BY ChunksAreNames DEF Types
  <2> QED BY <1>3, <1>4, <2>1, <2>2 DEF SocketDataReceived
<1>5. CASE SendMsgs
  <2>1. PICK names \in Chunks : Call("Sent", names, TRUE)
    BY <1>5 DEF SendMsgs
  <2>2. names \in Seq(Names) /\ "Sent" \in Types
    BY ChunksAreNames DEF Types
  <2> QED BY <1>3, <1>5, <2>1, <2>2 DEF SendMsgs
<1>6. CASE Reply
  <2>1. PICK name \in Names : Call("Sent", <<name>>, FALSE)
    BY <1>6 DEF Reply
  <2>2. <<name>> \in Seq(Names) /\ "Sent" \in Types
    BY DEF Types
  <2> QED BY <1>3, <1>6, <2>1, <2>2 DEF Reply
<1>7. CASE TellReceived
  <2> DEFINE m == Numbered("Received", Head(Top.todo))
             h == [Top EXCEPT !.told = TRUE, !.todo = Tail(@), !.done = Append(@, m)]
  <2>1. /\ handlers # <<>> /\ Top.type = "Received" /\ Top.todo # <<>> /\ ~Top.told
        /\ WithTop(h) /\ UNCHANGED <<stored, reported>>
    BY <1>7 DEF TellReceived, Running
  <2>2. Top \in Activation
    BY <1>1, <2>1, TopOf
  <2>3. Top.todo \in Seq(Names) /\ Top.done \in Seq(Message) /\ Head(Top.todo) \in Names
    BY <2>1, <2>2 DEF Activation
  <2>4. m \in Message
    BY <2>3, NumberedIsNew DEF AreaInv, IInv, Types
  <2> HIDE DEF m
  <2>5. h.type = Top.type /\ h.told /\ h.done = Append(Top.done, m)
    BY <2>2 DEF Activation
  <2> HIDE DEF h
  <2>6. handlers' # <<>> /\ Top' = h
    BY <1>1, <2>1, NewTop
  <2>7. Known = Top.done /\ Known' = Front(Append(Top.done, m))
    BY <2>1, <2>5, <2>6 DEF Known
  <2>8. Front(Append(Top.done, m)) = Top.done
    BY <2>3, <2>4, Ends
  <2> QED BY <1>1, <2>1, <2>7, <2>8
<1>8. CASE StoreReceived
  <2>1. /\ handlers # <<>> /\ ~Top.told /\ Return /\ stored' = stored \o Top.done
        /\ reported' = reported
    BY <1>8 DEF StoreReceived, Running
  <2>2. Known = Top.done /\ Known' = <<>>
    BY <1>1, <2>1, LastReturns DEF Known
  <2> QED BY <1>1, <2>1, <2>2
<1>9. CASE TellSent
  <2> DEFINE h == [Top EXCEPT !.told = TRUE]
  <2>1. /\ handlers # <<>> /\ Top.type = "Sent" /\ WithTop(h) /\ UNCHANGED <<stored, reported>>
    BY <1>9 DEF TellSent, Running
  <2>2. Top \in Activation
    BY <1>1, <2>1, TopOf
  <2>3. h.type = Top.type /\ h.done = Top.done
    BY <2>2 DEF Activation
  <2> HIDE DEF h
  <2>4. handlers' # <<>> /\ Top' = h
    BY <1>1, <2>1, NewTop
  <2>5. Known' = Known
    BY <2>1, <2>3, <2>4 DEF Known
  <2> QED BY <1>1, <2>1, <2>5
<1>10. CASE SendDone
  <2>1. handlers # <<>> /\ Top.type = "Sent" /\ Return /\ UNCHANGED <<stored, reported>>
    BY <1>10 DEF SendDone, Running
  <2>2. 1 \in DOMAIN handlers /\ Top = handlers[1]
    BY <1>1, <2>1, TopOf
  <2>3. Top.done = <<>>
    BY <2>1, <2>2 DEF AreaInv, IInv, Hands
  <2>4. Known = <<>> /\ Known' = <<>>
    BY <1>1, <2>1, <2>3, LastReturns DEF Known
  <2> QED BY <1>1, <2>1, <2>4
<1> QED BY <1>2, <1>4, <1>5, <1>6, <1>7, <1>8, <1>9, <1>10
        DEF Silent, Attach, Clear, SetRecvEnabled, OpenBox, CloseBox

LEMMA SilentAreaKeeps ==
  ASSUME AreaInv, Silent, UNCHANGED <<mode, hidden, view>>, Nests
  PROVE  AreaInv'
<1>1. IInv'
  BY SilentKeeps DEF AreaInv
<1>2. reported' = reported /\ ToSet(stored) \subseteq ToSet(stored')
  <2>1. CASE StoreReceived
    <3>1. handlers # <<>> /\ stored' = stored \o Top.done /\ reported' = reported
      BY <2>1 DEF StoreReceived, Running
    <3>2. Top \in Activation /\ 1 \in DOMAIN handlers /\ Top = handlers[1]
      BY <3>1, TopOf DEF AreaInv, IInv
    <3>3. Top.done \in Seq(Message)
      BY <3>2 DEF Activation
    <3>4. /\ stored \in Seq(Message) /\ IsInjective(stored) /\ IsInjective(Top.done)
          /\ ToSet(stored) \cap ToSet(Top.done) = {}
      BY <3>2 DEF AreaInv, IInv, TypeOK, NumbersIdentify, Hands
    <3> QED BY <3>1, <3>3, <3>4, Joined
  <2>2. CASE ~StoreReceived
    BY <2>2 DEF Silent, Attach, Clear, SetRecvEnabled, SocketDataReceived, SendMsgs,
       TellReceived, TellSent, SendDone, Reply, OpenBox, CloseBox
  <2> QED BY <2>1, <2>2
<1>3. ToSet(view'.shown) \subseteq ToSet(stored') \cup ToSet(reported')
  BY <1>2 DEF AreaInv
<1>4. ASSUME ~nested, Len(handlers') <= 1
      PROVE  reported' = stored' \o Known' /\ view'.shown = Among(reported', Listable')
  <2>1. Listable' = Listable
    BY <1>2 DEF Listable
  <2> QED BY <1>2, <1>4, <2>1, SilentOrder DEF AreaInv, InOrder
<1>5. mode' \subseteq Modes /\ hidden' \in Filters \cup {{}} /\ Sound(view')
  BY DEF AreaInv
<1> QED BY <1>1, <1>3, <1>4, <1>5, Together

(* A message the application is told of gets its row at the end.             *)
LEMMA ShownGrows ==
  ASSUME AreaInv, NEW m \in Message, m \notin ToSet(stored), m \notin ToSet(reported),
         reported' = Append(reported, m), view' = MsgAdded(view, m), UNCHANGED <<mode, hidden>>
  PROVE  /\ Sound(view') /\ ToSet(view'.shown) \subseteq ToSet(view.shown) \cup {m}
         /\ ToSet(reported') = ToSet(reported) \cup {m}
         /\ view.shown = Among(reported, Listable) => view'.shown = Among(reported', Listable')
<1>1. /\ Sound(view) /\ m \notin ToSet(view.shown) /\ reported \in Seq(Message)
  BY DEF AreaInv, IInv, TypeOK
<1>2. view.shown \in Seq(Message)
  BY <1>1, Viewed DEF Sound, Selected
<1>3. /\ Sound(view')
      /\ view'.shown = IF CanAdd(m, mode, hidden) THEN Append(view.shown, m) ELSE view.shown
  BY <1>1, Added
<1>4. ToSet(view'.shown) \subseteq ToSet(view.shown) \cup {m}
  BY <1>2, <1>3, Elements
<1>5. ToSet(reported') = ToSet(reported) \cup {m}
  BY <1>1, Elements
<1>6. ASSUME view.shown = Among(reported, Listable) PROVE view'.shown = Among(reported', Listable')
  <2>1. Listable' = {x \in ToSet(reported') : CanAdd(x, mode, hidden)}
    BY DEF Listable
  <2>2. /\ ToSet(reported) \cap Listable = ToSet(reported) \cap Listable'
        /\ m \in Listable' <=> CanAdd(m, mode, hidden)
    BY <1>5, <2>1 DEF Listable
  <2> DEFINE L == Listable'
  <2>3. Among(reported, L) = view.shown
    BY <1>6, <2>2, AmongSame
  <2> HIDE DEF L
  <2>4. Among(Append(reported, m), L) = IF m \in L THEN Append(Among(reported, L), m) ELSE Among(reported, L)
    BY <1>1, AmongAppend
  <2>5. Among(reported', L) = view'.shown
    BY <1>3, <2>2, <2>3, <2>4 DEF L
  <2> QED BY <2>5 DEF L
<1> QED BY <1>3, <1>4, <1>5, <1>6

LEMMA ReportedArrives ==
  ASSUME AreaInv, NEW m \in InHand, ReportReceived(m), view' = MsgAdded(view, m),
         UNCHANGED <<mode, hidden>>, Nests
  PROVE  AreaInv'
<1> DEFINE h == [Top EXCEPT !.told = FALSE]
           d == Top.done
<1>1. /\ handlers # <<>> /\ Top.type = "Received" /\ Top.told /\ m = Last(d) /\ stored' = stored
      /\ WithTop(h) /\ reported' = Append(reported, m)
  BY DEF ReportReceived, Running
<1>2. IInv' /\ TypeOK /\ reported \in Seq(Message) /\ stored \in Seq(Message)
  BY ReportReceivedKeeps DEF AreaInv, IInv, TypeOK
<1>3. 1 \in DOMAIN handlers /\ Top = handlers[1] /\ Top \in Activation
  BY <1>1, <1>2, TopOf
<1>4. d \in Seq(Message) /\ h.type = "Received" /\ ~h.told /\ h.done = d
  BY <1>1, <1>3 DEF Activation
<1>5. handlers' # <<>> /\ Top' = h /\ Len(handlers') = Len(handlers)
  BY <1>1, <1>2, NewTop
<1>6. d # <<>> /\ m \notin ToSet(reported) /\ ToSet(d) \cap ToSet(stored) = {}
  BY <1>1, <1>3 DEF AreaInv, IInv, Hands
<1> HIDE DEF d, h
<1>7. m \in ToSet(d) /\ m \in Message /\ Front(d) \in Seq(Message) /\ Append(Front(d), m) = d
  <2>1. m \in ToSet(d)
    BY <1>1, <1>4, <1>6, Elements
  <2>2. m \in Message
    BY <1>4, <2>1, Elements
  <2> QED BY <1>1, <1>4, <1>6, <2>1, <2>2, Ends
<1>8. m \notin ToSet(stored)
  BY <1>6, <1>7
<1>9. /\ Sound(view') /\ ToSet(view'.shown) \subseteq ToSet(view.shown) \cup {m}
      /\ ToSet(reported') = ToSet(reported) \cup {m}
      /\ view.shown = Among(reported, Listable) => view'.shown = Among(reported', Listable')
  BY <1>1, <1>6, <1>7, <1>8, ShownGrows
<1>10. Known = Front(d) /\ Known' = d
  BY <1>1, <1>4, <1>5 DEF Known, d
<1>11. ASSUME reported = stored \o Known PROVE reported' = stored' \o Known'
  <2>1. Append(stored \o Front(d), m) = stored \o Append(Front(d), m)
    <3> DEFINE f == Front(d)
    <3>1. f \in Seq(Message)
      BY <1>7
    <3> HIDE DEF f
    <3>2. Append(stored \o f, m) = stored \o Append(f, m)
      BY <1>2, <1>7, <3>1, OneMore
    <3> QED BY <3>2 DEF f
  <2> QED BY <1>1, <1>7, <1>10, <1>11, <2>1
<1>12. ASSUME ~nested, Len(handlers') <= 1
       PROVE  reported' = stored' \o Known' /\ view'.shown = Among(reported', Listable')
  BY <1>9, <1>11, <1>12 DEF AreaInv, InOrder
<1>13. /\ ToSet(view'.shown) \subseteq ToSet(stored') \cup ToSet(reported')
       /\ mode' \subseteq Modes /\ hidden' \in Filters \cup {{}}
  BY <1>1, <1>9 DEF AreaInv
<1> QED BY <1>2, <1>9, <1>12, <1>13, Together

LEMMA SentArrives ==
  ASSUME AreaInv, NEW name \in Names, NEW m, m = Numbered("Sent", name), StoreSent(m),
         view' = MsgAdded(view, m), UNCHANGED <<mode, hidden>>, Nests
  PROVE  AreaInv'
<1> DEFINE h == [Top EXCEPT !.told = FALSE, !.todo = Tail(@)]
<1>1. /\ handlers # <<>> /\ Top.type = "Sent" /\ Top.todo # <<>> /\ WithTop(h)
      /\ stored' = Append(stored, m) /\ reported' = Append(reported, m)
  BY DEF StoreSent, Running
<1>2. IInv' /\ TypeOK /\ NumbersIdentify /\ reported \in Seq(Message) /\ stored \in Seq(Message)
  BY StoreSentKeeps DEF AreaInv, IInv, TypeOK
<1>3. 1 \in DOMAIN handlers /\ Top = handlers[1] /\ Top \in Activation
  BY <1>1, <1>2, TopOf
<1>4. Top.done = <<>>
  BY <1>1, <1>3 DEF AreaInv, IInv, Hands
<1>5. h.type = "Sent" /\ h.done = <<>>
  BY <1>1, <1>3, <1>4 DEF Activation
<1> HIDE DEF h
<1>6. handlers' # <<>> /\ Top' = h /\ Len(handlers') = Len(handlers)
  BY <1>1, <1>2, NewTop
<1>7. Known = <<>> /\ Known' = <<>>
  BY <1>1, <1>4, <1>5, <1>6 DEF Known
<1>8. m \in Message /\ m \notin ToSet(stored) /\ m \notin ToSet(reported)
  BY <1>2, NumberedIsNew DEF Existing, Types
<1>9. /\ Sound(view') /\ ToSet(view'.shown) \subseteq ToSet(view.shown) \cup {m}
      /\ ToSet(reported') = ToSet(reported) \cup {m}
      /\ view.shown = Among(reported, Listable) => view'.shown = Among(reported', Listable')
  BY <1>1, <1>8, ShownGrows
<1>10. ToSet(stored') = ToSet(stored) \cup {m} /\ stored' \in Seq(Message)
  BY <1>1, <1>2, <1>8, Elements
<1>11. ASSUME reported = stored \o Known PROVE reported' = stored' \o Known'
  <2>1. stored \o <<>> = stored /\ stored' \o <<>> = stored'
    BY <1>2, <1>8, <1>10, Ends
  <2> QED BY <1>1, <1>7, <1>11, <2>1
<1>12. ASSUME ~nested, Len(handlers') <= 1
       PROVE  reported' = stored' \o Known' /\ view'.shown = Among(reported', Listable')
  BY <1>9, <1>11, <1>12 DEF AreaInv, InOrder
<1>13. /\ ToSet(view'.shown) \subseteq ToSet(stored') \cup ToSet(reported')
       /\ mode' \subseteq Modes /\ hidden' \in Filters \cup {{}}
  BY <1>9, <1>10 DEF AreaInv
<1> QED BY <1>2, <1>9, <1>12, <1>13, Together

LEMMA ArrivesKeeps ==
  ASSUME AreaInv, NEW m, Arrives(m), Nests
  PROVE  AreaInv'
<1>1. view' = MsgAdded(view, m) /\ UNCHANGED <<mode, hidden>>
  BY DEF Arrives
<1>2. TypeOK
  BY DEF AreaInv, IInv
<1>3. CASE ReportReceived(m)
  <2>1. handlers # <<>> /\ Top.type = "Received" /\ Top.told /\ m = Last(Top.done)
    BY <1>3 DEF ReportReceived, Running
  <2>2. 1 \in DOMAIN handlers /\ Top = handlers[1] /\ Top \in Activation
    BY <1>2, <2>1, TopOf
  <2>3. Top.done \in Seq(Message) /\ Top.done # <<>>
    BY <2>1, <2>2 DEF Activation, AreaInv, IInv, Hands
  <2>4. m \in ToSet(Top.done)
    BY <2>1, <2>3, Elements
  <2>5. m \in InHand
    BY <2>2, <2>4 DEF InHand
  <2> QED BY <1>1, <1>3, <2>5, ReportedArrives
<1>4. CASE StoreSent(m)
  <2>1. handlers # <<>> /\ Top.todo # <<>> /\ m = Numbered("Sent", Head(Top.todo))
    BY <1>4 DEF StoreSent, Running
  <2>2. Top \in Activation
    BY <1>2, <2>1, TopOf
  <2>3. Head(Top.todo) \in Names
    <3>1. Top.todo \in Seq(Names)
      BY <2>2 DEF Activation
    <3> QED BY <2>1, <3>1
  <2> QED BY <1>1, <1>4, <2>1, <2>3, SentArrives
<1> QED BY <1>3, <1>4 DEF Arrives

-----------------------------------------------------------------------------
(* Steps that leave the message manager alone.                               *)
LEMMA ViewKeeps ==
  ASSUME AreaInv, UNCHANGED <<msgMgrVars, mode, hidden>>, Nests,
         Sound(view'), view'.shown = view.shown
  PROVE  AreaInv'
<1>1. IInv'
  BY StaysSame DEF AreaInv, IInv, TypeOK, msgMgrVars
<1>2. /\ ToSet(view'.shown) \subseteq ToSet(stored') \cup ToSet(reported')
      /\ mode' \subseteq Modes /\ hidden' \in Filters \cup {{}}
  BY DEF AreaInv, msgMgrVars
<1>3. Known' = Known /\ Listable' = Listable
  BY DEF Known, Top, Listable, msgMgrVars
<1>4. ASSUME ~nested
      PROVE  reported' = stored' \o Known' /\ view'.shown = Among(reported', Listable')
  BY <1>3, <1>4 DEF AreaInv, InOrder, msgMgrVars
<1> QED BY <1>1, <1>2, <1>4, Together

(* While the user acts no message is on its way.                             *)
LEMMA Idle ==
  ASSUME AreaInv, UserMayAct
  PROVE  /\ handlers = <<>> /\ Known = <<>>
         /\ stored \in Seq(Message) /\ reported \in Seq(Message)
         /\ IsInjective(stored) /\ IsInjective(reported)
         /\ ToSet(reported) \subseteq ToSet(stored) /\ ToSet(view.shown) \subseteq ToSet(stored)
         /\ ~nested => reported = stored /\ view.shown = Among(stored, Listable)
         /\ view.shown \in Seq(Message) /\ IsInjective(view.shown)
         /\ \A m, n \in ToSet(stored) : m.num = n.num => m = n
<1>1. handlers = <<>> /\ Known = <<>> /\ InHand = {}
  BY DEF UserMayAct, Known, InHand
<1>2. /\ stored \in Seq(Message) /\ reported \in Seq(Message)
      /\ IsInjective(stored) /\ IsInjective(reported)
      /\ ToSet(reported) \subseteq ToSet(stored)
      /\ \A m, n \in ToSet(stored) : m.num = n.num => m = n
  BY <1>1 DEF AreaInv, IInv, TypeOK, NumbersIdentify, ReportedAreKept
<1>3. ToSet(view.shown) \subseteq ToSet(stored)
  BY <1>2 DEF AreaInv
<1>4. ASSUME ~nested PROVE reported = stored /\ view.shown = Among(stored, Listable)
  BY <1>1, <1>2, <1>4 DEF AreaInv, InOrder
<1>5. view.shown \in Seq(Message) /\ IsInjective(view.shown)
  <2>1. view \in View /\ IsInjective(view.shown)
    BY DEF AreaInv, Sound, Selected
  <2> QED BY <2>1, Viewed
<1> QED BY <1>1, <1>2, <1>3, <1>4, <1>5

(* After what the user does no message is on its way either.                 *)
LEMMA IdleAfter ==
  ASSUME AreaInv, UserMayAct, UNCHANGED handlers, IInv', mode' \subseteq Modes,
         hidden' \in Filters \cup {{}}, Nests, Sound(view'),
         ToSet(view'.shown) \subseteq ToSet(stored') \cup ToSet(reported'),
         ~nested => reported' = stored' /\ view'.shown = Among(reported', Listable')
  PROVE  AreaInv'
<1>1. handlers' = <<>> /\ Known' = <<>>
  BY DEF UserMayAct, Known
<1>2. stored' \in Seq(Message)
  BY DEF IInv, TypeOK
<1>3. stored' \o Known' = stored'
  BY <1>1, <1>2
<1> QED BY <1>3, Together

-----------------------------------------------------------------------------
(* The timer and the user's clicks.                                          *)
LEMMA TimeoutKeeps ==
  ASSUME AreaInv, PendingTimeout, Nests
  PROVE  AreaInv'
<1>1. /\ Sound(view) /\ UNCHANGED <<msgMgrVars, mode, hidden>>
      /\ view' = IF view.pending # NoMsg
                 THEN [Display(view, view.pending) EXCEPT !.waiting = FALSE]
                 ELSE [view EXCEPT !.waiting = FALSE]
  BY DEF AreaInv, PendingTimeout
<1>2. Sound(view') /\ view'.shown = view.shown
  BY <1>1, TimedOut
<1> QED BY <1>1, <1>2, ViewKeeps

LEMMA ClickRowKeeps ==
  ASSUME AreaInv, NEW k \in DOMAIN view.shown, ClickRow(k), Nests
  PROVE  AreaInv'
<1> DEFINE m == view.shown[k]
           u == [view EXCEPT !.row = m]
           w == RecvClicked(u, u.shown[k], k)
<1>1. /\ Sound(view) /\ view \in View /\ IsInjective(view.shown) /\ view.count = Len(view.shown)
      /\ UNCHANGED <<msgMgrVars, mode, hidden>>
  BY DEF AreaInv, ClickRow, Sound, Selected
<1>2. m \in Message /\ k \in Nat
  BY <1>1, Viewed
<1>3. u \in View /\ u.shown = view.shown /\ u.count = view.count /\ u.row = u.shown[k]
  BY <1>1, <1>2 DEF View
<1>4. view' = w
  BY <1>3 DEF ClickRow
<1>5. u.shown[k] \in Message /\ k \in DOMAIN u.shown /\ IsInjective(u.shown)
  BY <1>1, <1>2, <1>3
<1> HIDE DEF u
<1>6. w = RecvClicked(u, u.shown[k], k)
  OBVIOUS
<1> HIDE DEF w
<1>7. Selected(w)
  BY <1>3, <1>5, <1>6, RowClicked
<1>8. w.shown = u.shown /\ w.count = u.count
  BY <1>2, <1>3, <1>5, <1>6, RowClickedFields
<1>9. Sound(view') /\ view'.shown = view.shown
  BY <1>1, <1>3, <1>4, <1>7, <1>8 DEF Sound
<1> QED BY <1>1, <1>9, ViewKeeps

LEMMA SendListKeeps ==
  ASSUME AreaInv, ClickSend \/ DropSend, Nests
  PROVE  AreaInv'
<1>1. Sound(view) /\ UNCHANGED <<msgMgrVars, mode, hidden>>
  BY DEF AreaInv, ClickSend, DropSend
<1>2. Sound(view') /\ view'.shown = view.shown
  BY <1>1, SendClickedKeeps, SendDropped DEF ClickSend, DropSend
<1> QED BY <1>1, <1>2, ViewKeeps

-----------------------------------------------------------------------------
(* What deletions leave.                                                     *)
LEMMA OneTaken ==
  ASSUME NEW s \in Seq(Message), NEW m, NEW S, m \in S, ToSet(s) \subseteq S,
         \A x, y \in S : x.num = y.num => x = y
  PROVE  DeleteMsg(s, m) = Among(s, ToSet(s) \ {m})
<1> DEFINE A == {x \in ToSet(s) : x.num # m.num}
           B == ToSet(s) \ {m}
<1>1. ToSet(s) \cap A = ToSet(s) \cap B
  OBVIOUS
<1>2. DeleteMsg(s, m) = Among(s, A)
  BY DEF DeleteMsg
<1> HIDE DEF A, B
<1>3. Among(s, A) = Among(s, B)
  BY <1>1, AmongSame
<1> QED BY <1>2, <1>3 DEF B

(* A list of what may be listed remains one when the same goes from both.    *)
Lets(s, modes, names) == {m \in ToSet(s) : CanAdd(m, modes, names)}

Lacking(s, gone) == Among(s, ToSet(s) \ gone)

LEMMA BothLessened ==
  ASSUME NEW s \in Seq(Message), NEW gone, NEW modes, NEW names
  PROVE  Lacking(Among(s, Lets(s, modes, names)), gone) =
           Among(Lacking(s, gone), Lets(Lacking(s, gone), modes, names))
<1> DEFINE S == Lets(s, modes, names)
           t == Among(s, S)
           r == Lacking(s, gone)
           A == ToSet(t) \ gone
           B == Lets(r, modes, names)
           G == ToSet(s) \ gone
<1>1. S \subseteq ToSet(s) /\ t = Among(s, S) /\ r = Among(s, G) /\ Lacking(t, gone) = Among(t, A)
  BY DEF Lets, Lacking
<1>2. ToSet(t) = S
  <2> HIDE DEF S, t
  <2>1. ToSet(Among(s, S)) = ToSet(s) \cap S
    BY Some
  <2> QED BY <1>1, <2>1
<1>3. ToSet(r) = G
  <2>1. G \subseteq ToSet(s)
    OBVIOUS
  <2> HIDE DEF G, r
  <2>2. ToSet(Among(s, G)) = ToSet(s) \cap G
    BY Some
  <2> QED BY <1>1, <2>1, <2>2
<1>4. ToSet(s) \cap (S \cap A) = ToSet(s) \cap (G \cap B)
  BY <1>2, <1>3 DEF Lets
<1> HIDE DEF A, B, G, S, t, r
<1>5. Among(t, A) = Among(s, S \cap A)
  BY <1>1, AmongAmong
<1>6. Among(r, B) = Among(s, G \cap B)
  BY <1>1, AmongAmong
<1> DEFINE X == S \cap A
           Y == G \cap B
<1>7. ToSet(s) \cap X = ToSet(s) \cap Y
  BY <1>4
<1> HIDE DEF X, Y
<1>8. Among(s, X) = Among(s, Y)
  BY <1>7, AmongSame
<1>9. Lacking(t, gone) = Among(r, B)
  BY <1>1, <1>5, <1>6, <1>8 DEF X, Y
<1> QED BY <1>9 DEF t, r, B, S

LEMMA RecvDeleteKeeps ==
  ASSUME AreaInv, RecvDelete, Nests
  PROVE  AreaInv'
<1> DEFINE m == view.clicked
           s == stored
           t == view.shown
<1>1. /\ UserMayAct /\ Delete(m) /\ view.barIdx > 0 /\ UNCHANGED <<handlers, mode, hidden>>
      /\ view' = DecCount(DeleteRow(ClearDisplayed(view)))
      /\ stored' = DeleteMsg(stored, m) /\ reported' = DeleteMsg(reported, m)
  BY DEF RecvDelete, DeleteEnabled, MsgSelected, Delete
<1>2. IInv' /\ Sound(view) /\ mode' \subseteq Modes /\ hidden' \in Filters \cup {{}}
  BY <1>1, DeleteKeeps DEF AreaInv
<1>3. /\ s \in Seq(Message) /\ reported \in Seq(Message) /\ t \in Seq(Message)
      /\ ToSet(reported) \subseteq ToSet(s) /\ ToSet(t) \subseteq ToSet(s)
      /\ \A x, y \in ToSet(s) : x.num = y.num => x = y
      /\ ~nested => reported = s /\ t = Among(s, Listable)
  BY <1>1, Idle
<1>4. m \in ToSet(t) /\ Sound(view') /\ view'.shown = Among(t, ToSet(t) \ {m})
  BY <1>1, <1>2, RowDeleted
<1> HIDE DEF m
<1>5. stored' = Among(s, ToSet(s) \ {m})
  <2> DEFINE S == ToSet(s)
  <2>1. S = ToSet(s) /\ m \in S /\ ToSet(s) \subseteq S /\ \A x, y \in S : x.num = y.num => x = y
    BY <1>3, <1>4
  <2> HIDE DEF S
  <2>2. DeleteMsg(s, m) = Among(s, ToSet(s) \ {m})
    BY <1>3, <2>1, OneTaken
  <2> QED BY <1>1, <2>2
<1> HIDE DEF s, t
<1>6. /\ ToSet(stored') = ToSet(s) \ {m} /\ ToSet(view'.shown) = ToSet(t) \ {m}
  <2> DEFINE A == ToSet(s) \ {m}
             B == ToSet(t) \ {m}
  <2>1. A \subseteq ToSet(s) /\ B \subseteq ToSet(t) /\ stored' = Among(s, A) /\ view'.shown = Among(t, B)
    BY <1>4, <1>5
  <2> HIDE DEF A, B
  <2>2. ToSet(Among(s, A)) = ToSet(s) \cap A /\ ToSet(Among(t, B)) = ToSet(t) \cap B
    BY <1>3, Some
  <2>3. ToSet(stored') = A /\ ToSet(view'.shown) = B
    BY <2>1, <2>2
  <2> QED BY <2>3 DEF A, B
<1>7. ToSet(view'.shown) \subseteq ToSet(stored') \cup ToSet(reported')
  BY <1>3, <1>6
<1>8. ASSUME ~nested PROVE reported' = stored' /\ view'.shown = Among(reported', Listable')
  <2> DEFINE gone == {m}
             r == stored'
  <2>1. reported' = r /\ Listable = Lets(s, mode, hidden)
    BY <1>1, <1>3, <1>8 DEF Listable, Lets, s
  <2>2. /\ r = Lacking(s, gone) /\ view'.shown = Lacking(t, gone)
        /\ t = Among(s, Lets(s, mode, hidden))
    BY <1>3, <1>4, <1>5, <1>8, <2>1 DEF Lacking
  <2>3. Listable' = Lets(r, mode, hidden)
    BY <1>1, <2>1 DEF Listable, Lets
  <2> HIDE DEF gone, r
  <2>4. Lacking(t, gone) = Among(r, Lets(r, mode, hidden))
    BY <1>3, <2>2, BothLessened
  <2> QED BY <2>1, <2>2, <2>3, <2>4 DEF r
<1> QED BY <1>1, <1>2, <1>4, <1>7, <1>8, IdleAfter

LEMMA RecvClearKeeps ==
  ASSUME AreaInv, RecvClear, Nests
  PROVE  AreaInv'
<1> DEFINE s == stored
           t == view.shown
           gone == ToSet(t)
<1>1. /\ UserMayAct /\ DeleteList(t) /\ UNCHANGED <<handlers, mode, hidden>>
      /\ view' = ClearList(view)
      /\ stored' = (IF Len(t) = Len(s) THEN <<>> ELSE DeleteMsgs(s, t))
      /\ reported' = Among(reported, ToSet(reported) \ gone)
  BY DEF RecvClear, DeleteList
<1>2. /\ s \in Seq(Message) /\ t \in Seq(Message) /\ IsInjective(s) /\ IsInjective(t)
      /\ ToSet(t) \subseteq ToSet(s)
      /\ \A x, y \in ToSet(s) : x.num = y.num => x = y
      /\ ~nested => reported = s /\ t = Among(s, Listable)
  BY <1>1, Idle
<1>3. /\ Sound(view') /\ view'.shown = <<>> /\ mode' \subseteq Modes /\ hidden' \in Filters \cup {{}}
  BY <1>1, ClearedSound DEF AreaInv
<1>4. IInv'
  <2> HIDE DEF t
  <2> QED BY <1>1, <1>2, DeleteListKeeps DEF AreaInv, s
<1>5. ToSet(view'.shown) \subseteq ToSet(stored') \cup ToSet(reported')
  BY <1>3 DEF ToSet
<1>6. ASSUME ~nested PROVE reported' = stored' /\ view'.shown = Among(reported', Listable')
  <2> DEFINE S == Listable
             G == ToSet(s) \ gone
  <2>1. t = Among(s, S) /\ reported = s /\ S = Lets(s, mode, hidden)
    BY <1>2, <1>6 DEF Listable, Lets
  <2>2. reported' = Among(s, G)
    BY <1>1, <2>1
  <2> HIDE DEF s, t, S, G
  <2>3. gone = ToSet(s) \cap S
    <3>1. ToSet(Among(s, S)) = ToSet(s) \cap S
      BY <1>2, Some
    <3> QED BY <2>1, <3>1
  <2>4. stored' = Among(s, G)
    <3>1. CASE Len(t) = Len(s)
      <4>1. gone = ToSet(s)
        BY <1>2, <3>1, SameLength
      <4> DEFINE e == {}
      <4>2. ToSet(s) \cap G = ToSet(s) \cap e
        BY <4>1 DEF G
      <4> HIDE DEF e
      <4>3. Among(s, G) = Among(s, e)
        BY <4>2, AmongSame
      <4>4. Among(s, e) = <<>>
        BY <1>2, NoneTaken DEF e
      <4> QED BY <1>1, <3>1, <4>3, <4>4 DEF s, t
    <3>2. CASE Len(t) # Len(s)
      <4> DEFINE A == ToSet(s) \ S
      <4>1. DeleteMsgs(s, Among(s, S)) = Among(s, A)
        BY <1>2, WalkFindsAll
      <4>2. ToSet(s) \cap A = ToSet(s) \cap G
        BY <2>3 DEF G
      <4> HIDE DEF A
      <4>3. Among(s, A) = Among(s, G)
        BY <4>2, AmongSame
      <4>4. stored' = DeleteMsgs(s, t)
        BY <1>1, <3>2 DEF s, t
      <4> QED BY <2>1, <4>1, <4>3, <4>4
    <3> QED BY <3>1, <3>2
  <2> DEFINE r == stored'
             g == gone
  <2>5. r = Lacking(s, g) /\ t = Among(s, Lets(s, mode, hidden)) /\ g = ToSet(t)
    BY <2>1, <2>4 DEF G, S, Lacking
  <2>6. Listable' = Lets(r, mode, hidden) /\ reported' = r
    BY <1>1, <2>2, <2>4 DEF Listable, Lets
  <2> HIDE DEF r, g
  <2>7. Lacking(t, g) = Among(r, Lets(r, mode, hidden))
    BY <1>2, <2>5, BothLessened
  <2>8. Lacking(t, g) = <<>>
    <3>1. ToSet(t) \ g = {}
      BY <2>5
    <3> QED BY <1>2, <3>1, NoneTaken DEF Lacking
  <2> QED BY <1>3, <2>6, <2>7, <2>8 DEF r
<1> QED BY <1>1, <1>3, <1>4, <1>5, <1>6, IdleAfter

LEMMA RecvLoadKeeps ==
  ASSUME AreaInv, NEW msgs \in Files, RecvLoad(msgs), Nests
  PROVE  AreaInv'
<1> DEFINE v == ClearList(view)
           w == AllAdded(v, msgs)
<1>1. /\ UserMayAct /\ Load(msgs) /\ UNCHANGED <<handlers, mode, hidden>>
      /\ view' = w /\ stored' = msgs /\ reported' = msgs
  BY DEF RecvLoad, Load
<1>2. IInv /\ IInv' /\ mode' \subseteq Modes /\ hidden' \in Filters \cup {{}}
  BY <1>1, LoadKeeps DEF AreaInv
<1>3. msgs \in Seq(Message) /\ IsInjective(msgs)
  <2>1. stored' \in Seq(Message) /\ IsInjective(stored')
    BY <1>2 DEF IInv, TypeOK, NumbersIdentify
  <2> QED BY <1>1, <2>1
<1>4. Sound(v) /\ v.shown = <<>>
  BY ClearedSound DEF AreaInv
<1> HIDE DEF v
<1>5. w = AllAdded(v, msgs)
  OBVIOUS
<1> HIDE DEF w
<1> DEFINE L == {m \in ToSet(msgs) : CanAdd(m, mode, hidden)}
<1>6. Sound(w) /\ w.shown = Among(msgs, L)
  BY <1>3, <1>4, <1>5, AllAreAdded
<1>7. Listable' = L
  BY <1>1 DEF Listable
<1> HIDE DEF L
<1>8. ToSet(Among(msgs, L)) \subseteq ToSet(msgs)
  <2>1. ToSet(Among(msgs, L)) = ToSet(msgs) \cap L
    BY <1>3, Some
  <2> QED BY <2>1
<1>9. /\ Sound(view') /\ ToSet(view'.shown) \subseteq ToSet(stored') \cup ToSet(reported')
      /\ reported' = stored' /\ view'.shown = Among(reported', Listable')
  BY <1>1, <1>6, <1>7, <1>8
<1> QED BY <1>1, <1>2, <1>9, IdleAfter

-----------------------------------------------------------------------------
(* refreshRecvList() after what may be listed has changed.                   *)
LEMMA RefreshKeeps ==
  ASSUME AreaInv, UserMayAct, UNCHANGED msgMgrVars, mode' \subseteq Modes,
         hidden' \in Filters \cup {{}}, view' = Refresh(view, stored, mode', hidden'), Nests
  PROVE  AreaInv'
<1> DEFINE modes == mode'
           names == hidden'
           w == view'
           L == {m \in ToSet(stored) : CanAdd(m, modes, names)}
<1>1. IInv'
  BY StaysSame DEF AreaInv, IInv, TypeOK, msgMgrVars
<1>2. stored \in Seq(Message) /\ IsInjective(stored) /\ (~nested => reported = stored)
  BY Idle
<1>3. Sound(view) /\ w = Refresh(view, stored, modes, names)
  BY DEF AreaInv
<1> HIDE DEF modes, names, w
<1>4. Sound(w) /\ w.shown = Among(stored, L)
  BY <1>2, <1>3, Refreshed
<1>5. UNCHANGED <<stored, reported, handlers>>
  BY DEF msgMgrVars
<1>6. ~nested => Listable' = L
  BY <1>2, <1>5 DEF Listable, modes, names
<1> HIDE DEF L
<1>7. ToSet(Among(stored, L)) \subseteq ToSet(stored)
  <2>1. ToSet(Among(stored, L)) = ToSet(stored) \cap L
    BY <1>2, Some
  <2> QED BY <2>1
<1>8. /\ Sound(view') /\ ToSet(view'.shown) \subseteq ToSet(stored') \cup ToSet(reported')
      /\ ~nested => reported' = stored' /\ view'.shown = Among(reported', Listable')
  BY <1>2, <1>4, <1>5, <1>6, <1>7 DEF w
<1> QED BY <1>1, <1>5, <1>8, IdleAfter

LEMMA ToggleKeeps ==
  ASSUME AreaInv, NEW flag \in Toggles, Toggle(flag), Nests
  PROVE  AreaInv'
<1>1. /\ UserMayAct /\ UNCHANGED <<msgMgrVars, hidden>>
      /\ mode' = (IF flag \in mode THEN mode \ {flag} ELSE mode \cup {flag})
      /\ view' = Refresh(view, stored, mode', hidden')
  BY DEF Toggle
<1>2. mode' \subseteq Modes /\ hidden' \in Filters \cup {{}}
  BY <1>1, RecvAreaAssumption DEF AreaInv, Modes
<1> QED BY <1>1, <1>2, RefreshKeeps

LEMMA SetFilterKeeps ==
  ASSUME AreaInv, NEW names \in Filters \cup {{}}, SetFilter(names), Nests
  PROVE  AreaInv'
<1>1. /\ UserMayAct /\ UNCHANGED <<msgMgrVars, mode>> /\ hidden' = names
      /\ view' = IF "ApplyFilter" \in mode THEN Refresh(view, stored, mode, names) ELSE view
  BY DEF SetFilter
<1>2. mode' \subseteq Modes /\ hidden' \in Filters \cup {{}}
  BY <1>1 DEF AreaInv
<1>3. CASE "ApplyFilter" \in mode
  <2>1. view' = Refresh(view, stored, mode', hidden')
    BY <1>1, <1>3
  <2> QED BY <1>1, <1>2, <2>1, RefreshKeeps
<1>4. CASE "ApplyFilter" \notin mode
  <2>1. IInv'
    BY <1>1, StaysSame DEF AreaInv, IInv, TypeOK, msgMgrVars
  <2>2. UNCHANGED <<view, stored, reported, handlers>>
    BY <1>1, <1>4 DEF msgMgrVars
  <2>3. Listable' = Listable
    BY <1>1, <1>4, <2>2 DEF Listable, CanAdd
  <2>4. /\ Sound(view') /\ ToSet(view'.shown) \subseteq ToSet(stored') \cup ToSet(reported')
        /\ ~nested => reported' = stored' /\ view'.shown = Among(reported', Listable')
    BY <1>1, <2>2, <2>3, Idle DEF AreaInv
  <2> QED BY <1>1, <1>2, <2>1, <2>2, <2>4, IdleAfter
<1> QED BY <1>3, <1>4

LEMMA ReplugKeeps ==
  ASSUME AreaInv, Replug, Nests
  PROVE  AreaInv'
<1>1. /\ UserMayAct /\ Reset /\ UNCHANGED <<handlers, mode, hidden>> /\ view' = ClearList(view)
      /\ stored' = <<>> /\ reported' = <<>>
  BY DEF Replug, Reset
<1>2. IInv' /\ mode' \subseteq Modes /\ hidden' \in Filters \cup {{}}
  BY <1>1, ResetKeeps DEF AreaInv
<1>3. Sound(view') /\ view'.shown = <<>>
  BY <1>1, ClearedSound DEF AreaInv
<1>4. /\ ToSet(view'.shown) \subseteq ToSet(stored') \cup ToSet(reported')
      /\ reported' = stored' /\ view'.shown = Among(reported', Listable')
  BY <1>1, <1>3, AmongNone DEF ToSet
<1> QED BY <1>1, <1>2, <1>3, <1>4, IdleAfter

LEMMA AreaStepKeeps == AreaInv /\ [AreaStep]_vars => AreaInv'
<1> SUFFICES ASSUME AreaInv, [AreaStep]_vars PROVE AreaInv'
  OBVIOUS
<1>1. CASE AreaStep
  <2>1. Nests /\ AreaNext
    BY <1>1 DEF AreaStep, Nests
  <2>2. CASE Silent /\ UNCHANGED <<mode, hidden, view>>
    BY <2>1, <2>2, SilentAreaKeeps
  <2>3. ASSUME NEW m, Arrives(m) PROVE AreaInv'
    BY <2>1, <2>3, ArrivesKeeps
  <2>4. CASE PendingTimeout
    BY <2>1, <2>4, TimeoutKeeps
  <2>5. ASSUME NEW k \in DOMAIN view.shown, ClickRow(k) PROVE AreaInv'
    BY <2>1, <2>5, ClickRowKeeps
  <2>6. CASE ClickSend \/ DropSend
    BY <2>1, <2>6, SendListKeeps
  <2>7. CASE RecvDelete
    BY <2>1, <2>7, RecvDeleteKeeps
  <2>8. CASE RecvClear
    BY <2>1, <2>8, RecvClearKeeps
  <2>9. CASE Replug
    BY <2>1, <2>9, ReplugKeeps
  <2>10. ASSUME NEW msgs \in Files, RecvLoad(msgs) PROVE AreaInv'
    BY <2>1, <2>10, RecvLoadKeeps
  <2>11. ASSUME NEW flag \in Toggles, Toggle(flag) PROVE AreaInv'
    BY <2>1, <2>11, ToggleKeeps
  <2>12. ASSUME NEW names \in Filters \cup {{}}, SetFilter(names) PROVE AreaInv'
    BY <2>1, <2>12, SetFilterKeeps
  <2> QED BY <2>1, <2>2, <2>3, <2>4, <2>5, <2>6, <2>7, <2>8, <2>9, <2>10, <2>11, <2>12 DEF AreaNext
<1>2. CASE UNCHANGED vars
  <2>1. IInv'
    BY <1>2, StaysSame DEF AreaInv, IInv, TypeOK, vars
  <2> QED BY <1>2, <2>1 DEF AreaInv, InOrder, Known, Top, Listable, vars
<1> QED BY <1>1, <1>2

LEMMA AreaInductive == AreaSpec => []AreaInv
BY AreaStarts, AreaStepKeeps, PTL DEF AreaSpec

-----------------------------------------------------------------------------
(* The variables of the receive area have their types, the rows, the         *)
(* selection and the throttle of the pane included.                          *)
THEOREM AreaTypeCorrect == AreaSpec => []AreaTypeOK
<1>1. AreaInv => AreaTypeOK
  BY DEF AreaInv, AreaTypeOK, IInv, Sound, Selected
<1> QED BY <1>1, AreaInductive, PTL

(* List widget, tool bar, pane and GuiAppMgr agree on the selected message   *)
(* after any clicks, arrivals, refreshes and deletions.                      *)
THEOREM SelectionAgrees == AreaSpec => []SelectionIsOne
<1>1. AreaInv => SelectionIsOne
  BY RecvAreaAssumption DEF AreaInv, SelectionIsOne, Sound, Selected
<1> QED BY <1>1, AreaInductive, PTL

(* While the user may act every row stands for a message the manager has, so *)
(* that deleting it cannot run into Deleting_non_existing_message.           *)
THEOREM RowsCanBeDeleted == AreaSpec => []ShownAreStored
<1>1. AreaInv => ShownAreStored
  BY Idle DEF ShownAreStored
<1> QED BY <1>1, AreaInductive, PTL

(* As long as no handler has run inside another one, the rows are exactly    *)
(* the stored messages the modes and the filter let through.                 *)
THEOREM RowsAreTheStore == AreaSpec => []ListShowsStore
<1>1. AreaInv => ListShowsStore
  <2> SUFFICES ASSUME AreaInv, UserMayAct, ~nested
               PROVE  ToSet(view.shown) = {m \in ToSet(stored) : CanAdd(m, mode, hidden)}
    BY DEF ListShowsStore
  <2>1. stored \in Seq(Message) /\ reported = stored /\ view.shown = Among(stored, Listable)
    BY Idle
  <2> DEFINE L == Listable
  <2> HIDE DEF L
  <2>2. ToSet(Among(stored, L)) = ToSet(stored) \cap L
    BY <2>1, Some
  <2> QED BY <2>1, <2>2 DEF L, Listable
<1> QED BY <1>1, AreaInductive, PTL

(* A selected message keeps its row and the pane in every step that does not *)
(* change the selection.                                                     *)
THEOREM SelectionIsPinned == AreaSpec => SelectionPinsPane
<1> DEFINE Pinned == view.clicked # NoMsg /\ view'.clicked = view.clicked =>
                       view'.pane = view.pane /\ view'.row = view.row
<1>1. ASSUME NEW v, Sound(v), v.clicked # NoMsg
      PROVE  v.pane = v.clicked /\ v.row = IF v.clicked = SendItem THEN NoMsg ELSE v.clicked
  <2>1. v.selType \in {"Recv", "Send"}
    BY <1>1, Viewed DEF Sound, Selected
  <2> QED BY <1>1, <2>1 DEF Sound, Selected
<1>2. AreaInv /\ AreaInv' => Pinned
  BY <1>1 DEF AreaInv
<1>3. AreaInv /\ AreaInv' => [Pinned]_vars
  BY <1>2
<1> QED BY <1>3, AreaInductive, PTL DEF SelectionPinsPane
=============================================================================
