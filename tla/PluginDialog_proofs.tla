------------------------ MODULE PluginDialog_proofs --------------------------
(***************************************************************************)
(* What TLAPS proves of the dialog that chooses plug-ins and of applying     *)
(* them (PluginDialog, as UserInterface composes it), for every plug-in      *)
(* there is and every list of chosen ones.  The invariant is PluginsRuns:    *)
(* the record of the dialog is sound, its lists of each type are those of    *)
(* the configuration widgets, and what was applied is what the managers      *)
(* hold.  The lemmas about lists and bisection come first; the proofs of     *)
(* the filter dialog (UserInterface_proofs) use them too.                     *)
(***************************************************************************)
EXTENDS UserInterface, Lists, SequencesExt, SequenceTheorems, FiniteSetTheorems,
        NaturalsInduction, WellFoundedInduction, TLAPS

-----------------------------------------------------------------------------
(* Numbers, and what a bisection ends at.                                    *)
LEMMA NatLess == IsWellFoundedOn({ss \in Nat \X Nat : ss[1] < ss[2]}, Nat)
BY NatLessThanWellFounded, Zenon DEF OpToRel

LEMMA Least ==
  ASSUME NEW T, T \subseteq Nat, T # {}
  PROVE  \E x \in T : \A y \in T : x <= y
<1> DEFINE R == {ss \in Nat \X Nat : ss[1] < ss[2]}
<1>1. IsWellFoundedOn(R, Nat)
  BY NatLess
<1>2. \A a, b \in Nat : a < b => <<a, b>> \in R
  OBVIOUS
<1> HIDE DEF R
<1>3. PICK x \in T : \A y \in T : <<y, x>> \notin R
  BY <1>1, WFMin, Zenon
<1>4. ASSUME NEW y \in T PROVE x <= y
  <2>1. x \in Nat /\ y \in Nat
    OBVIOUS
  <2>2. ~(y < x)
    BY <1>2, <1>3, <2>1
  <2> QED BY <2>1, <2>2
<1> QED BY <1>4

(* Induction, over a set of numbers.                                         *)
LEMMA Upwards ==
  ASSUME NEW T, 0 \in T, \A n \in Nat : n \in T => n + 1 \in T
  PROVE  \A n \in Nat : n \in T
<1> SUFFICES ASSUME NEW n \in Nat, n \notin T PROVE FALSE
  OBVIOUS
<1> DEFINE M == {k \in Nat : k \notin T}
<1>1. M \subseteq Nat /\ M # {}
  OBVIOUS
<1>2. PICK x \in M : \A y \in M : x <= y
  BY <1>1, Least
<1>3. x \in Nat /\ x # 0 /\ x \notin T
  OBVIOUS
<1>4. x - 1 \in Nat /\ x - 1 \notin M
  BY <1>2, <1>3
<1>5. (x - 1) + 1 \in T
  BY <1>4
<1> QED BY <1>3, <1>5


(* A bisection ends between a place on the left and one that is not.         *)
Stage(end, n, before, k) ==
  [first \in 1 .. n + 1 - k |->
     LET half == k \div 2
     IN  IF k = 0 THEN first
         ELSE IF first + half \in before THEN end[k - half - 1][first + half + 1]
         ELSE end[half][first]]

LEMMA Halves ==
  ASSUME NEW k \in Nat, k # 0
  PROVE  k \div 2 \in 0 .. k - 1 /\ k - (k \div 2) - 1 \in 0 .. k - 1
OBVIOUS

LEMMA StagesExist ==
  ASSUME NEW n \in Nat, NEW before
  PROVE  \E end : end = [k \in 0 .. n |-> Stage(end, n, before, k)]
<1> DEFINE Is(e, m) == e = [k \in 0 .. m |-> Stage(e, n, before, k)]
           T == {m \in Nat : \E e : Is(e, m)}
<1>1. 0 \in T
  <2> DEFINE e == [k \in 0 .. 0 |-> [first \in 1 .. n + 1 - k |-> first]]
  <2>1. \A k \in 0 .. 0 : Stage(e, n, before, k) = [first \in 1 .. n + 1 - k |-> first]
    BY DEF Stage
  <2>2. Is(e, 0)
    BY <2>1
  <2> QED BY <2>2
<1>2. ASSUME NEW m \in Nat, m \in T PROVE m + 1 \in T
  <2>1. PICK e : Is(e, m)
    BY <1>2
  <2> DEFINE g == [k \in 0 .. m + 1 |-> Stage(e, n, before, k)]
  <2>2. \A k \in 0 .. m : e[k] = g[k]
    <3>1. \A k \in 0 .. m : e[k] = Stage(e, n, before, k)
      BY <2>1
    <3> QED BY <3>1
  <2>3. ASSUME NEW k \in 0 .. m + 1 PROVE Stage(e, n, before, k) = Stage(g, n, before, k)
    <3> HIDE DEF g
    <3>1. CASE k = 0
      BY <3>1 DEF Stage
    <3>2. CASE k # 0
      <4> DEFINE half == k \div 2
                 left == k - half - 1
      <4>1. half \in 0 .. m /\ left \in 0 .. m
        BY <3>2, Halves
      <4>2. e[half] = g[half] /\ e[left] = g[left]
        BY <2>2, <4>1
      <4> QED BY <3>2, <4>2 DEF Stage
    <3> QED BY <3>1, <3>2
  <2>4. g = [k \in 0 .. m + 1 |-> Stage(g, n, before, k)]
    <3> DEFINE h == [k \in 0 .. m + 1 |-> Stage(g, n, before, k)]
    <3> HIDE DEF g
    <3>1. g = [k \in 0 .. m + 1 |-> Stage(e, n, before, k)]
      BY DEF g
    <3> QED BY <2>3, <3>1
  <2> HIDE DEF g
  <2>5. Is(g, m + 1)
    BY <2>4
  <2> QED BY <2>5
<1> HIDE DEF T
<1>3. n \in T
  BY <1>1, <1>2, Upwards
<1> QED BY <1>3 DEF T

LEMMA BisectEnds ==
  ASSUME NEW n \in Nat, NEW before
  PROVE  /\ Bisect(n, before) \in 1 .. n + 1
         /\ Bisect(n, before) > 1 => Bisect(n, before) - 1 \in before
         /\ Bisect(n, before) <= n => Bisect(n, before) \notin before
<1> DEFINE end == CHOOSE e : e = [k \in 0 .. n |-> Stage(e, n, before, k)]
           Right(first, k, r) ==
             /\ r \in first .. first + k
             /\ r > first => r - 1 \in before
             /\ r < first + k => r \notin before
           M == {k \in 0 .. n : ~ \A first \in 1 .. n + 1 - k : Right(first, k, end[k][first])}
<1>1. end = [k \in 0 .. n |-> Stage(end, n, before, k)]
  BY StagesExist
<1>2. Bisect(n, before) = end[n][1]
  BY DEF Bisect, Stage
<1> HIDE DEF end
<1>3. M = {}
  <2> SUFFICES ASSUME M # {} PROVE FALSE
    OBVIOUS
  <2>1. PICK k \in M : \A j \in M : k <= j
    <3>1. M \subseteq Nat
      OBVIOUS
    <3> HIDE DEF M
    <3> QED BY <3>1, Least
  <2>2. PICK first \in 1 .. n + 1 - k : ~Right(first, k, end[k][first])
    OBVIOUS
  <2>3. end[k] = Stage(end, n, before, k) /\ k \in 0 .. n
    BY <1>1
  <2>4. k # 0
    <3> SUFFICES ASSUME k = 0 PROVE FALSE
      OBVIOUS
    <3>1. end[k][first] = first
      BY <2>3 DEF Stage
    <3> QED BY <2>2, <3>1
  <2> DEFINE half == k \div 2
             left == k - half - 1
             next == first + half + 1
  <2>5. half \in 0 .. k - 1 /\ left \in 0 .. k - 1 /\ half + 1 + left = k
    BY <2>3, <2>4, Halves
  <2>6. ASSUME NEW j \in 0 .. k - 1, NEW f \in 1 .. n + 1 - j PROVE Right(f, j, end[j][f])
    <3>1. j \notin M /\ j \in 0 .. n
      BY <2>1, <2>3
    <3> QED BY <3>1
  <2>7. CASE first + half \in before
    <3>1. end[k][first] = end[left][next]
      BY <2>3, <2>4, <2>7 DEF Stage
    <3> HIDE DEF half, left
    <3>2. next \in 1 .. n + 1 - left
      BY <2>3, <2>5
    <3>3. Right(next, left, end[left][next])
      <4> HIDE DEF Right, next
      <4> QED BY <2>5, <2>6, <3>2
    <3> DEFINE r == end[left][next]
    <3>4. r \in next .. next + left /\ (r > next => r - 1 \in before) /\ (r < next + left => r \notin before)
      BY <3>3
    <3> HIDE DEF r
    <3>5. Right(first, k, r)
      BY <2>3, <2>5, <2>7, <3>4
    <3> QED BY <2>2, <3>1, <3>5 DEF r
  <2>8. CASE first + half \notin before
    <3>1. end[k][first] = end[half][first]
      BY <2>3, <2>4, <2>8 DEF Stage
    <3> HIDE DEF half, left
    <3>2. first \in 1 .. n + 1 - half
      BY <2>3, <2>5
    <3>3. Right(first, half, end[half][first])
      <4> HIDE DEF Right
      <4> QED BY <2>5, <2>6, <3>2
    <3> DEFINE r == end[half][first]
    <3>4. r \in first .. first + half /\ (r > first => r - 1 \in before) /\ (r < first + half => r \notin before)
      BY <3>3
    <3> HIDE DEF r
    <3>5. Right(first, k, r)
      BY <2>3, <2>5, <2>8, <3>4
    <3> QED BY <2>2, <3>1, <3>5 DEF r
  <2> QED BY <2>7, <2>8
<1>4. Right(1, n, end[n][1])
  BY <1>3
<1> QED BY <1>2, <1>4

-----------------------------------------------------------------------------
(* What is kept of a list.                                                   *)
(* Lists of which no element comes twice.                                    *)
Distinct(s) == \A i, j \in 1..Len(s) : s[i] = s[j] => i = j

(* The numbers of a finite set in their order.                               *)
LEMMA Ranks ==
  ASSUME NEW K, K \subseteq Nat, IsFiniteSet(K)
  PROVE  /\ Cardinality(K) \in Nat
         /\ \E at \in [1 .. Cardinality(K) -> K] :
              /\ \A m \in 1 .. Cardinality(K) : at[m] = CHOOSE k \in K : Cardinality({i \in K : i <= k}) = m
              /\ \A k \in K : \E m \in 1 .. Cardinality(K) : at[m] = k
              /\ \A m, l \in 1 .. Cardinality(K) : m < l => at[m] < at[l]
<1> DEFINE upto(k) == {i \in K : i <= k}
           rank == [k \in K |-> Cardinality(upto(k))]
           c == Cardinality(K)
           at == [m \in 1 .. c |-> CHOOSE k \in K : Cardinality(upto(k)) = m]
<1>1. c \in Nat
  BY FS_CardinalityType
<1>2. ASSUME NEW k \in K
      PROVE  IsFiniteSet(upto(k)) /\ Cardinality(upto(k)) \in 1..c
  <2>1. upto(k) \in SUBSET K /\ k \in upto(k)
    OBVIOUS
  <2>2. IsFiniteSet(upto(k)) /\ Cardinality(upto(k)) <= c
    BY <2>1, FS_Subset
  <2>3. Cardinality(upto(k)) \in Nat /\ Cardinality(upto(k)) # 0
    BY <2>1, <2>2, FS_CardinalityType, FS_EmptySet
  <2> QED BY <1>1, <2>2, <2>3
<1>3. ASSUME NEW k \in K, NEW l \in K, k < l PROVE Cardinality(upto(k)) < Cardinality(upto(l))
  <2>1. upto(k) \in SUBSET upto(l) /\ l \in upto(l) /\ l \notin upto(k)
    <3>1. k \in Nat /\ l \in Nat /\ \A i \in K : i \in Nat
      OBVIOUS
    <3>2. \A i \in K : i <= k => i <= l
      BY <1>3, <3>1
    <3>3. l <= l /\ ~(l <= k)
      BY <1>3, <3>1
    <3> QED BY <3>2, <3>3
  <2>2. Cardinality(upto(k)) <= Cardinality(upto(l)) /\ Cardinality(upto(k)) # Cardinality(upto(l))
    BY <1>2, <2>1, FS_Subset
  <2> QED BY <1>2, <2>2
<1>4. ASSUME NEW k \in K, NEW l \in K, Cardinality(upto(k)) = Cardinality(upto(l)) PROVE k = l
  <2>1. k \in Nat /\ l \in Nat /\ Cardinality(upto(k)) \in Nat /\ Cardinality(upto(l)) \in Nat
    BY <1>2
  <2>2. ~(k < l) /\ ~(l < k)
    <3> HIDE DEF upto
    <3> QED BY <1>3, <1>4, <2>1
  <2> QED BY <2>1, <2>2
<1>5. rank \in Injection(K, 1..c)
  <2> HIDE DEF upto
  <2> QED BY <1>2, <1>4 DEF Injection, IsInjective
<1>6. IsFiniteSet(1..c) /\ Cardinality(1..c) = c
  BY <1>1, FS_Interval
<1>7. rank \in Surjection(K, 1..c)
  <2> HIDE DEF rank
  <2> QED BY <1>5, <1>6, FS_Injection
<1>8. ASSUME NEW m \in 1..c PROVE \E k \in K : Cardinality(upto(k)) = m
  <2>1. PICK k \in K : rank[k] = m
    BY <1>7 DEF Surjection
  <2> QED BY <2>1
<1> HIDE DEF upto, c
<1>9. \A m \in 1 .. c : at[m] \in K /\ Cardinality(upto(at[m])) = m
  BY <1>8
<1>10. ASSUME NEW k \in K PROVE \E m \in 1 .. c : at[m] = k
  <2>1. Cardinality(upto(k)) \in 1 .. c
    BY <1>2
  <2> QED BY <1>4, <1>9, <2>1
<1>11. ASSUME NEW m \in 1 .. c, NEW l \in 1 .. c, m < l PROVE at[m] < at[l]
  <2>1. at[m] \in K /\ at[l] \in K /\ at[m] \in Nat /\ at[l] \in Nat
    BY <1>9
  <2> DEFINE a == at[m]
             b == at[l]
  <2>2. Cardinality(upto(a)) = m /\ Cardinality(upto(b)) = l /\ m \in Nat /\ l \in Nat
    BY <1>1, <1>9
  <2> HIDE DEF a, b, at
  <2>3. ~(b < a) /\ a # b
    BY <1>3, <1>11, <2>1, <2>2 DEF a, b
  <2> QED BY <2>1, <2>3 DEF a, b
<1>12. at \in [1 .. c -> K]
  BY <1>9
<1>13. \A m \in 1 .. c : at[m] = CHOOSE k \in K : Cardinality(upto(k)) = m
  OBVIOUS
<1> HIDE DEF at
<1> QED BY <1>1, <1>10, <1>11, <1>12, <1>13 DEF c, upto

Rising(s) == \A i, j \in 1 .. Len(s) : i < j => s[i] < s[j]

(* Taking some positions of a sequence.                                      *)
Picking(at, s, K) ==
  /\ at \in [1 .. Cardinality(K) -> K]
  /\ \A m \in 1 .. Cardinality(K) : AtPositions(s, K)[m] = s[at[m]]
  /\ \A k \in K : \E m \in 1 .. Cardinality(K) : at[m] = k
  /\ \A m, l \in 1 .. Cardinality(K) : m < l => at[m] < at[l]

LEMMA Positions ==
  ASSUME NEW M, NEW s \in Seq(M), NEW K \in SUBSET (1 .. Len(s))
  PROVE  /\ AtPositions(s, K) \in Seq(M) /\ Len(AtPositions(s, K)) = Cardinality(K)
         /\ \E at : Picking(at, s, K)
<1> DEFINE c == Cardinality(K)
<1>1. Len(s) \in Nat /\ IsFiniteSet(K) /\ K \subseteq Nat
  <2>1. Len(s) \in Nat /\ Len(s) \in Int /\ 1 \in Int
    BY LenProperties
  <2>2. IsFiniteSet(1 .. Len(s))
    BY <2>1, FS_Interval
  <2>3. IsFiniteSet(K)
    BY <2>2, FS_Subset
  <2> QED BY <2>1, <2>3
<1>2. c \in Nat /\ \E at \in [1 .. c -> K] :
        /\ \A m \in 1 .. c : at[m] = CHOOSE k \in K : Cardinality({i \in K : i <= k}) = m
        /\ \A k \in K : \E m \in 1 .. c : at[m] = k
        /\ \A m, l \in 1 .. c : m < l => at[m] < at[l]
  BY <1>1, Ranks
<1>3. PICK at \in [1 .. c -> K] :
        /\ \A m \in 1 .. c : at[m] = CHOOSE k \in K : Cardinality({i \in K : i <= k}) = m
        /\ \A k \in K : \E m \in 1 .. c : at[m] = k
        /\ \A m, l \in 1 .. c : m < l => at[m] < at[l]
  BY <1>2
<1>4. AtPositions(s, K) = [m \in 1 .. c |-> s[at[m]]]
  <2>1. AtPositions(s, K) = [m \in 1 .. c |-> s[CHOOSE k \in K : Cardinality({i \in K : i <= k}) = m]]
    BY DEF AtPositions
  <2> QED BY <1>3, <2>1
<1> HIDE DEF c
<1>5. \A m \in 1 .. c : s[at[m]] \in M
  <2>1. \A m \in 1 .. c : at[m] \in 1 .. Len(s)
    OBVIOUS
  <2> QED BY <2>1
<1>6. AtPositions(s, K) \in Seq(M) /\ Len(AtPositions(s, K)) = c
  BY <1>2, <1>4, <1>5
<1>7. \A m \in 1 .. c : AtPositions(s, K)[m] = s[at[m]]
  BY <1>4
<1>8. Picking(at, s, K)
  BY <1>3, <1>7 DEF Picking, c
<1> QED BY <1>6, <1>8 DEF c

(* What is kept of a list: its elements, each once, in their order.          *)
LEMMA PositionsKept ==
  ASSUME NEW M, NEW s \in Seq(M), NEW K \in SUBSET (1 .. Len(s))
  PROVE  /\ AtPositions(s, K) \in Seq(M) /\ Len(AtPositions(s, K)) \in 0 .. Len(s)
         /\ ToSet(AtPositions(s, K)) = {s[k] : k \in K}
         /\ Distinct(s) => Distinct(AtPositions(s, K))
         /\ Rising(s) => Rising(AtPositions(s, K))
<1> DEFINE t == AtPositions(s, K)
           c == Cardinality(K)
<1>1. t \in Seq(M) /\ Len(t) = c /\ c \in Nat /\ Len(s) \in Nat
  BY Positions, LenProperties
<1>0. PICK at : Picking(at, s, K)
  BY Positions
<1>2. /\ at \in [1 .. c -> K]
      /\ \A m \in 1 .. c : t[m] = s[at[m]]
      /\ \A k \in K : \E m \in 1 .. c : at[m] = k
      /\ \A m, l \in 1 .. c : m < l => at[m] < at[l]
  BY <1>0 DEF Picking
<1>3. \A m \in 1 .. c : at[m] \in K /\ at[m] \in 1 .. Len(s)
  BY <1>2
<1>4. c <= Len(s)
  <2>1. IsFiniteSet(1 .. Len(s)) /\ Cardinality(1 .. Len(s)) = Len(s)
    <3>1. Len(s) \in Int /\ 1 \in Int
      BY <1>1
    <3>2. IsFiniteSet(1 .. Len(s)) /\ Cardinality(1 .. Len(s)) = IF 1 > Len(s) THEN 0 ELSE Len(s) - 1 + 1
      BY <3>1, FS_Interval
    <3> QED BY <1>1, <3>2
  <2>2. Cardinality(K) <= Cardinality(1 .. Len(s))
    BY <2>1, FS_Subset
  <2> QED BY <2>1, <2>2
<1> HIDE DEF t, c
<1>5. DOMAIN t = 1 .. c
  BY <1>1
<1>6. ToSet(t) = {s[k] : k \in K}
  <2>1. ASSUME NEW m \in DOMAIN t PROVE t[m] \in {s[k] : k \in K}
    BY <1>2, <1>3, <1>5
  <2>2. ASSUME NEW k \in K PROVE s[k] \in {t[m] : m \in DOMAIN t}
    BY <1>2, <1>5
  <2> QED BY <2>1, <2>2 DEF ToSet
<1>7. ASSUME Rising(s) PROVE Rising(t)
  <2> SUFFICES ASSUME NEW i \in 1 .. Len(t), NEW j \in 1 .. Len(t), i < j PROVE t[i] < t[j]
    BY DEF Rising
  <2>1. at[i] < at[j] /\ at[i] \in 1 .. Len(s) /\ at[j] \in 1 .. Len(s)
    BY <1>1, <1>2, <1>3
  <2> QED BY <1>1, <1>2, <1>7, <2>1 DEF Rising
<1>8. ASSUME Distinct(s) PROVE Distinct(t)
  <2> SUFFICES ASSUME NEW i \in 1 .. Len(t), NEW j \in 1 .. Len(t), t[i] = t[j] PROVE i = j
    BY DEF Distinct
  <2>0. t[i] = s[at[i]] /\ t[j] = s[at[j]] /\ at[i] \in 1 .. Len(s) /\ at[j] \in 1 .. Len(s)
    BY <1>1, <1>2, <1>3
  <2>1. at[i] = at[j]
    BY <1>8, <2>0 DEF Distinct
  <2>2. i \in Nat /\ j \in Nat /\ at[i] \in Nat
    BY <1>1, <1>3
  <2> QED BY <1>1, <1>2, <2>1, <2>2
<1> QED BY <1>1, <1>4, <1>6, <1>7, <1>8 DEF t

LEMMA ElementsOf ==
  ASSUME NEW M, NEW s \in Seq(M)
  PROVE  ToSet(s) = {s[i] : i \in 1 .. Len(s)} /\ ToSet(s) \subseteq M /\ DOMAIN s = 1 .. Len(s) /\ Len(s) \in Nat
BY LenProperties, ElementOfSeq DEF ToSet

LEMMA AmongIs ==
  ASSUME NEW M, NEW s \in Seq(M), NEW S
  PROVE  /\ Among(s, S) \in Seq(M) /\ Len(Among(s, S)) \in 0 .. Len(s)
         /\ ToSet(Among(s, S)) = ToSet(s) \cap S
         /\ Distinct(s) => Distinct(Among(s, S))
         /\ Rising(s) => Rising(Among(s, S))
<1> DEFINE K == {k \in DOMAIN s : s[k] \in S}
<1>1. K \in SUBSET (1 .. Len(s)) /\ Among(s, S) = AtPositions(s, K)
  BY ElementsOf DEF Among
<1>2. {s[k] : k \in K} = ToSet(s) \cap S
  BY DEF ToSet
<1> HIDE DEF K
<1> QED BY <1>1, <1>2, PositionsKept

LEMMA WithoutIs ==
  ASSUME NEW M, NEW s \in Seq(M), NEW S
  PROVE  /\ Without(s, S) \in Seq(M) /\ Len(Without(s, S)) \in 0 .. Len(s)
         /\ ToSet(Without(s, S)) = ToSet(s) \ S
         /\ Distinct(s) => Distinct(Without(s, S))
         /\ Rising(s) => Rising(Without(s, S))
<1> DEFINE K == {k \in DOMAIN s : s[k] \notin S}
<1>1. K \in SUBSET (1 .. Len(s)) /\ Without(s, S) = AtPositions(s, K)
  BY ElementsOf DEF Without
<1>2. {s[k] : k \in K} = ToSet(s) \ S
  BY DEF ToSet
<1> HIDE DEF K
<1> QED BY <1>1, <1>2, PositionsKept

(* An element that is taken out of a list, and one that is moved in it.      *)
LEMMA ElementRemoved ==
  ASSUME NEW S, NEW s \in Seq(S), NEW i \in 1..Len(s)
  PROVE  /\ Send!RemoveAt(s, i) \in Seq(S) /\ Len(Send!RemoveAt(s, i)) = Len(s) - 1
         /\ \A k \in 1..(Len(s) - 1) : Send!RemoveAt(s, i)[k] = IF k < i THEN s[k] ELSE s[k + 1]
<1> DEFINE n == Len(s)
           a == i - 1
           b == i + 1
           u == SubSeq(s, 1, a)
           v == SubSeq(s, b, n)
           one == 1
<1>1. n \in Nat /\ a \in Int /\ b \in Int /\ n \in Int /\ one \in Int /\ \A k \in 1..n : s[k] \in S
  BY LenProperties, ElementOfSeq
<1> HIDE DEF n, a, b
<1>2. u \in Seq(S) /\ Len(u) = i - 1 /\ \A k \in 1..(i - 1) : u[k] = s[k]
  <2>1. \A k \in one..a : s[k] \in S
    BY <1>1 DEF a, n
  <2> HIDE DEF one
  <2>2. /\ SubSeq(s, one, a) \in Seq(S) /\ Len(SubSeq(s, one, a)) = (IF one <= a THEN a - one + 1 ELSE 0)
        /\ \A k \in 1..(a - one + 1) : SubSeq(s, one, a)[k] = s[one + k - 1]
    BY <1>1, <2>1, SubSeqProperties
  <2> QED BY <1>1, <2>2 DEF a, n, one
<1>3. v \in Seq(S) /\ Len(v) = n - i /\ \A k \in 1..(n - i) : v[k] = s[i + k]
  <2>1. \A k \in b..n : s[k] \in S
    BY <1>1 DEF b, n
  <2>2. /\ v \in Seq(S) /\ Len(v) = (IF b <= n THEN n - b + 1 ELSE 0)
        /\ \A k \in 1..(n - b + 1) : v[k] = s[b + k - 1]
    BY <1>1, <2>1, SubSeqProperties
  <2> QED BY <1>1, <2>2 DEF b, n
<1>4. Send!RemoveAt(s, i) = u \o v
  BY DEF Send!RemoveAt, a, b, n
<1> HIDE DEF u, v
<1>5. /\ u \o v \in Seq(S) /\ Len(u \o v) = Len(u) + Len(v)
      /\ \A k \in 1..(Len(u) + Len(v)) : (u \o v)[k] = IF k <= Len(u) THEN u[k] ELSE v[k - Len(u)]
  BY <1>2, <1>3, ConcatProperties
<1>6. i \in 1..n /\ Len(u) + Len(v) = n - 1
  BY <1>1, <1>2, <1>3 DEF n
<1>7. ASSUME NEW k \in 1..(n - 1) PROVE (u \o v)[k] = IF k < i THEN s[k] ELSE s[k + 1]
  <2>1. CASE k < i
    BY <1>1, <1>2, <1>5, <1>6, <2>1
  <2>2. CASE ~(k < i)
    <3> DEFINE j == k - (i - 1)
    <3>1. j \in 1..(n - i) /\ i + j = k + 1 /\ ~(k <= Len(u)) /\ j = k - Len(u)
      BY <1>1, <1>2, <1>6, <2>2
    <3> HIDE DEF j
    <3>2. (u \o v)[k] = v[j] /\ v[j] = s[k + 1]
      BY <1>3, <1>5, <1>6, <3>1
    <3> QED BY <2>2, <3>2
  <2> QED BY <2>1, <2>2
<1> QED BY <1>4, <1>5, <1>6, <1>7 DEF n

LEMMA ElementInserted ==
  ASSUME NEW S, NEW s \in Seq(S), NEW i \in 1..(Len(s) + 1), NEW e \in S
  PROVE  /\ Send!InsertAt(s, i, e) \in Seq(S) /\ Len(Send!InsertAt(s, i, e)) = Len(s) + 1
         /\ \A k \in 1..(Len(s) + 1) :
              Send!InsertAt(s, i, e)[k] = IF k < i THEN s[k] ELSE IF k = i THEN e ELSE s[k - 1]
<1> DEFINE n == Len(s)
           a == i - 1
           u == SubSeq(s, 1, a)
           v == SubSeq(s, i, n)
           w == <<e>>
           x == u \o w
           one == 1
<1>1. n \in Nat /\ a \in Int /\ i \in Int /\ n \in Int /\ one \in Int /\ \A k \in 1..n : s[k] \in S
  BY LenProperties, ElementOfSeq
<1> HIDE DEF n, a
<1>2. u \in Seq(S) /\ Len(u) = i - 1 /\ \A k \in 1..(i - 1) : u[k] = s[k]
  <2>1. \A k \in one..a : s[k] \in S
    BY <1>1 DEF a, n
  <2> HIDE DEF one
  <2>2. /\ SubSeq(s, one, a) \in Seq(S) /\ Len(SubSeq(s, one, a)) = (IF one <= a THEN a - one + 1 ELSE 0)
        /\ \A k \in 1..(a - one + 1) : SubSeq(s, one, a)[k] = s[one + k - 1]
    BY <1>1, <2>1, SubSeqProperties
  <2> QED BY <1>1, <2>2 DEF a, n, one
<1>3. v \in Seq(S) /\ Len(v) = n - i + 1 /\ \A k \in 1..(n - i + 1) : v[k] = s[i + k - 1]
  <2>1. \A k \in i..n : s[k] \in S
    BY <1>1 DEF n
  <2>2. /\ v \in Seq(S) /\ Len(v) = (IF i <= n THEN n - i + 1 ELSE 0)
        /\ \A k \in 1..(n - i + 1) : v[k] = s[i + k - 1]
    BY <1>1, <2>1, SubSeqProperties
  <2> QED BY <1>1, <2>2 DEF n
<1>4. Send!InsertAt(s, i, e) = x \o v
  BY DEF Send!InsertAt, a, n
<1>5. w \in Seq(S) /\ Len(w) = 1 /\ w[1] = e
  OBVIOUS
<1> HIDE DEF u, v, w
<1>6. /\ x \in Seq(S) /\ Len(x) = Len(u) + Len(w)
      /\ \A k \in 1..(Len(u) + Len(w)) : x[k] = IF k <= Len(u) THEN u[k] ELSE w[k - Len(u)]
  BY <1>2, <1>5, ConcatProperties
<1> HIDE DEF x
<1>7. Len(x) = i /\ x[i] = e /\ \A k \in 1..(i - 1) : x[k] = s[k]
  <2>1. Len(x) = i /\ i \in 1..(Len(u) + Len(w)) /\ ~(i <= Len(u)) /\ i - Len(u) = 1
    BY <1>1, <1>2, <1>5, <1>6 DEF n
  <2>2. x[i] = e
    BY <1>5, <1>6, <2>1
  <2>3. ASSUME NEW k \in 1..(i - 1) PROVE x[k] = s[k]
    <3>1. k \in 1..(Len(u) + Len(w)) /\ k <= Len(u)
      BY <1>1, <1>2, <1>5
    <3> QED BY <1>2, <1>6, <3>1
  <2> QED BY <2>1, <2>2, <2>3
<1>8. /\ x \o v \in Seq(S) /\ Len(x \o v) = Len(x) + Len(v)
      /\ \A k \in 1..(Len(x) + Len(v)) : (x \o v)[k] = IF k <= Len(x) THEN x[k] ELSE v[k - Len(x)]
  BY <1>3, <1>6, ConcatProperties
<1>9. i \in 1..(n + 1) /\ Len(x) + Len(v) = n + 1
  BY <1>1, <1>3, <1>7 DEF n
<1>10. ASSUME NEW k \in 1..(n + 1)
       PROVE  (x \o v)[k] = IF k < i THEN s[k] ELSE IF k = i THEN e ELSE s[k - 1]
  <2>1. CASE k < i
    <3>1. k \in 1..(i - 1) /\ k <= Len(x)
      BY <1>1, <1>7, <2>1
    <3> QED BY <1>7, <1>8, <1>9, <2>1, <3>1
  <2>2. CASE k = i
    BY <1>7, <1>8, <1>9, <2>2
  <2>3. CASE k > i
    <3> DEFINE j == k - i
    <3>1. j \in 1..(n - i + 1) /\ i + j - 1 = k - 1 /\ ~(k <= Len(x)) /\ j = k - Len(x)
      BY <1>1, <1>7, <1>9, <2>3
    <3> HIDE DEF j
    <3>2. (x \o v)[k] = v[j] /\ v[j] = s[k - 1]
      BY <1>3, <1>8, <1>9, <3>1
    <3> QED BY <2>3, <3>2
  <2> QED BY <1>1, <1>9, <2>1, <2>2, <2>3
<1> QED BY <1>4, <1>8, <1>9, <1>10 DEF n

LEMMA Joined ==
  ASSUME NEW M, NEW s \in Seq(M), NEW t \in Seq(M), Distinct(s), Distinct(t), ToSet(s) \cap ToSet(t) = {}
  PROVE  s \o t \in Seq(M) /\ Distinct(s \o t) /\ ToSet(s \o t) = ToSet(s) \cup ToSet(t)
<1> DEFINE u == s \o t
           m == Len(s)
           n == Len(t)
<1>1. /\ m \in Nat /\ n \in Nat /\ ToSet(s) = {s[i] : i \in 1 .. m} /\ ToSet(t) = {t[i] : i \in 1 .. n}
  BY ElementsOf
<1>2. u \in Seq(M) /\ Len(u) = m + n /\ \A i \in 1 .. m + n : u[i] = IF i <= m THEN s[i] ELSE t[i - m]
  BY ConcatProperties
<1>3. ToSet(u) = {u[i] : i \in 1 .. m + n}
  BY <1>2, ElementsOf
<1> HIDE DEF u, m, n
<1>4. ASSUME NEW i \in 1 .. m + n
      PROVE  \/ i \in 1 .. m /\ u[i] = s[i] /\ u[i] \in ToSet(s)
             \/ i - m \in 1 .. n /\ ~(i <= m) /\ u[i] = t[i - m] /\ u[i] \in ToSet(t)
  BY <1>1, <1>2
<1>5. ASSUME NEW i \in 1 .. m PROVE s[i] \in ToSet(u)
  <2>1. i \in 1 .. m + n /\ i <= m
    BY <1>1
  <2> QED BY <1>2, <1>3, <2>1
<1>6. ASSUME NEW i \in 1 .. n PROVE t[i] \in ToSet(u)
  <2> DEFINE k == i + m
  <2>1. k \in 1 .. m + n /\ ~(k <= m) /\ k - m = i
    BY <1>1
  <2> HIDE DEF k
  <2> QED BY <1>2, <1>3, <2>1
<1>7. ToSet(u) = ToSet(s) \cup ToSet(t)
  BY <1>1, <1>3, <1>4, <1>5, <1>6
<1>8. ASSUME NEW i \in 1 .. m + n, NEW j \in 1 .. m + n, u[i] = u[j] PROVE i = j
  <2>1. CASE i \in 1 .. m /\ u[i] = s[i] /\ j \in 1 .. m /\ u[j] = s[j]
    BY <1>8, <2>1 DEF Distinct, m
  <2>2. CASE i - m \in 1 .. n /\ u[i] = t[i - m] /\ j - m \in 1 .. n /\ u[j] = t[j - m]
    <3>1. i - m = j - m
      BY <1>8, <2>2 DEF Distinct, n
    <3> QED BY <1>1, <3>1
  <2>3. ~(u[i] \in ToSet(s) /\ u[j] \in ToSet(t)) /\ ~(u[j] \in ToSet(s) /\ u[i] \in ToSet(t))
    BY <1>8
  <2> QED BY <1>4, <2>1, <2>2, <2>3
<1>9. Distinct(u)
  BY <1>2, <1>8 DEF Distinct
<1> QED BY <1>2, <1>7, <1>9 DEF u

-----------------------------------------------------------------------------
(* The dialog for the plug-ins: what it does with its lists.                  *)
LEMMA PluginListsAlike ==
  /\ \A s : Plugins!ToSet(s) = ToSet(s)
  /\ \A s, S : Plugins!Among(s, S) = Among(s, S)
  /\ \A s, S : Plugins!Without(s, S) = Without(s, S)
  /\ \A n, before : Plugins!Bisect(n, before) = Bisect(n, before)
<1>1. \A s : Plugins!ToSet(s) = ToSet(s)
  BY DEF Plugins!ToSet, ToSet
<1>2. \A s, K : Plugins!AtPositions(s, K) = AtPositions(s, K)
  BY Zenon DEF Plugins!AtPositions, AtPositions, Plugins!Cardinality, Cardinality
<1>3. \A s, S : Plugins!Among(s, S) = Among(s, S)
  BY <1>2 DEF Plugins!Among, Among
<1>4. \A s, S : Plugins!Without(s, S) = Without(s, S)
  BY <1>2 DEF Plugins!Without, Without
<1>5. \A n, before : Plugins!Bisect(n, before) = Bisect(n, before)
  BY DEF Bisect, Plugins!Bisect
<1> QED BY <1>1, <1>3, <1>4, <1>5

LEMMA ContainsIs ==
  ASSUME NEW M, NEW s \in Seq(M), NEW e
  PROVE  Plugins!Contains(s, e) <=> e \in ToSet(s)
BY ElementsOf DEF Plugins!Contains

LEMMA InjectiveIs ==
  ASSUME NEW M, NEW s \in Seq(M)
  PROVE  Plugins!IsInjective(s) <=> Distinct(s)
BY ElementsOf DEF Plugins!IsInjective, Distinct

(* A list of which no element comes twice, with the elements S.               *)
Holds(s, M, S) == s \in Seq(M) /\ Distinct(s) /\ ToSet(s) = S

LEMMA PluginInserted ==
  ASSUME NEW M, NEW S, NEW s, Holds(s, M, S), NEW i \in 1 .. Len(s) + 1, NEW e \in M, e \notin S
  PROVE  Holds(Plugins!InsertAt(s, i, e), M, S \cup {e}) /\ Len(Plugins!InsertAt(s, i, e)) = Len(s) + 1
<1> DEFINE u == Plugins!InsertAt(s, i, e)
           n == Len(s)
<1>1. s \in Seq(M) /\ n \in Nat /\ ToSet(s) = {s[k] : k \in 1 .. n} /\ S = ToSet(s) /\ Distinct(s)
  BY ElementsOf DEF Holds
<1>2. u = Send!InsertAt(s, i, e)
  BY DEF Plugins!InsertAt, Send!InsertAt
<1>3. u \in Seq(M) /\ Len(u) = n + 1 /\ \A k \in 1 .. n + 1 : u[k] = IF k < i THEN s[k] ELSE IF k = i THEN e ELSE s[k - 1]
  <2>1. /\ Send!InsertAt(s, i, e) \in Seq(M) /\ Len(Send!InsertAt(s, i, e)) = Len(s) + 1
        /\ \A k \in 1 .. (Len(s) + 1) :
              Send!InsertAt(s, i, e)[k] = IF k < i THEN s[k] ELSE IF k = i THEN e ELSE s[k - 1]
    BY <1>1, ElementInserted
  <2> HIDE DEF u
  <2> QED BY <1>2, <2>1
<1>4. ToSet(u) = {u[k] : k \in 1 .. n + 1}
  BY <1>3, ElementsOf
<1> HIDE DEF u, n
<1>5. ASSUME NEW k \in 1 .. n + 1
      PROVE  \/ k = i /\ u[k] = e
             \/ k < i /\ k \in 1 .. n /\ u[k] = s[k] /\ u[k] \in S
             \/ i < k /\ k - 1 \in 1 .. n /\ u[k] = s[k - 1] /\ u[k] \in S
  BY <1>1, <1>3 DEF n
<1>6. ASSUME NEW k \in 1 .. n PROVE s[k] \in ToSet(u)
  <2>1. CASE k < i
    BY <1>1, <1>3, <1>4, <2>1
  <2>2. CASE ~(k < i)
    <3> DEFINE l == k + 1
    <3>1. l \in 1 .. n + 1 /\ ~(l < i) /\ l # i /\ l - 1 = k
      BY <1>1, <2>2
    <3> HIDE DEF l
    <3> QED BY <1>3, <1>4, <3>1
  <2> QED BY <2>1, <2>2
<1>7. i \in 1 .. n + 1 /\ u[i] = e
  BY <1>3 DEF n
<1>8. ToSet(u) = S \cup {e}
  BY <1>1, <1>4, <1>5, <1>6, <1>7
<1>9. ASSUME NEW k \in 1 .. n + 1, NEW l \in 1 .. n + 1, u[k] = u[l] PROVE k = l
  <2>1. \A a, b \in 1 .. n : s[a] = s[b] => a = b
    BY <1>1 DEF Distinct, n
  <2>2. CASE k < i /\ i < l
    <3>1. k = l - 1
      BY <1>5, <1>9, <2>1, <2>2
    <3> QED BY <1>1, <2>2, <3>1
  <2>3. CASE l < i /\ i < k
    <3>1. l = k - 1
      BY <1>5, <1>9, <2>1, <2>3
    <3> QED BY <1>1, <2>3, <3>1
  <2>4. CASE i < l /\ i < k
    <3>1. l - 1 = k - 1
      BY <1>5, <1>9, <2>1, <2>4
    <3> QED BY <1>1, <3>1
  <2>5. CASE k < i /\ l < i
    BY <1>5, <1>9, <2>1, <2>5
  <2>6. CASE k = i \/ l = i
    BY <1>5, <1>7, <1>9, <2>6
  <2> QED BY <1>1, <2>2, <2>3, <2>4, <2>5, <2>6
<1>10. Distinct(u)
  BY <1>3, <1>9 DEF Distinct
<1> QED BY <1>3, <1>8, <1>10 DEF Holds, u, n

LEMMA PluginRemoved ==
  ASSUME NEW M, NEW S, NEW s, Holds(s, M, S), NEW i \in 1 .. Len(s)
  PROVE  /\ Holds(Plugins!RemoveAt(s, i), M, S \ {s[i]}) /\ s[i] \in S /\ s[i] \in M
         /\ Len(Plugins!RemoveAt(s, i)) = Len(s) - 1 /\ Len(s) \in Nat
<1> DEFINE u == Plugins!RemoveAt(s, i)
           n == Len(s)
<1>1. s \in Seq(M) /\ n \in Nat /\ ToSet(s) = {s[k] : k \in 1 .. n} /\ S = ToSet(s) /\ S \subseteq M
  BY ElementsOf DEF Holds
<1>2. u = Send!RemoveAt(s, i)
  BY DEF Plugins!RemoveAt, Send!RemoveAt
<1>3. u \in Seq(M) /\ Len(u) = n - 1 /\ \A k \in 1 .. n - 1 : u[k] = IF k < i THEN s[k] ELSE s[k + 1]
  <2> HIDE DEF u
  <2> QED BY <1>1, <1>2, ElementRemoved
<1>4. ToSet(u) = {u[k] : k \in 1 .. n - 1}
  BY <1>3, ElementsOf
<1>5. \A a, b \in 1 .. n : s[a] = s[b] => a = b
  BY DEF Holds, Distinct
<1> HIDE DEF u, n
<1>6. ASSUME NEW k \in 1 .. n - 1
      PROVE  \/ k < i /\ k \in 1 .. n /\ u[k] = s[k] /\ k # i
             \/ ~(k < i) /\ k + 1 \in 1 .. n /\ u[k] = s[k + 1] /\ k + 1 # i
  BY <1>1, <1>3 DEF n
<1>7. ASSUME NEW k \in 1 .. n, k # i PROVE s[k] \in ToSet(u)
  <2>1. CASE k < i
    <3>1. k \in 1 .. n - 1
      BY <1>1, <2>1 DEF n
    <3> QED BY <1>3, <1>4, <2>1, <3>1
  <2>2. CASE i < k
    <3> DEFINE l == k - 1
    <3>1. l \in 1 .. n - 1 /\ ~(l < i) /\ l + 1 = k
      BY <1>1, <2>2 DEF n
    <3> HIDE DEF l
    <3> QED BY <1>3, <1>4, <3>1
  <2> QED BY <1>1, <1>7, <2>1, <2>2 DEF n
<1>8. i \in 1 .. n
  BY DEF n
<1>9. ASSUME NEW k \in 1 .. n - 1 PROVE u[k] \in S \ {s[i]}
  BY <1>1, <1>5, <1>6, <1>8
<1>10. ToSet(u) = S \ {s[i]}
  BY <1>1, <1>4, <1>7, <1>9
<1>11. ASSUME NEW k \in 1 .. n - 1, NEW l \in 1 .. n - 1, u[k] = u[l] PROVE k = l
  <2>1. CASE k < i /\ l < i
    BY <1>5, <1>6, <1>11, <2>1
  <2>2. CASE ~(k < i) /\ ~(l < i)
    <3>1. k + 1 = l + 1
      BY <1>5, <1>6, <1>11, <2>2
    <3> QED BY <1>1, <3>1
  <2>3. CASE k < i /\ ~(l < i)
    <3>1. k = l + 1
      BY <1>5, <1>6, <1>11, <2>3
    <3> QED BY <1>1, <2>3, <3>1
  <2>4. CASE l < i /\ ~(k < i)
    <3>1. l = k + 1
      BY <1>5, <1>6, <1>11, <2>4
    <3> QED BY <1>1, <2>4, <3>1
  <2> QED BY <2>1, <2>2, <2>3, <2>4
<1>12. Distinct(u)
  BY <1>3, <1>11 DEF Distinct
<1> QED BY <1>1, <1>3, <1>8, <1>10, <1>12 DEF Holds, u, n

LEMMA PluginRelocated ==
  ASSUME NEW M, NEW S, NEW s, Holds(s, M, S), NEW from \in 1 .. Len(s), NEW to \in 1 .. Len(s)
  PROVE  /\ Holds(Plugins!InsertAt(Plugins!RemoveAt(s, from), to, s[from]), M, S)
         /\ Len(Plugins!InsertAt(Plugins!RemoveAt(s, from), to, s[from])) = Len(s)
<1> DEFINE r == Plugins!RemoveAt(s, from)
           e == s[from]
<1>1. Holds(r, M, S \ {e}) /\ e \in S /\ e \in M /\ Len(r) = Len(s) - 1 /\ Len(s) \in Nat
  BY PluginRemoved
<1> HIDE DEF r, e
<1>2. to \in 1 .. Len(r) + 1
  BY <1>1
<1>3. Holds(Plugins!InsertAt(r, to, e), M, (S \ {e}) \cup {e}) /\ Len(Plugins!InsertAt(r, to, e)) = Len(r) + 1
  BY <1>1, <1>2, PluginInserted
<1>4. (S \ {e}) \cup {e} = S
  BY <1>1
<1>5. Holds(Plugins!InsertAt(r, to, e), M, S)
  BY <1>3, <1>4, Zenon
<1>6. Len(Plugins!InsertAt(r, to, e)) = Len(s)
  BY <1>1, <1>3
<1> QED BY <1>5, <1>6 DEF r, e

LEMMA PluginAppended ==
  ASSUME NEW M, NEW S, NEW s, Holds(s, M, S), NEW e \in M, e \notin S
  PROVE  Holds(Append(s, e), M, S \cup {e}) /\ Len(Append(s, e)) = Len(s) + 1
<1> DEFINE one == <<e>>
<1>1. one \in Seq(M) /\ Distinct(one) /\ ToSet(one) = {e}
  BY DEF Distinct, ToSet
<1>2. s \in Seq(M) /\ Distinct(s) /\ ToSet(s) = S
  BY DEF Holds
<1>3. Append(s, e) = s \o one /\ Len(Append(s, e)) = Len(s) + 1
  BY <1>2
<1> HIDE DEF one
<1>4. ToSet(s) \cap ToSet(one) = {}
  BY <1>1, <1>2
<1>5. s \o one \in Seq(M) /\ Distinct(s \o one) /\ ToSet(s \o one) = S \cup {e}
  BY <1>1, <1>2, <1>4, Joined
<1> QED BY <1>3, <1>5 DEF Holds

(* Neighbours in a list.                                                     *)
LEMMA Neighbours ==
  ASSUME NEW m \in Nat, NEW n \in Nat, NEW s
  PROVE  AtPositions(s, m + 1 .. m + n) = [j \in 1 .. n |-> s[m + j]]
<1> DEFINE K == m + 1 .. m + n
<1>1. ASSUME NEW k \in K PROVE Cardinality({i \in K : i <= k}) = k - m
  <2>1. {i \in K : i <= k} = m + 1 .. k
    OBVIOUS
  <2>2. m + 1 \in Int /\ k \in Int /\ ~(m + 1 > k) /\ k - (m + 1) + 1 = k - m
    OBVIOUS
  <2>3. Cardinality(m + 1 .. k) = IF m + 1 > k THEN 0 ELSE k - (m + 1) + 1
    BY <2>2, FS_Interval
  <2> QED BY <2>1, <2>2, <2>3
<1>2. Cardinality(K) = n
  <2>1. m + 1 \in Int /\ m + n \in Int
    OBVIOUS
  <2>2. Cardinality(K) = IF m + 1 > m + n THEN 0 ELSE (m + n) - (m + 1) + 1
    BY <2>1, FS_Interval
  <2> QED BY <2>2
<1>3. ASSUME NEW j \in 1 .. n PROVE (CHOOSE k \in K : Cardinality({i \in K : i <= k}) = j) = m + j
  <2>1. m + j \in K /\ (m + j) - m = j
    OBVIOUS
  <2>2. \A k \in K : k - m = j => k = m + j
    OBVIOUS
  <2> HIDE DEF K
  <2>3. \A k \in K : Cardinality({i \in K : i <= k}) = j <=> k = m + j
    BY <1>1, <2>1, <2>2
  <2> QED BY <2>1, <2>3
<1> HIDE DEF K
<1>4. AtPositions(s, K) = [j \in 1 .. n |-> s[CHOOSE k \in K : Cardinality({i \in K : i <= k}) = j]]
  BY <1>2 DEF AtPositions
<1>5. AtPositions(s, K) = [j \in 1 .. n |-> s[m + j]]
  BY <1>3, <1>4
<1> QED BY <1>5 DEF K

LEMMA AmongNeighbours ==
  ASSUME NEW M, NEW s \in Seq(M), NEW m \in Nat, NEW a \in Seq(M), NEW S,
         m + Len(a) <= Len(s),
         \A k \in 1 .. Len(s) : s[k] \in S <=> k \in m + 1 .. m + Len(a),
         \A j \in 1 .. Len(a) : s[m + j] = a[j]
  PROVE  Among(s, S) = a
<1> DEFINE n == Len(a)
           K == {k \in DOMAIN s : s[k] \in S}
<1>1. n \in Nat /\ Len(s) \in Nat /\ DOMAIN s = 1 .. Len(s) /\ a = [j \in 1 .. n |-> a[j]]
  BY LenProperties
<1>2. K = m + 1 .. m + n
  BY <1>1
<1>3. Among(s, S) = AtPositions(s, K)
  BY DEF Among
<1> HIDE DEF K, n
<1>4. AtPositions(s, K) = [j \in 1 .. n |-> s[m + j]]
  <2>1. AtPositions(s, m + 1 .. m + n) = [j \in 1 .. n |-> s[m + j]]
    BY <1>1, Neighbours
  <2> QED BY <1>2, <2>1, Zenon
<1>5. [j \in 1 .. n |-> s[m + j]] = [j \in 1 .. n |-> a[j]]
  BY DEF n
<1> QED BY <1>1, <1>3, <1>4, <1>5

(* The parts of a list that has the sockets first and the protocols last.     *)
LEMMA ThreeParts ==
  ASSUME NEW M, NEW A, NEW B, NEW C, NEW a, NEW b, NEW c,
         Holds(a, M, A), Holds(b, M, B), Holds(c, M, C), A \cap B = {}, A \cap C = {}, B \cap C = {}
  PROVE  Holds(a \o b \o c, M, A \cup B \cup C) /\ Len(a \o b \o c) = Len(a) + Len(b) + Len(c)
<1>1. a \in Seq(M) /\ b \in Seq(M) /\ c \in Seq(M) /\ Distinct(a) /\ Distinct(b) /\ Distinct(c)
  BY DEF Holds
<1>2. ToSet(a) = A /\ ToSet(b) = B /\ ToSet(c) = C
  BY DEF Holds
<1>3. a \o b \in Seq(M) /\ Distinct(a \o b) /\ ToSet(a \o b) = A \cup B
  BY <1>1, <1>2, Joined
<1> DEFINE ab == a \o b
<1>4. Len(ab) = Len(a) + Len(b)
  BY <1>1
<1>5. ab \in Seq(M) /\ Distinct(ab) /\ ToSet(ab) = A \cup B /\ ToSet(ab) \cap ToSet(c) = {}
  BY <1>2, <1>3
<1> HIDE DEF ab
<1>6. ab \o c \in Seq(M) /\ Distinct(ab \o c) /\ ToSet(ab \o c) = ToSet(ab) \cup ToSet(c)
  BY <1>1, <1>5, Joined
<1>7. Len(ab \o c) = Len(ab) + Len(c)
  BY <1>1, <1>5
<1>8. ToSet(ab \o c) = A \cup B \cup C
  BY <1>2, <1>5, <1>6
<1> QED BY <1>4, <1>6, <1>7, <1>8 DEF Holds, ab

LEMMA PartsAre ==
  ASSUME NEW M, NEW A, NEW B, NEW C, NEW a, NEW b, NEW c,
         Holds(a, M, A), Holds(b, M, B), Holds(c, M, C), 
         NEW P, NEW Q, NEW R, A \subseteq P, B \subseteq Q, C \subseteq R, P \cap Q = {}, P \cap R = {}, Q \cap R = {}
  PROVE  /\ Among(a \o b \o c, P) = a /\ Among(a \o b \o c, Q) = b /\ Among(a \o b \o c, R) = c
<1> DEFINE u == a \o b \o c
           x == Len(a)
           y == Len(b)
           z == Len(c)
<1>1. /\ a \in Seq(M) /\ b \in Seq(M) /\ c \in Seq(M) /\ x \in Nat /\ y \in Nat /\ z \in Nat
      /\ A = {a[i] : i \in 1 .. x} /\ B = {b[i] : i \in 1 .. y} /\ C = {c[i] : i \in 1 .. z}
  BY ElementsOf DEF Holds
<1>2. u \in Seq(M) /\ Len(u) = x + y + z
  BY <1>1
<1>3. /\ \A j \in 1 .. x : u[j] = a[j]
      /\ \A j \in 1 .. y : u[x + j] = b[j]
      /\ \A j \in 1 .. z : u[(x + y) + j] = c[j]
  BY <1>1
<1> HIDE DEF u, x, y, z
<1>4. \A j \in 1 .. x : u[j] \in P /\ u[j] \notin Q /\ u[j] \notin R
  BY <1>1, <1>3
<1>5. \A j \in 1 .. y : u[x + j] \in Q /\ u[x + j] \notin P /\ u[x + j] \notin R
  BY <1>1, <1>3
<1>6. \A j \in 1 .. z : u[(x + y) + j] \in R /\ u[(x + y) + j] \notin P /\ u[(x + y) + j] \notin Q
  BY <1>1, <1>3
<1>7. ASSUME NEW k \in 1 .. Len(u)
      PROVE  \/ k \in 1 .. x
             \/ k \in x + 1 .. x + y /\ k - x \in 1 .. y /\ x + (k - x) = k
             \/ k \in (x + y) + 1 .. (x + y) + z /\ k - (x + y) \in 1 .. z /\ (x + y) + (k - (x + y)) = k
  BY <1>1, <1>2
<1>8. ASSUME NEW k \in 1 .. Len(u)
      PROVE  /\ u[k] \in P <=> k \in 0 + 1 .. 0 + x
             /\ u[k] \in Q <=> k \in x + 1 .. x + y
             /\ u[k] \in R <=> k \in (x + y) + 1 .. (x + y) + z
  <2>1. CASE k \in 1 .. x
    BY <1>1, <1>4, <2>1
  <2>2. CASE k \in x + 1 .. x + y /\ k - x \in 1 .. y /\ x + (k - x) = k
    <3>1. u[k] \in Q /\ u[k] \notin P /\ u[k] \notin R
      BY <1>5, <2>2
    <3> QED BY <1>1, <2>2, <3>1
  <2>3. CASE k \in (x + y) + 1 .. (x + y) + z /\ k - (x + y) \in 1 .. z /\ (x + y) + (k - (x + y)) = k
    <3>1. u[k] \in R /\ u[k] \notin P /\ u[k] \notin Q
      BY <1>6, <2>3
    <3> QED BY <1>1, <2>3, <3>1
  <2> QED BY <1>7, <2>1, <2>2, <2>3
<1>9. \A j \in 1 .. x : u[0 + j] = a[j]
  BY <1>1, <1>3
<1>10. 0 + x <= Len(u) /\ x + y <= Len(u) /\ (x + y) + z <= Len(u) /\ x + y \in Nat
  BY <1>1, <1>2
<1>11. Among(u, P) = a
  BY <1>1, <1>2, <1>8, <1>9, <1>10, AmongNeighbours DEF x
<1>12. Among(u, Q) = b
  <2>1. x + y <= Len(u) /\ \A j \in 1 .. y : u[x + j] = b[j]
    BY <1>3, <1>10
  <2>2. \A k \in 1 .. Len(u) : u[k] \in Q <=> k \in x + 1 .. x + y
    BY <1>8
  <2> QED BY <1>1, <1>2, <2>1, <2>2, AmongNeighbours DEF y
<1>13. Among(u, R) = c
  <2> DEFINE m == x + y
  <2>1. m \in Nat /\ m + z <= Len(u) /\ \A j \in 1 .. z : u[m + j] = c[j]
    BY <1>3, <1>10
  <2>2. \A k \in 1 .. Len(u) : u[k] \in R <=> k \in m + 1 .. m + z
    BY <1>8
  <2> HIDE DEF m
  <2> QED BY <1>1, <1>2, <2>1, <2>2, AmongNeighbours DEF z
<1> QED BY <1>11, <1>12, <1>13 DEF u

LEMMA HoldsMore ==
  ASSUME NEW M, NEW N, NEW s, NEW S, Holds(s, M, S), M \subseteq N
  PROVE  Holds(s, N, S)
BY SeqMonotonic DEF Holds

LEMMA HoldsLess ==
  ASSUME NEW M, NEW N, NEW s, NEW S, Holds(s, M, S), S \subseteq N
  PROVE  Holds(s, N, S)
<1>1. s \in Seq(M) /\ S = {s[i] : i \in 1 .. Len(s)} /\ Len(s) \in Nat
  BY ElementsOf DEF Holds
<1>2. s \in Seq(N)
  <2>1. s = [i \in 1 .. Len(s) |-> s[i]] /\ \A i \in 1 .. Len(s) : s[i] \in N
    BY <1>1, LenProperties
  <2> QED BY <1>1, <2>1
<1> QED BY <1>2 DEF Holds

-----------------------------------------------------------------------------
(* The configuration widgets of the dialog: in ok, loaded and widgets.        *)
DlgFields ==
  {"open", "selected", "row", "curSel", "marked", "curAvail", "search", "loaded", "widgets", "bar", "stale", "ok"}
DlgLike(e, d, but) == DOMAIN e = DlgFields /\ \A f \in DlgFields \ but : e[f] = d[f]
ConfigFields == {"loaded", "widgets", "ok"}

(* The widgets are those of the plug-ins S, and no assertion has failed.       *)
Configs(d, S) ==
  /\ d.ok /\ Holds(d.loaded, Plugins!Plugins, S)
  /\ Holds(d.widgets, Plugins!Plugins, S \cap Configurable)

Configured(e, d, S) == DlgLike(e, d, ConfigFields) /\ Configs(e, S)

LEMMA UpperIs ==
  ASSUME NEW M, NEW ws \in Seq(M), NEW t
  PROVE  Plugins!Upper(ws, t) \in 1 .. Len(ws) + 1 /\ Plugins!Lower(ws, t) \in 1 .. Len(ws) + 1
<1> DEFINE before == {i \in DOMAIN ws : Plugins!Rank[Plugins!TypeOf(ws[i])] <= Plugins!Rank[t]}
           below == {i \in DOMAIN ws : Plugins!Rank[Plugins!TypeOf(ws[i])] < Plugins!Rank[t]}
           n == Len(ws)
<1>1. n \in Nat
  OBVIOUS
<1>2. Plugins!Upper(ws, t) = Bisect(n, before) /\ Plugins!Lower(ws, t) = Bisect(n, below)
  BY PluginListsAlike DEF Plugins!Upper, Plugins!Lower
<1> HIDE DEF before, below, n
<1>3. Bisect(n, before) \in 1 .. n + 1 /\ Bisect(n, below) \in 1 .. n + 1
  BY <1>1, BisectEnds
<1> QED BY <1>2, <1>3 DEF n

LEMMA ConfigAdded ==
  ASSUME NEW d, NEW S, DOMAIN d = DlgFields, Configs(d, S), NEW p \in Plugins!Plugins, p \notin S, p \notin Broken
  PROVE  Configured(Plugins!AddConfig(d, p), d, S \cup {p})
<1> DEFINE M == Plugins!Plugins
           T == S \cup {p}
           ok == d.ok /\ ~Plugins!Contains(d.loaded, p)
           more == Append(d.loaded, p)
           c == [d EXCEPT !.ok = ok]
           b == [c EXCEPT !.loaded = more]
           i == Plugins!Upper(b.widgets, Plugins!TypeOf(p))
           ws == Plugins!InsertAt(b.widgets, i, p)
           e == [b EXCEPT !.widgets = ws]
<1>1. Holds(d.loaded, M, S) /\ Holds(d.widgets, M, S \cap Configurable) /\ d.ok
  BY DEF Configs
<1>2. ok
  <2>1. d.loaded \in Seq(M) /\ ToSet(d.loaded) = S
    BY <1>1 DEF Holds
  <2> QED BY <1>1, <2>1, ContainsIs
<1>3. Holds(more, M, T)
  BY <1>1, PluginAppended
<1>4. Plugins!AddConfig(d, p) = IF p \in Configurable THEN e ELSE b
  BY DEF Plugins!AddConfig, Plugins!Check
<1> HIDE DEF ok, more
<1>5. DlgLike(c, d, {"ok"}) /\ c.ok
  BY <1>2 DEF DlgLike, DlgFields
<1> HIDE DEF c
<1>6. DlgLike(b, d, ConfigFields) /\ b.ok /\ b.loaded = more /\ b.widgets = d.widgets
  BY <1>5 DEF DlgLike, DlgFields, ConfigFields
<1> HIDE DEF b
<1>7. CASE p \in Configurable
  <2>1. i \in 1 .. Len(d.widgets) + 1
    BY <1>1, <1>6, UpperIs DEF Holds
  <2> HIDE DEF i
  <2>2. Holds(ws, M, (S \cap Configurable) \cup {p})
    <3>1. p \notin S \cap Configurable
      OBVIOUS
    <3> DEFINE w == d.widgets
               R == S \cap Configurable
    <3>2. Holds(w, M, R) /\ i \in 1 .. Len(w) + 1 /\ p \notin R
      BY <1>1, <2>1
    <3> HIDE DEF w, R
    <3>3. Holds(Plugins!InsertAt(w, i, p), M, R \cup {p})
      BY <3>2, PluginInserted
    <3> QED BY <1>6, <3>3 DEF w, R
  <2>3. (S \cap Configurable) \cup {p} = T \cap Configurable
    BY <1>7
  <2> HIDE DEF ws, T
  <2>4. Holds(ws, M, T \cap Configurable)
    BY <2>2, <2>3, Zenon
  <2>5. DlgLike(e, d, ConfigFields) /\ e.ok /\ e.loaded = more /\ e.widgets = ws
    BY <1>6 DEF DlgLike, DlgFields, ConfigFields
  <2> HIDE DEF e
  <2>6. Configured(e, d, T)
    BY <1>3, <2>4, <2>5 DEF Configured, Configs
  <2> QED BY <1>4, <1>7, <2>6 DEF T
<1>8. CASE p \notin Configurable
  <2>1. S \cap Configurable = T \cap Configurable
    BY <1>8
  <2> HIDE DEF T
  <2>2. Holds(d.widgets, M, T \cap Configurable)
    BY <1>1, <2>1, Zenon
  <2>3. Configured(b, d, T)
    BY <1>3, <1>6, <2>2 DEF Configured, Configs
  <2> QED BY <1>4, <1>8, <2>3 DEF T
<1> QED BY <1>7, <1>8

LEMMA ConfigRemoved ==
  ASSUME NEW d, NEW S, DOMAIN d = DlgFields, Configs(d, S), NEW p
  PROVE  Configured(Plugins!RemoveConfig(d, p), d, S \ {p})
<1> DEFINE M == Plugins!Plugins
           T == S \ {p}
           one == {p}
           less == Without(d.loaded, one)
           ws == Without(d.widgets, one)
           e == [d EXCEPT !.loaded = less, !.widgets = ws]
<1>1. Holds(d.loaded, M, S) /\ Holds(d.widgets, M, S \cap Configurable) /\ d.ok
  BY DEF Configs
<1>2. Plugins!RemoveConfig(d, p) = e
  BY PluginListsAlike DEF Plugins!RemoveConfig, DlgFields
<1>3. \A s, R : Holds(s, M, R) => Holds(Without(s, one), M, R \ one)
  BY WithoutIs DEF Holds
<1>4. Holds(less, M, S \ one) /\ Holds(ws, M, (S \cap Configurable) \ one)
  BY <1>1, <1>3
<1>5. S \ one = T /\ (S \cap Configurable) \ one = T \cap Configurable
  OBVIOUS
<1> HIDE DEF less, ws, one, T
<1>6. Holds(less, M, T) /\ Holds(ws, M, T \cap Configurable)
  BY <1>4, <1>5, Zenon
<1>7. DlgLike(e, d, ConfigFields) /\ e.ok /\ e.loaded = less /\ e.widgets = ws
  BY <1>1 DEF DlgLike, DlgFields, ConfigFields
<1> HIDE DEF e
<1>8. Configured(e, d, T)
  BY <1>6, <1>7 DEF Configured, Configs
<1> QED BY <1>2, <1>8 DEF T

LEMMA WidgetMoved ==
  ASSUME NEW d, NEW S, DOMAIN d = DlgFields, Configs(d, S),
         NEW from \in 1 .. Len(d.widgets), NEW to \in Nat \ {0}, from # to
  PROVE  Configured(Plugins!Relocate(d, from, to), d, S)
<1> DEFINE M == Plugins!Plugins
           R == S \cap Configurable
           w == d.widgets
           p == w[from]
           rest == Plugins!RemoveAt(w, from)
           place == IF to > Len(rest) + 1 THEN Len(rest) + 1 ELSE to
           ws == Plugins!InsertAt(rest, place, p)
           c == [d EXCEPT !.ok = d.ok /\ from # to]
           e == [c EXCEPT !.widgets = ws]
<1>1. Holds(d.loaded, M, S) /\ Holds(w, M, R) /\ d.ok
  BY DEF Configs
<1>2. Plugins!Relocate(d, from, to) = e
  BY DEF Plugins!Relocate, Plugins!Check
<1>3. from \in 1 .. Len(w)
  OBVIOUS
<1> HIDE DEF w, R
<1>4. Holds(rest, M, R \ {p}) /\ Len(rest) = Len(w) - 1 /\ Len(w) \in Nat /\ p \in M /\ p \in R
  BY <1>1, <1>3, PluginRemoved
<1> HIDE DEF rest, p
<1>5. place \in 1 .. Len(w)
  BY <1>3, <1>4
<1>6. Holds(ws, M, R)
  <2>1. Holds(ws, M, (R \ {p}) \cup {p})
    <3>1. place \in 1 .. Len(rest) + 1
      BY <1>4, <1>5
    <3> HIDE DEF place
    <3> QED BY <1>4, <3>1, PluginInserted
  <2>2. (R \ {p}) \cup {p} = R
    BY <1>4
  <2> HIDE DEF ws
  <2> QED BY <2>1, <2>2, Zenon
<1> HIDE DEF ws
<1>7. DlgLike(c, d, {"ok"}) /\ c.ok
  BY <1>1 DEF DlgLike, DlgFields
<1> HIDE DEF c
<1>8. DlgLike(e, d, ConfigFields) /\ e.ok /\ e.loaded = d.loaded /\ e.widgets = ws
  BY <1>7 DEF DlgLike, DlgFields, ConfigFields
<1> HIDE DEF e
<1> QED BY <1>1, <1>2, <1>6, <1>8 DEF Configured, Configs, R

LEMMA ConfigsMoved ==
  ASSUME NEW d, NEW S, DOMAIN d = DlgFields, Configs(d, S), NEW p
  PROVE  /\ Configured(Plugins!ConfigTop(d, p), d, S) /\ Configured(Plugins!ConfigUp(d, p), d, S)
         /\ Configured(Plugins!ConfigDown(d, p), d, S) /\ Configured(Plugins!ConfigBottom(d, p), d, S)
<1> DEFINE w == d.widgets
           i == Plugins!WidgetIdx(d, p)
           top == Plugins!Lower(w, "filter")
           bottom == Plugins!Upper(w, "filter")
<1>1. w \in Seq(Plugins!Plugins) /\ Len(w) \in Nat
  BY DEF Configs, Holds
<1>2. i \in 0 .. Len(w)
  <2>1. i = IF Plugins!Contains(w, p) THEN CHOOSE k \in DOMAIN w : w[k] = p ELSE 0
    BY DEF Plugins!WidgetIdx
  <2>2. Plugins!Contains(w, p) <=> \E k \in 1 .. Len(w) : w[k] = p
    BY DEF Plugins!Contains
  <2>3. DOMAIN w = 1 .. Len(w)
    BY <1>1
  <2> HIDE DEF i, w
  <2> QED BY <1>1, <2>1, <2>2, <2>3
<1>3. top \in 1 .. Len(w) + 1 /\ bottom \in 1 .. Len(w) + 1
  <2> HIDE DEF w
  <2> QED BY <1>1, UpperIs
<1>4. Configured(d, d, S)
  BY DEF Configured, DlgLike
<1>5. Plugins!ConfigTop(d, p) = d \/ (i > top /\ Plugins!ConfigTop(d, p) = Plugins!Relocate(d, i, top))
  BY DEF Plugins!ConfigTop
<1>6. Plugins!ConfigUp(d, p) = d \/ (i > 1 /\ Plugins!ConfigUp(d, p) = Plugins!Relocate(d, i, i - 1))
  BY DEF Plugins!ConfigUp
<1>7. Plugins!ConfigDown(d, p) = d \/ (i > 0 /\ Plugins!ConfigDown(d, p) = Plugins!Relocate(d, i, i + 1))
  BY DEF Plugins!ConfigDown
<1>8. \/ Plugins!ConfigBottom(d, p) = d
      \/ i > 0 /\ i < bottom /\ Plugins!ConfigBottom(d, p) = Plugins!Relocate(d, i, bottom)
  BY DEF Plugins!ConfigBottom
<1>9. ASSUME NEW from \in 1 .. Len(w), NEW to \in Nat \ {0}, from # to
      PROVE  Configured(Plugins!Relocate(d, from, to), d, S)
  BY <1>9, WidgetMoved
<1> HIDE DEF w, i, top, bottom
<1>10. i > 0 => i \in 1 .. Len(w) /\ i + 1 \in Nat \ {0} /\ i # i + 1
  BY <1>1, <1>2
<1>11. i > 1 => i \in 1 .. Len(w) /\ i - 1 \in Nat \ {0} /\ i # i - 1
  BY <1>1, <1>2
<1>12. i > top => i \in 1 .. Len(w) /\ top \in Nat \ {0} /\ i # top
  BY <1>1, <1>2, <1>3
<1>13. i > 0 /\ i < bottom => i \in 1 .. Len(w) /\ bottom \in Nat \ {0} /\ i # bottom
  BY <1>1, <1>2, <1>3
<1>14. Configured(Plugins!ConfigTop(d, p), d, S)
  BY <1>4, <1>5, <1>9, <1>12
<1>15. Configured(Plugins!ConfigUp(d, p), d, S)
  BY <1>4, <1>6, <1>9, <1>11
<1>16. Configured(Plugins!ConfigDown(d, p), d, S)
  BY <1>4, <1>7, <1>9, <1>10
<1>17. Configured(Plugins!ConfigBottom(d, p), d, S)
  BY <1>4, <1>8, <1>9, <1>13
<1> QED BY <1>14, <1>15, <1>16, <1>17

(* addPluginConfig() for a list, one after the other.                         *)
AddsTo(added, d, infos, n) ==
  IF n = 0 THEN d ELSE Plugins!AddConfig(added[n - 1], infos[n])

LEMMA AddsExist ==
  ASSUME NEW d, NEW infos, NEW m \in Nat
  PROVE  \E added : added = [n \in 0 .. m |-> AddsTo(added, d, infos, n)]
<1> DEFINE Is(a, k) == a = [n \in 0 .. k |-> AddsTo(a, d, infos, n)]
           T == {k \in Nat : \E a : Is(a, k)}
<1>1. 0 \in T
  <2> DEFINE a == [n \in 0 .. 0 |-> d]
  <2>1. \A n \in 0 .. 0 : AddsTo(a, d, infos, n) = d
    BY DEF AddsTo
  <2>2. Is(a, 0)
    BY <2>1
  <2> QED BY <2>2
<1>2. ASSUME NEW k \in Nat, k \in T PROVE k + 1 \in T
  <2>1. PICK a : Is(a, k)
    BY <1>2
  <2> DEFINE g == [n \in 0 .. k + 1 |-> AddsTo(a, d, infos, n)]
  <2>2. \A n \in 0 .. k : a[n] = g[n]
    <3>1. \A n \in 0 .. k : a[n] = AddsTo(a, d, infos, n)
      BY <2>1
    <3> QED BY <3>1
  <2>3. ASSUME NEW n \in 0 .. k + 1 PROVE AddsTo(a, d, infos, n) = AddsTo(g, d, infos, n)
    <3> HIDE DEF g
    <3>1. n = 0 \/ n - 1 \in 0 .. k
      OBVIOUS
    <3> QED BY <2>2, <3>1 DEF AddsTo
  <2>4. g = [n \in 0 .. k + 1 |-> AddsTo(g, d, infos, n)]
    <3> HIDE DEF g
    <3>1. g = [n \in 0 .. k + 1 |-> AddsTo(a, d, infos, n)]
      BY DEF g
    <3> QED BY <2>3, <3>1
  <2> HIDE DEF g
  <2>5. Is(g, k + 1)
    BY <2>4
  <2> QED BY <2>5
<1> HIDE DEF T
<1>3. m \in T
  BY <1>1, <1>2, Upwards
<1> QED BY <1>3 DEF T

LEMMA ConfigsAdded ==
  ASSUME NEW d, DOMAIN d = DlgFields, Configs(d, {}), NEW infos, NEW S, Holds(infos, Plugins!Plugins, S),
         S \cap Broken = {}
  PROVE  Configured(Plugins!AddConfigs(d, infos), d, S)
<1> DEFINE m == Len(infos)
           added == CHOOSE a : a = [n \in 0 .. m |-> AddsTo(a, d, infos, n)]
           Had(n) == {infos[k] : k \in 1 .. n}
           T == {n \in Nat : n <= m => Configured(added[n], d, Had(n))}
<1>1. m \in Nat /\ S = {infos[k] : k \in 1 .. m} /\ \A k \in 1 .. m : infos[k] \in Plugins!Plugins
  BY ElementsOf, ElementOfSeq DEF Holds
<1>2. added = [n \in 0 .. m |-> AddsTo(added, d, infos, n)]
  BY <1>1, AddsExist
<1>3. Plugins!AddConfigs(d, infos) = added[m]
  BY DEF Plugins!AddConfigs, AddsTo
<1> HIDE DEF added
<1>4. \A n \in 0 .. m : added[n] = AddsTo(added, d, infos, n)
  BY <1>2
<1>5. 0 \in T
  <2>1. added[0] = d
    BY <1>1, <1>4 DEF AddsTo
  <2>2. Had(0) = {}
    OBVIOUS
  <2>3. DlgLike(d, d, ConfigFields)
    BY DEF DlgLike
  <2> HIDE DEF Had
  <2> QED BY <2>1, <2>2, <2>3 DEF Configured
<1>6. ASSUME NEW n \in Nat, n \in T PROVE n + 1 \in T
  <2> SUFFICES ASSUME n + 1 <= m PROVE Configured(added[n + 1], d, Had(n + 1))
    OBVIOUS
  <2> DEFINE a == added[n]
             p == infos[n + 1]
             R == Had(n)
             b == Plugins!AddConfig(a, p)
  <2>1. added[n + 1] = b
    <3>1. n + 1 \in 0 .. m /\ n + 1 # 0 /\ (n + 1) - 1 = n
      BY <1>1
    <3> QED BY <1>4, <3>1 DEF AddsTo
  <2>2. Configured(a, d, R)
    BY <1>1, <1>6
  <2>3. p \in Plugins!Plugins /\ p \notin Broken
    <3>1. n + 1 \in 1 .. m
      BY <1>1
    <3> QED BY <1>1, <3>1
  <2>4. p \notin R
    <3> SUFFICES ASSUME NEW k \in 1 .. n, infos[k] = infos[n + 1] PROVE FALSE
      OBVIOUS
    <3>1. k \in 1 .. Len(infos) /\ n + 1 \in 1 .. Len(infos) /\ k # n + 1
      BY <1>1
    <3> QED BY <3>1 DEF Holds, Distinct
  <2>5. Had(n + 1) = R \cup {p}
    <3>1. \A k \in 1 .. n + 1 : k \in 1 .. n \/ k = n + 1
      OBVIOUS
    <3>2. \A k \in 1 .. n : k \in 1 .. n + 1
      OBVIOUS
    <3>3. n + 1 \in 1 .. n + 1
      OBVIOUS
    <3> QED BY <3>1, <3>2, <3>3
  <2> HIDE DEF p, R, a
  <2>6. Configured(b, a, R \cup {p})
    BY <2>2, <2>3, <2>4, ConfigAdded DEF Configured, DlgLike
  <2> HIDE DEF b
  <2>7. Configured(b, d, R \cup {p})
    BY <2>2, <2>6 DEF Configured, DlgLike
  <2> HIDE DEF Had
  <2> QED BY <2>1, <2>5, <2>7
<1> HIDE DEF T
<1>7. m \in T
  BY <1>1, <1>5, <1>6, Upwards
<1> QED BY <1>1, <1>3, <1>7 DEF T

-----------------------------------------------------------------------------
(* The buttons of the dialog.                                                *)
Buttons == {"add", "remove", "up", "down", "some", "apply"}
BarLike(e, d, but) ==
  DlgLike(e, d, {"bar", "stale"}) /\ DOMAIN e.bar = Buttons /\ \A f \in Buttons \ but : e.bar[f] <=> d.bar[f]

LEMMA AvailableToolbarIs ==
  ASSUME NEW d, DOMAIN d = DlgFields, DOMAIN d.bar = Buttons
  PROVE  /\ BarLike(Plugins!RefreshAvailableToolbar(d), d, {"add"})
         /\ Plugins!RefreshAvailableToolbar(d).stale = d.stale
         /\ Plugins!RefreshAvailableToolbar(d).bar["add"] => d.curAvail # "none" /\ d.marked[d.curAvail] # "none"
<1> DEFINE on == d.curAvail # "none" /\ d.marked[d.curAvail] # "none"
           bar == [d.bar EXCEPT !["add"] = on]
           e == [d EXCEPT !.bar = bar]
<1>1. Plugins!RefreshAvailableToolbar(d) = e
  BY DEF Plugins!RefreshAvailableToolbar, Plugins!None
<1>2. DOMAIN bar = Buttons /\ (bar["add"] <=> on) /\ \A f \in Buttons \ {"add"} : bar[f] <=> d.bar[f]
  <2> HIDE DEF on
  <2> QED BY DEF Buttons
<1> HIDE DEF bar
<1>3. DlgLike(e, d, {"bar"}) /\ e.bar = bar
  BY DEF DlgLike, DlgFields
<1> HIDE DEF e
<1>4. e.stale = d.stale /\ DlgLike(e, d, {"bar", "stale"})
  BY <1>3 DEF DlgLike, DlgFields
<1> QED BY <1>1, <1>2, <1>3, <1>4 DEF BarLike

LEMMA SelectedToolbarIs ==
  ASSUME NEW d, DOMAIN d = DlgFields, DOMAIN d.bar = Buttons
  PROVE  LET e == Plugins!RefreshSelectedToolbar(d)
         IN  /\ BarLike(e, d, {"remove", "up", "down", "some"}) /\ e.stale = FALSE
             /\ e.bar["remove"] => Plugins!CurRow(d) > 0
             /\ e.bar["up"] => Plugins!CurRow(d) > 1
             /\ e.bar["down"] => Plugins!CurRow(d) \in 1 .. Plugins!CurCount(d) - 1
<1> DEFINE on1 == Plugins!CurRow(d) > 0
           on2 == Plugins!CurRow(d) > 1
           on3 == Plugins!CurRow(d) \in 1 .. Plugins!CurCount(d) - 1
           on4 == Plugins!Infos(d) # <<>>
           bar1 == [d.bar EXCEPT !["remove"] = on1]
           bar2 == [bar1 EXCEPT !["up"] = on2]
           bar3 == [bar2 EXCEPT !["down"] = on3]
           bar == [bar3 EXCEPT !["some"] = on4]
           e1 == [d EXCEPT !.bar = bar]
           e == [e1 EXCEPT !.stale = FALSE]
<1>1. Plugins!RefreshSelectedToolbar(d) = e
  BY DEF Plugins!RefreshSelectedToolbar, DlgFields
<1> HIDE DEF on1, on2, on3, on4
<1>2. DOMAIN bar1 = Buttons /\ (bar1["remove"] <=> on1) /\ \A f \in Buttons \ {"remove"} : bar1[f] <=> d.bar[f]
  BY DEF Buttons
<1> HIDE DEF bar1
<1>3. DOMAIN bar2 = Buttons /\ (bar2["up"] <=> on2) /\ \A f \in Buttons \ {"up"} : bar2[f] <=> bar1[f]
  BY <1>2 DEF Buttons
<1> HIDE DEF bar2
<1>4. DOMAIN bar3 = Buttons /\ (bar3["down"] <=> on3) /\ \A f \in Buttons \ {"down"} : bar3[f] <=> bar2[f]
  BY <1>3 DEF Buttons
<1> HIDE DEF bar3
<1>5. DOMAIN bar = Buttons /\ \A f \in Buttons \ {"some"} : bar[f] <=> bar3[f]
  BY <1>4 DEF Buttons
<1> HIDE DEF bar
<1>6. /\ DOMAIN bar = Buttons /\ (bar["remove"] <=> on1) /\ (bar["up"] <=> on2) /\ (bar["down"] <=> on3)
      /\ (bar["add"] <=> d.bar["add"]) /\ (bar["apply"] <=> d.bar["apply"])
  BY <1>2, <1>3, <1>4, <1>5 DEF Buttons
<1>7. DlgLike(e, d, {"bar", "stale"}) /\ e.bar = bar /\ e.stale = FALSE
  <2>1. DlgLike(e1, d, {"bar"}) /\ e1.bar = bar
    BY DEF DlgLike, DlgFields
  <2> HIDE DEF e1
  <2> QED BY <2>1 DEF DlgLike, DlgFields
<1> HIDE DEF e
<1>8. BarLike(e, d, {"remove", "up", "down", "some"})
  BY <1>6, <1>7 DEF BarLike, Buttons
<1> QED BY <1>1, <1>6, <1>7, <1>8 DEF on1, on2, on3

LEMMA ButtonBoxIs ==
  ASSUME NEW d, DOMAIN d = DlgFields, DOMAIN d.bar = Buttons
  PROVE  /\ BarLike(Plugins!RefreshButtonBox(d), d, {"apply"}) /\ Plugins!RefreshButtonBox(d).stale = d.stale
         /\ Plugins!RefreshButtonBox(d).bar["apply"] =>
              d.selected["socket"] # <<>> /\ d.selected["protocol"] # <<>>
<1> DEFINE on == d.selected["socket"] # <<>> /\ d.selected["protocol"] # <<>>
           bar == [d.bar EXCEPT !["apply"] = on]
           e == [d EXCEPT !.bar = bar]
<1>1. Plugins!RefreshButtonBox(d) = e
  BY DEF Plugins!RefreshButtonBox
<1>2. DOMAIN bar = Buttons /\ (bar["apply"] <=> on) /\ \A f \in Buttons \ {"apply"} : bar[f] <=> d.bar[f]
  <2> HIDE DEF on
  <2> QED BY DEF Buttons
<1> HIDE DEF bar
<1>3. DlgLike(e, d, {"bar"}) /\ e.bar = bar
  BY DEF DlgLike, DlgFields
<1> HIDE DEF e
<1>4. e.stale = d.stale /\ DlgLike(e, d, {"bar", "stale"})
  BY <1>3 DEF DlgLike, DlgFields
<1> QED BY <1>1, <1>2, <1>3, <1>4 DEF BarLike

LEMMA AvailableIs ==
  ASSUME NEW d, DOMAIN d = DlgFields
  PROVE  LET e == Plugins!RefreshAvailablePlugins(d)
         IN  /\ DlgLike(e, d, {"marked"}) /\ DOMAIN e.marked = Plugins!Types
             /\ \A t \in Plugins!Types :
                  e.marked[t] # "none" => e.marked[t] \in Plugins!Offered(d, t) /\ e.marked[t] = d.marked[t]
             /\ \A t \in Plugins!Types : d.marked[t] \in Plugins!Offered(d, t) => e.marked[t] = d.marked[t]
<1> DEFINE marked == [t \in Plugins!Types |-> IF d.marked[t] \in Plugins!Offered(d, t) THEN d.marked[t] ELSE "none"]
           e == [d EXCEPT !.marked = marked]
<1>1. Plugins!RefreshAvailablePlugins(d) = e
  BY DEF Plugins!RefreshAvailablePlugins, Plugins!None, DlgFields
<1>2. DlgLike(e, d, {"marked"}) /\ e.marked = marked
  BY DEF DlgLike, DlgFields
<1> HIDE DEF e
<1> QED BY <1>1, <1>2

-----------------------------------------------------------------------------
(* What the lists, the marks and the buttons of the dialog keep.              *)
LEMMA TypesAre ==
  /\ Plugins!Types = {"socket", "filter", "protocol"} /\ DOMAIN PluginsOf = Plugins!Types
  /\ "none" \notin Plugins!Types
  /\ \A t \in Plugins!Types : PluginsOf[t] \subseteq Plugins!Plugins /\ "none" \notin PluginsOf[t]
BY PluginsAssumption DEF Plugins!Types, Plugins!Plugins

(* The lists of the selected plug-ins, and the row in each.                   *)
Picked(d) ==
  /\ DOMAIN d.selected = Plugins!Types /\ DOMAIN d.row = Plugins!Types
  /\ d.curSel \in Plugins!Types \cup {"none"}
  /\ \A t \in Plugins!Types :
       /\ Holds(d.selected[t], PluginsOf[t], ToSet(d.selected[t]))
       /\ d.row[t] \in 0 .. Len(d.selected[t])

Selected(d) == UNION {ToSet(d.selected[t]) : t \in Plugins!Types}

(* The available plug-in that can be added is the one marked in the list that  *)
(* was clicked last; keys mark others.  The button for it may be stale.        *)
MarkOfOne(d) ==
  /\ DOMAIN d.marked = Plugins!Types /\ d.curAvail \in Plugins!Types \cup {"none"}
  /\ d.bar["add"] => d.curAvail # "none"

(* What is marked is there to be marked.                                     *)
Honest(d) == \A t \in Plugins!Types : d.marked[t] # "none" => d.marked[t] \in Plugins!Offered(d, t)

Marks(d) ==
  /\ MarkOfOne(d) /\ Honest(d)
  /\ d.bar["add"] => d.marked[d.curAvail] # "none"
  /\ d.curSel # "none" => d.curAvail = "none"

Unmarked(d) == DOMAIN d.marked = Plugins!Types /\ d.curAvail = "none" /\ ~d.bar["add"]

(* The buttons follow the row, or a key has changed it since.                 *)
Rows(d) ==
  /\ d.bar["remove"] => Plugins!CurRow(d) > 0
  /\ d.bar["up"] => d.stale \/ Plugins!CurRow(d) > 1
  /\ d.bar["down"] => d.stale \/ Plugins!CurRow(d) \in 1 .. Plugins!CurCount(d) - 1
  /\ d.stale => Plugins!CurRow(d) > 0

Applicable(d) == d.bar["apply"] => d.selected["socket"] # <<>> /\ d.selected["protocol"] # <<>>

Formed(d) == DOMAIN d = DlgFields /\ DOMAIN d.bar = Buttons

Well(d) ==
  /\ Formed(d) /\ d.open /\ Picked(d) /\ Marks(d) /\ Configs(d, Selected(d)) /\ Rows(d) /\ Applicable(d)
  /\ Selected(d) \cap Broken = {}

(* One socket and one protocol at most, and no other can be added.            *)
Ones(d) ==
  /\ Len(d.selected["socket"]) <= 1 /\ Len(d.selected["protocol"]) <= 1
  /\ d.curAvail \in {"socket", "protocol"} => d.selected[d.curAvail] = <<>>

LEMMA CurAlike ==
  ASSUME NEW d, NEW e, e.curSel = d.curSel, e.row = d.row, e.selected = d.selected
  PROVE  Plugins!CurRow(e) = Plugins!CurRow(d) /\ Plugins!CurCount(e) = Plugins!CurCount(d)
BY DEF Plugins!CurRow, Plugins!CurCount

LEMMA SelectedToolbarRows ==
  ASSUME NEW d, Formed(d)
  PROVE  LET e == Plugins!RefreshSelectedToolbar(d)
         IN  /\ BarLike(e, d, {"remove", "up", "down", "some"}) /\ Rows(e) /\ Formed(e)
             /\ Plugins!CurRow(e) = Plugins!CurRow(d) /\ e.stale = FALSE
<1> DEFINE e == Plugins!RefreshSelectedToolbar(d)
<1>1. /\ BarLike(e, d, {"remove", "up", "down", "some"}) /\ e.stale = FALSE
      /\ e.bar["remove"] => Plugins!CurRow(d) > 0
      /\ e.bar["up"] => Plugins!CurRow(d) > 1
      /\ e.bar["down"] => Plugins!CurRow(d) \in 1 .. Plugins!CurCount(d) - 1
  BY SelectedToolbarIs DEF Formed
<1> HIDE DEF e
<1>2. e.curSel = d.curSel /\ e.row = d.row /\ e.selected = d.selected
  BY <1>1 DEF BarLike, DlgLike, DlgFields
<1>3. Plugins!CurRow(e) = Plugins!CurRow(d) /\ Plugins!CurCount(e) = Plugins!CurCount(d)
  BY <1>2, CurAlike
<1>4. Formed(e)
  BY <1>1 DEF BarLike, DlgLike, Formed
<1> QED BY <1>1, <1>3, <1>4 DEF Rows, e

LEMMA PickedAlike ==
  ASSUME NEW d, NEW e, Picked(d), e.selected = d.selected, e.row = d.row, e.curSel = d.curSel
  PROVE  Picked(e) /\ Selected(e) = Selected(d)
BY DEF Picked, Selected

ClickFields == {"row", "curSel", "marked", "curAvail", "bar", "stale"}

(* The row is the current one, and no available plug-in can be added.         *)
AtRow(e, t, r) == Formed(e) /\ Picked(e) /\ e.curSel = t /\ e.row[t] = r /\ Unmarked(e) /\ Rows(e)

LEMMA SelectedClicked ==
  ASSUME NEW d, Formed(d), Picked(d), MarkOfOne(d), NEW t \in Plugins!Types, NEW r \in 1 .. Len(d.selected[t])
  PROVE  LET e == Plugins!SelectedPluginClicked(d, t, r)
         IN  /\ DlgLike(e, d, ClickFields) /\ AtRow(e, t, r)
             /\ e.bar["apply"] <=> d.bar["apply"]
             /\ \A u \in Plugins!Types : e.marked[u] \in {"none", d.marked[u]}
<1> DEFINE a1 == [d EXCEPT !.marked[d.curAvail] = "none"]
           a == [a1 EXCEPT !.curAvail = "none"]
           b == IF d.curAvail = "none" THEN d ELSE Plugins!RefreshAvailableToolbar(a)
           c == IF d.curSel \in {"none", t} THEN b ELSE [b EXCEPT !.row[d.curSel] = 0]
           g1 == [c EXCEPT !.curSel = t]
           g == [g1 EXCEPT !.row[t] = r]
           e == Plugins!RefreshSelectedToolbar(g)
<1>1. Plugins!SelectedPluginClicked(d, t, r) = e
  BY DEF Plugins!SelectedPluginClicked, Plugins!None
<1>2. DOMAIN d = DlgFields /\ DOMAIN d.bar = Buttons /\ d.curSel \in Plugins!Types \cup {"none"}
  BY DEF Formed, Picked
<1>3. /\ DlgLike(b, d, {"marked", "curAvail", "bar"}) /\ DOMAIN b.bar = Buttons /\ Unmarked(b)
      /\ b.bar["apply"] <=> d.bar["apply"]
      /\ \A u \in Plugins!Types : b.marked[u] \in {"none", d.marked[u]}
  <2>1. CASE d.curAvail = "none"
    <3>1. b = d
      BY <2>1
    <3>2. Unmarked(d)
      BY <2>1, TypesAre DEF MarkOfOne, Unmarked
    <3>3. DlgLike(d, d, {"marked", "curAvail", "bar"})
      BY <1>2 DEF DlgLike
    <3> HIDE DEF b
    <3> QED BY <1>2, <3>1, <3>2, <3>3
  <2>2. CASE d.curAvail # "none"
    <3>1. /\ DlgLike(a1, d, {"marked"}) /\ DOMAIN a1.marked = Plugins!Types
          /\ \A u \in Plugins!Types : a1.marked[u] \in {"none", d.marked[u]}
      <4>1. DOMAIN d.marked = Plugins!Types /\ d.curAvail \in Plugins!Types
        BY <2>2 DEF MarkOfOne
      <4>3. a1.marked = [d.marked EXCEPT ![d.curAvail] = "none"]
        BY <1>2 DEF DlgFields
      <4>4. DlgLike(a1, d, {"marked"})
        BY <1>2 DEF DlgLike, DlgFields
      <4> HIDE DEF a1
      <4> QED BY <4>1, <4>3, <4>4
    <3> HIDE DEF a1
    <3>2. /\ DlgLike(a, d, {"marked", "curAvail"}) /\ a.marked = a1.marked /\ a.curAvail = "none"
          /\ DOMAIN a.bar = Buttons /\ a.bar = d.bar
      BY <1>2, <3>1 DEF DlgLike, DlgFields
    <3> HIDE DEF a
    <3> DEFINE h == Plugins!RefreshAvailableToolbar(a)
    <3>3. BarLike(h, a, {"add"}) /\ (h.bar["add"] => a.curAvail # "none") /\ h.stale = a.stale
      BY <3>2, AvailableToolbarIs DEF DlgLike
    <3>4. b = h
      BY <2>2
    <3> HIDE DEF h, b
    <3>5. h.marked = a.marked /\ h.curAvail = a.curAvail /\ DOMAIN h.bar = Buttons /\ (h.bar["apply"] <=> a.bar["apply"])
      BY <3>3 DEF BarLike, DlgLike, DlgFields, Buttons
    <3>6. DlgLike(h, d, {"marked", "curAvail", "bar"})
      BY <3>2, <3>3 DEF BarLike, DlgLike, DlgFields
    <3>7. Unmarked(h)
      BY <3>1, <3>2, <3>3, <3>5 DEF Unmarked
    <3>8. \A u \in Plugins!Types : h.marked[u] \in {"none", d.marked[u]}
      BY <3>1, <3>2, <3>5
    <3>9. h.bar["apply"] <=> d.bar["apply"]
      BY <3>2, <3>5
    <3> QED BY <3>4, <3>5, <3>6, <3>7, <3>8, <3>9
  <2> QED BY <2>1, <2>2
<1> HIDE DEF b
<1>4. b.row = d.row /\ DOMAIN b = DlgFields /\ b.selected = d.selected
  BY <1>3 DEF DlgLike, DlgFields
<1>5. /\ DlgLike(c, b, {"row"}) /\ DOMAIN c.row = Plugins!Types
      /\ \A u \in Plugins!Types : c.row[u] = d.row[u] \/ c.row[u] = 0
  <2>1. CASE d.curSel \in {"none", t}
    BY <1>4, <2>1 DEF DlgLike, Picked
  <2>2. CASE d.curSel \notin {"none", t}
    <3>1. c = [b EXCEPT !.row[d.curSel] = 0]
      BY <2>2
    <3>2. DlgLike(c, b, {"row"}) /\ c.row = [d.row EXCEPT ![d.curSel] = 0]
      BY <1>4, <3>1 DEF DlgLike, DlgFields
    <3> HIDE DEF c
    <3> QED BY <3>2 DEF Picked
  <2> QED BY <2>1, <2>2
<1> HIDE DEF c
<1>6. DlgLike(g1, c, {"curSel"}) /\ g1.curSel = t /\ g1.row = c.row
  BY <1>5 DEF DlgLike, DlgFields
<1> HIDE DEF g1
<1>7. DlgLike(g, g1, {"row"}) /\ g.row = [c.row EXCEPT ![t] = r] /\ g.curSel = t
  BY <1>6 DEF DlgLike, DlgFields
<1> HIDE DEF g
<1>8. g.selected = d.selected /\ g.bar = b.bar /\ g.marked = b.marked /\ g.curAvail = b.curAvail
  BY <1>4, <1>5, <1>6, <1>7 DEF DlgLike, DlgFields
<1>9. Picked(g) /\ g.row[t] = r
  <2>1. DOMAIN g.row = Plugins!Types /\ g.row[t] = r
    BY <1>5, <1>7
  <2>2. ASSUME NEW u \in Plugins!Types PROVE g.row[u] \in 0 .. Len(d.selected[u])
    <3>1. d.row[u] \in 0 .. Len(d.selected[u]) /\ Len(d.selected[u]) \in Nat
      BY DEF Picked, Holds
    <3>2. CASE u = t
      BY <2>1, <3>2
    <3>3. CASE u # t
      BY <1>5, <1>7, <3>1, <3>3
    <3> QED BY <3>2, <3>3
  <2> QED BY <1>7, <1>8, <2>1, <2>2 DEF Picked
<1>10. Formed(g)
  BY <1>3, <1>7, <1>8 DEF Formed, DlgLike
<1>11. BarLike(e, g, {"remove", "up", "down", "some"}) /\ Rows(e) /\ Formed(e)
  BY <1>10, SelectedToolbarRows
<1> HIDE DEF e
<1>17. \A u \in Plugins!Types : e.marked[u] \in {"none", d.marked[u]}
  <2>1. e.marked = b.marked
    BY <1>7, <1>8, <1>11 DEF BarLike, DlgLike, DlgFields
  <2> QED BY <1>3, <2>1
<1>12. /\ e.selected = g.selected /\ e.row = g.row /\ e.curSel = t /\ e.marked = g.marked /\ e.curAvail = g.curAvail
       /\ (e.bar["add"] <=> g.bar["add"]) /\ (e.bar["apply"] <=> g.bar["apply"])
  BY <1>7, <1>11 DEF BarLike, DlgLike, DlgFields, Buttons
<1>13. Picked(e)
  BY <1>7, <1>9, <1>12, PickedAlike
<1>14. Unmarked(e)
  BY <1>3, <1>8, <1>12 DEF Unmarked
<1>15. DlgLike(e, d, ClickFields)
  BY <1>3, <1>5, <1>6, <1>7, <1>11 DEF BarLike, DlgLike, DlgFields, ClickFields
<1>16. AtRow(e, t, r)
  BY <1>9, <1>11, <1>12, <1>13, <1>14 DEF AtRow
<1> QED BY <1>1, <1>3, <1>8, <1>12, <1>15, <1>16, <1>17

LEMMA OfferedAlike ==
  ASSUME NEW d, NEW e, e.selected = d.selected, e.search = d.search, NEW t
  PROVE  Plugins!Offered(e, t) = Plugins!Offered(d, t)
BY DEF Plugins!Offered

LEMMA HonestAlike ==
  ASSUME NEW d, NEW e, Honest(d), e.selected = d.selected, e.search = d.search,
         \A u \in Plugins!Types : e.marked[u] \in {"none", d.marked[u]}
  PROVE  Honest(e)
BY OfferedAlike DEF Honest

LEMMA OfferedIs ==
  ASSUME NEW d, Picked(d), NEW t \in Plugins!Types, NEW p \in Plugins!Offered(d, t)
  PROVE  p \in PluginsOf[t] /\ p # "none" /\ p \in Plugins!Plugins /\ p \notin Selected(d)
<1>1. p \in PluginsOf[t] /\ ~Plugins!Contains(d.selected[t], p)
  BY DEF Plugins!Offered
<1>2. p \notin ToSet(d.selected[t])
  BY <1>1, ContainsIs DEF Picked, Holds
<1>3. ASSUME NEW u \in Plugins!Types, u # t PROVE p \notin ToSet(d.selected[u])
  <2>1. ToSet(d.selected[u]) \subseteq PluginsOf[u]
    BY ElementsOf DEF Picked, Holds
  <2>2. PluginsOf[u] \cap PluginsOf[t] = {}
    BY <1>3, PluginsAssumption, TypesAre
  <2> QED BY <1>1, <2>1, <2>2
<1> QED BY <1>1, <1>2, <1>3, TypesAre DEF Selected

LEMMA AvailableClicked ==
  ASSUME NEW d, Well(d), NEW t \in Plugins!Types, NEW p \in Plugins!Offered(d, t)
  PROVE  LET e == Plugins!AvailPluginClicked(d, t, p)
         IN  /\ DlgLike(e, d, ClickFields) /\ Well(e) /\ e.curAvail = t /\ e.marked[t] = p
             /\ Ones(d) /\ ~Plugins!Disabled(d, t) => Ones(e)
<1> DEFINE a == [d EXCEPT !.row[d.curSel] = 0]
           h == Plugins!RefreshSelectedToolbar(a)
           i == [h EXCEPT !.curSel = "none"]
           b == IF d.curSel = "none" THEN d ELSE i
           c == IF d.curAvail \in {"none", t} THEN b ELSE [b EXCEPT !.marked[d.curAvail] = "none"]
           g1 == [c EXCEPT !.curAvail = t]
           g == [g1 EXCEPT !.marked[t] = p]
           e == Plugins!RefreshAvailableToolbar(g)
<1>1. Plugins!AvailPluginClicked(d, t, p) = e
  BY DEF Plugins!AvailPluginClicked, Plugins!None
<1>2. DOMAIN d = DlgFields /\ DOMAIN d.bar = Buttons /\ d.curSel \in Plugins!Types \cup {"none"}
  BY DEF Well, Formed, Picked
<1>3. /\ DlgLike(b, d, {"row", "curSel", "bar", "stale"}) /\ Formed(b) /\ Picked(b) /\ b.curSel = "none" /\ Rows(b)
      /\ (b.bar["add"] <=> d.bar["add"]) /\ (b.bar["apply"] <=> d.bar["apply"])
  <2>1. CASE d.curSel = "none"
    <3>1. b = d
      BY <2>1
    <3>2. DlgLike(d, d, {"row", "curSel", "bar", "stale"})
      BY <1>2 DEF DlgLike
    <3> HIDE DEF b
    <3> QED BY <2>1, <3>1, <3>2 DEF Well
  <2>2. CASE d.curSel # "none"
    <3>1. DlgLike(a, d, {"row"}) /\ a.row = [d.row EXCEPT ![d.curSel] = 0] /\ DOMAIN a.bar = Buttons
      BY <1>2 DEF DlgLike, DlgFields
    <3> HIDE DEF a
    <3>2. /\ BarLike(h, a, {"remove", "up", "down", "some"}) /\ Rows(h) /\ Formed(h) /\ Plugins!CurRow(h) = Plugins!CurRow(a)
          /\ h.stale = FALSE
      BY <3>1, SelectedToolbarRows DEF Formed, DlgLike
    <3>3. Plugins!CurRow(a) = 0
      <4>1. DOMAIN d.row = Plugins!Types /\ d.curSel \in Plugins!Types /\ a.curSel = d.curSel
        BY <1>2, <2>2, <3>1 DEF Well, Picked, DlgLike, DlgFields
      <4> QED BY <2>2, <3>1, <4>1 DEF Plugins!CurRow, Plugins!None
    <3> HIDE DEF h
    <3>4. ~h.bar["remove"] /\ ~h.bar["up"] /\ ~h.bar["down"]
      <4>1. ~(Plugins!CurRow(h) > 0) /\ ~(Plugins!CurRow(h) > 1)
        BY <3>2, <3>3
      <4>2. Plugins!CurRow(h) \notin 1 .. Plugins!CurCount(h) - 1
        BY <3>2, <3>3
      <4> QED BY <3>2, <4>1, <4>2 DEF Rows
    <3>5. DlgLike(i, h, {"curSel"}) /\ i.curSel = "none" /\ i.bar = h.bar /\ i.stale = FALSE
      BY <3>2 DEF Formed, DlgLike, DlgFields
    <3>6. b = i
      BY <2>2
    <3> HIDE DEF i, b
    <3>7. i.selected = d.selected /\ i.row = a.row
      BY <3>1, <3>2, <3>5 DEF BarLike, DlgLike, DlgFields
    <3>8. Picked(i)
      <4>1. DOMAIN a.row = Plugins!Types
        BY <3>1 DEF Well, Picked
      <4>2. ASSUME NEW u \in Plugins!Types PROVE a.row[u] \in 0 .. Len(d.selected[u])
        <5>1. d.row[u] \in 0 .. Len(d.selected[u]) /\ Len(d.selected[u]) \in Nat /\ u \in DOMAIN d.row
          BY DEF Well, Picked, Holds
        <5> QED BY <3>1, <5>1
      <4> QED BY <3>5, <3>7, <4>1, <4>2 DEF Well, Picked
    <3>9. DlgLike(i, d, {"row", "curSel", "bar", "stale"})
      BY <3>1, <3>2, <3>5 DEF BarLike, DlgLike, DlgFields
    <3>10. (i.bar["add"] <=> d.bar["add"]) /\ (i.bar["apply"] <=> d.bar["apply"])
      <4>1. a.bar = d.bar
        BY <3>1 DEF DlgLike, DlgFields
      <4> QED BY <3>2, <3>5, <4>1 DEF BarLike, Buttons
    <3>11. Formed(i)
      BY <3>2, <3>5 DEF Formed, DlgLike
    <3> QED BY <3>4, <3>5, <3>6, <3>8, <3>9, <3>10, <3>11 DEF Rows
  <2> QED BY <2>1, <2>2
<1> HIDE DEF b
<1>4. b.marked = d.marked /\ DOMAIN b = DlgFields /\ DOMAIN d.marked = Plugins!Types
  BY <1>3 DEF Well, Marks, MarkOfOne, DlgLike, DlgFields
<1>5. /\ DlgLike(c, b, {"marked"}) /\ DOMAIN c.marked = Plugins!Types
      /\ \A u \in Plugins!Types : c.marked[u] \in {"none", d.marked[u]}
  <2>2. CASE d.curAvail \in {"none", t}
    BY <1>4, <2>2, TypesAre DEF DlgLike
  <2>3. CASE d.curAvail \notin {"none", t}
    <3>1. c = [b EXCEPT !.marked[d.curAvail] = "none"]
      BY <2>3
    <3>2. DlgLike(c, b, {"marked"}) /\ c.marked = [d.marked EXCEPT ![d.curAvail] = "none"]
      BY <1>4, <3>1 DEF DlgLike, DlgFields
    <3> HIDE DEF c
    <3> QED BY <1>4, <3>2
  <2> QED BY <2>2, <2>3
<1> HIDE DEF c
<1>6. DlgLike(g1, c, {"curAvail"}) /\ g1.curAvail = t /\ g1.marked = c.marked
  BY <1>5 DEF DlgLike, DlgFields
<1> HIDE DEF g1
<1>7. DlgLike(g, g1, {"marked"}) /\ g.marked = [c.marked EXCEPT ![t] = p] /\ g.curAvail = t
  BY <1>6 DEF DlgLike, DlgFields
<1> HIDE DEF g
<1>8. /\ DlgLike(g, b, {"marked", "curAvail"}) /\ g.bar = b.bar /\ DOMAIN g.marked = Plugins!Types /\ g.marked[t] = p
      /\ \A u \in Plugins!Types : u # t => g.marked[u] \in {"none", d.marked[u]}
  BY <1>5, <1>6, <1>7 DEF DlgLike, DlgFields
<1>9. BarLike(e, g, {"add"}) /\ e.stale = g.stale
  BY <1>3, <1>8, AvailableToolbarIs DEF Formed, DlgLike
<1> HIDE DEF e
<1>10. /\ e.selected = b.selected /\ e.row = b.row /\ e.curSel = "none" /\ e.marked = g.marked /\ e.curAvail = t
       /\ e.selected = d.selected /\ e.search = d.search /\ e.loaded = d.loaded /\ e.widgets = d.widgets
       /\ e.ok = d.ok /\ e.open = d.open /\ e.stale = b.stale
  BY <1>3, <1>7, <1>8, <1>9 DEF BarLike, DlgLike, DlgFields
<1>11. /\ e.bar["remove"] <=> b.bar["remove"]
       /\ e.bar["up"] <=> b.bar["up"]
       /\ e.bar["down"] <=> b.bar["down"]
       /\ e.bar["apply"] <=> b.bar["apply"]
  BY <1>8, <1>9 DEF BarLike, Buttons
<1>12. Picked(e) /\ Selected(e) = Selected(d)
  <2>1. Picked(e)
    BY <1>3, <1>10, PickedAlike
  <2> QED BY <1>10, <2>1 DEF Selected
<1>13. Rows(e)
  <2>1. Plugins!CurRow(e) = Plugins!CurRow(b) /\ Plugins!CurCount(e) = Plugins!CurCount(b)
    BY <1>3, <1>10, CurAlike
  <2> QED BY <1>3, <1>10, <1>11, <2>1 DEF Rows
<1>14. p # "none"
  BY OfferedIs DEF Well
<1>15. Marks(e)
  <2>1. \A u \in Plugins!Types : Plugins!Offered(e, u) = Plugins!Offered(d, u)
    BY <1>10, OfferedAlike
  <2>2. t # "none"
    BY TypesAre
  <2>3. Honest(d)
    BY DEF Well, Marks
  <2>4. Honest(e)
    BY <1>8, <1>10, <2>1, <2>3 DEF Honest
  <2> QED BY <1>8, <1>10, <1>14, <2>2, <2>4 DEF Marks, MarkOfOne
<1>16. Applicable(e)
  BY <1>3, <1>10, <1>11 DEF Well, Applicable
<1>17. Configs(e, Selected(e))
  BY <1>10, <1>12 DEF Well, Configs
<1>18. Formed(e)
  BY <1>9 DEF Formed, BarLike, DlgLike
<1>19. Well(e)
  <2>1. Selected(e) \cap Broken = {}
    BY <1>12 DEF Well
  <2> QED BY <1>10, <1>12, <1>13, <1>15, <1>16, <1>17, <1>18, <2>1 DEF Well
<1>20. ASSUME Ones(d), ~Plugins!Disabled(d, t) PROVE Ones(e)
  BY <1>10, <1>20 DEF Ones, Plugins!Disabled
<1>21. DlgLike(e, d, ClickFields)
  BY <1>3, <1>8, <1>9 DEF BarLike, DlgLike, DlgFields, ClickFields
<1> QED BY <1>1, <1>8, <1>10, <1>19, <1>20, <1>21

LEMMA UnmarkedMarks ==
  ASSUME NEW d, Unmarked(d)
  PROVE  MarkOfOne(d) /\ (Honest(d) => Marks(d))
BY TypesAre DEF Unmarked, Marks, MarkOfOne

LEMMA NoneMarked ==
  ASSUME NEW d, MarkOfOne(d), d.curAvail = "none"
  PROVE  Unmarked(d)
BY TypesAre DEF Unmarked, MarkOfOne

LEMMA SelectedOf ==
  ASSUME NEW d, NEW e, Picked(d), e.selected = d.selected
  PROVE  Selected(e) = Selected(d)
BY DEF Selected

Refreshing(b) == Plugins!RefreshButtonBox(Plugins!RefreshSelectedToolbar(Plugins!RefreshAvailablePlugins(b)))

LEMMA DialogRefreshed ==
  ASSUME NEW b, Formed(b), Picked(b), MarkOfOne(b),
         b.bar["add"] => b.marked[b.curAvail] \in Plugins!Offered(b, b.curAvail),
         b.curSel # "none" => b.curAvail = "none"
  PROVE  LET e == Refreshing(b)
         IN  /\ DlgLike(e, b, {"marked", "bar", "stale"}) /\ Formed(e) /\ Picked(e) /\ Marks(e) /\ Rows(e) /\ Applicable(e)
             /\ Selected(e) = Selected(b) /\ e.stale = FALSE
<1> DEFINE f == Plugins!RefreshAvailablePlugins(b)
           g == Plugins!RefreshSelectedToolbar(f)
           e == Plugins!RefreshButtonBox(g)
<1>1. /\ DlgLike(f, b, {"marked"}) /\ DOMAIN f.marked = Plugins!Types
      /\ \A t \in Plugins!Types :
           f.marked[t] # "none" => f.marked[t] \in Plugins!Offered(b, t) /\ f.marked[t] = b.marked[t]
      /\ \A t \in Plugins!Types : b.marked[t] \in Plugins!Offered(b, t) => f.marked[t] = b.marked[t]
  BY AvailableIs DEF Formed
<1> HIDE DEF f
<1>2. f.bar = b.bar /\ f.selected = b.selected /\ f.row = b.row /\ f.curSel = b.curSel /\ f.curAvail = b.curAvail /\ f.search = b.search
  BY <1>1 DEF DlgLike, DlgFields
<1>3. BarLike(g, f, {"remove", "up", "down", "some"}) /\ Rows(g) /\ Formed(g) /\ g.stale = FALSE
  BY <1>1, <1>2, SelectedToolbarRows DEF Formed, DlgLike
<1> HIDE DEF g
<1>4. BarLike(e, g, {"apply"}) /\ e.stale = g.stale /\ (e.bar["apply"] => g.selected["socket"] # <<>> /\ g.selected["protocol"] # <<>>)
  BY <1>3, ButtonBoxIs DEF Formed
<1> HIDE DEF e
<1>5. /\ e.selected = b.selected /\ e.row = b.row /\ e.curSel = b.curSel /\ e.curAvail = b.curAvail /\ e.search = b.search
      /\ e.marked = f.marked /\ (e.bar["add"] <=> b.bar["add"])
      /\ g.selected = b.selected /\ g.row = b.row /\ g.curSel = b.curSel
      /\ (e.bar["remove"] <=> g.bar["remove"]) /\ (e.bar["up"] <=> g.bar["up"]) /\ (e.bar["down"] <=> g.bar["down"])
  BY <1>1, <1>2, <1>3, <1>4 DEF BarLike, DlgLike, DlgFields, Buttons
<1>6. Picked(e) /\ Selected(e) = Selected(b)
  BY <1>5, PickedAlike
<1>7. Rows(e)
  <2>1. Plugins!CurRow(e) = Plugins!CurRow(g) /\ Plugins!CurCount(e) = Plugins!CurCount(g)
    BY <1>5, CurAlike
  <2> QED BY <1>3, <1>4, <1>5, <2>1 DEF Rows
<1>8. Applicable(e)
  BY <1>4, <1>5 DEF Applicable
<1>9. DlgLike(e, b, {"marked", "bar", "stale"}) /\ Formed(e)
  BY <1>1, <1>3, <1>4 DEF BarLike, DlgLike, DlgFields, Formed
<1>10. Marks(e)
  <2>1. \A t \in Plugins!Types : Plugins!Offered(e, t) = Plugins!Offered(b, t)
    BY <1>5, OfferedAlike
  <2>2. MarkOfOne(e)
    BY <1>1, <1>5 DEF MarkOfOne
  <2>3. ASSUME e.bar["add"] PROVE e.marked[e.curAvail] # "none"
    <3>1. b.bar["add"] /\ b.curAvail \in Plugins!Types /\ b.marked[b.curAvail] \in Plugins!Offered(b, b.curAvail)
      BY <1>5, <2>3 DEF MarkOfOne
    <3>2. e.marked[e.curAvail] = b.marked[b.curAvail]
      BY <1>1, <1>5, <3>1
    <3> QED BY <3>1, <3>2, OfferedIs
  <2> QED BY <1>1, <1>5, <2>1, <2>2, <2>3 DEF Marks, Honest
<1> QED BY <1>3, <1>4, <1>6, <1>7, <1>8, <1>9, <1>10 DEF Refreshing, e, g, f

LEMMA ConfigsAlike ==
  ASSUME NEW d, NEW e, NEW S, Configs(d, S), e.ok = d.ok, e.loaded = d.loaded, e.widgets = d.widgets
  PROVE  Configs(e, S)
BY DEF Configs

LEMMA AddKeeps ==
  ASSUME NEW d, Well(d), d.curAvail # "none", d.marked[d.curAvail] # "none"
  PROVE  Well(Plugins!Add(d)) /\ (Ones(d) => Ones(Plugins!Add(d)))
<1> DEFINE t == d.curAvail
           p == d.marked[t]
           more == Append(d.selected[t], p)
           b == [d EXCEPT !.selected[t] = more]
           f == Plugins!SelectedPluginClicked(b, t, Len(b.selected[t]))
           h == Refreshing(f)
           e == Plugins!AddConfig(h, p)
<1>1. t \in Plugins!Types /\ p \in Plugins!Offered(d, t) /\ p # "none"
  BY DEF Well, Marks, MarkOfOne, Honest
<1>2. Plugins!Add(d) = IF p \in Broken THEN d ELSE e
  BY <1>1, TypesAre DEF Plugins!Add, Plugins!None, Refreshing
<1>0. SUFFICES ASSUME p \notin Broken PROVE Well(e) /\ (Ones(d) => Ones(e))
  BY <1>2
<1>3. p \in PluginsOf[t] /\ p \in Plugins!Plugins /\ p \notin Selected(d)
  BY <1>1, OfferedIs DEF Well
<1>4. DOMAIN d = DlgFields /\ DOMAIN d.bar = Buttons /\ Picked(d) /\ DOMAIN d.selected = Plugins!Types
  BY DEF Well, Formed, Picked
<1>5. Holds(more, PluginsOf[t], ToSet(d.selected[t]) \cup {p}) /\ Len(more) = Len(d.selected[t]) + 1
  <2>1. Holds(d.selected[t], PluginsOf[t], ToSet(d.selected[t])) /\ p \notin ToSet(d.selected[t])
    BY <1>1, <1>3, <1>4 DEF Picked, Selected
  <2> HIDE DEF p, t
  <2> QED BY <1>3, <2>1, PluginAppended
<1>6. Len(d.selected[t]) \in Nat /\ ToSet(more) = ToSet(d.selected[t]) \cup {p}
  BY <1>1, <1>4, <1>5 DEF Picked, Holds
<1> HIDE DEF more, p, t
<1>7. DlgLike(b, d, {"selected"}) /\ b.selected = [d.selected EXCEPT ![t] = more]
  BY <1>4 DEF DlgLike, DlgFields
<1> HIDE DEF b
<1>8. b.selected[t] = more /\ \A u \in Plugins!Types : u # t => b.selected[u] = d.selected[u]
  BY <1>1, <1>4, <1>7
<1>9. b.row = d.row /\ b.curSel = d.curSel /\ b.marked = d.marked /\ b.curAvail = d.curAvail /\ b.bar = d.bar
  BY <1>7 DEF DlgLike, DlgFields
<1>10. Picked(b)
  <2>1. ASSUME NEW u \in Plugins!Types
        PROVE  Holds(b.selected[u], PluginsOf[u], ToSet(b.selected[u])) /\ b.row[u] \in 0 .. Len(b.selected[u])
    <3>1. CASE u = t
      <4>1. Holds(more, PluginsOf[t], ToSet(more))
        BY <1>5 DEF Holds
      <4>2. d.row[t] \in 0 .. Len(d.selected[t])
        BY <1>1, <1>4 DEF Picked
      <4>3. d.row[t] \in 0 .. Len(more)
        BY <1>5, <1>6, <4>2
      <4> QED BY <1>8, <1>9, <3>1, <4>1, <4>3
    <3>2. CASE u # t
      BY <1>4, <1>8, <1>9, <3>2 DEF Picked
    <3> QED BY <3>1, <3>2
  <2> QED BY <1>4, <1>7, <1>9, <2>1 DEF Picked
<1>11. Formed(b) /\ MarkOfOne(b)
  BY <1>4, <1>7, <1>9 DEF Well, Marks, MarkOfOne, Formed, DlgLike
<1>12. DlgLike(f, b, ClickFields) /\ AtRow(f, t, Len(more))
  <2>1. Len(b.selected[t]) \in 1 .. Len(b.selected[t])
    BY <1>5, <1>6, <1>8
  <2> DEFINE r == Len(b.selected[t])
  <2>2. r = Len(more)
    BY <1>8
  <2> HIDE DEF r
  <2> QED BY <1>1, <1>10, <1>11, <2>1, <2>2, SelectedClicked DEF r
<1> HIDE DEF f
<1>13. Formed(f) /\ Picked(f) /\ Unmarked(f) /\ MarkOfOne(f) /\ f.curAvail = "none" /\ ~f.bar["add"]
  BY <1>12, UnmarkedMarks DEF AtRow, Unmarked
<1>14. /\ DlgLike(h, f, {"marked", "bar", "stale"}) /\ Formed(h) /\ Picked(h) /\ Marks(h) /\ Rows(h) /\ Applicable(h)
       /\ Selected(h) = Selected(f)
  BY <1>13, DialogRefreshed
<1> HIDE DEF h
<1>15. Configs(h, Selected(d))
  <2>1. h.ok = d.ok /\ h.loaded = d.loaded /\ h.widgets = d.widgets
    BY <1>7, <1>12, <1>14 DEF DlgLike, DlgFields, ClickFields
  <2> QED BY <2>1, ConfigsAlike DEF Well
<1> DEFINE S == Selected(d)
<1>16. Configured(e, h, S \cup {p})
  <2> HIDE DEF S
  <2> QED BY <1>0, <1>3, <1>14, <1>15, ConfigAdded DEF Formed, S
<1> HIDE DEF e
<1>17. /\ DlgLike(e, h, ConfigFields) /\ e.selected = h.selected /\ e.row = h.row /\ e.curSel = h.curSel
       /\ e.marked = h.marked /\ e.curAvail = h.curAvail /\ e.bar = h.bar /\ e.search = h.search /\ e.open = h.open
       /\ e.stale = h.stale
  BY <1>16 DEF Configured, DlgLike, DlgFields, ConfigFields
<1>18. h.selected = b.selected /\ h.open = d.open /\ h.curAvail = "none"
  BY <1>7, <1>12, <1>13, <1>14 DEF DlgLike, DlgFields, ClickFields
<1>19. Selected(e) = S \cup {p}
  <2>1. ASSUME NEW u \in Plugins!Types PROVE ToSet(e.selected[u]) = IF u = t THEN ToSet(d.selected[t]) \cup {p} ELSE ToSet(d.selected[u])
    BY <1>6, <1>8, <1>17, <1>18
  <2> QED BY <1>1, <2>1 DEF Selected
<1>20. Well(e)
  <2>1. Formed(e) /\ Picked(e) /\ Applicable(e)
    BY <1>14, <1>17, PickedAlike DEF Formed, DlgLike, Applicable
  <2>2. Marks(e)
    <3>1. Honest(e)
      BY <1>14, <1>17, HonestAlike DEF Marks
    <3> QED BY <1>14, <1>17, <3>1 DEF Marks, MarkOfOne
  <2>3. Rows(e)
    <3>1. Plugins!CurRow(e) = Plugins!CurRow(h) /\ Plugins!CurCount(e) = Plugins!CurCount(h)
      BY <1>17, CurAlike
    <3> QED BY <1>14, <1>17, <3>1 DEF Rows
  <2>4. Configs(e, Selected(e))
    <3>1. Configs(e, S \cup {p})
      BY <1>16 DEF Configured
    <3> QED BY <1>19, <3>1
  <2>5. e.open
    BY <1>17, <1>18 DEF Well
  <2>6. Selected(e) \cap Broken = {}
    BY <1>0, <1>19 DEF Well
  <2> QED BY <2>1, <2>2, <2>3, <2>4, <2>5, <2>6 DEF Well
<1>21. ASSUME Ones(d) PROVE Ones(e)
  <2>1. e.curAvail = "none"
    BY <1>17, <1>18
  <2>2. ASSUME NEW u \in {"socket", "protocol"} PROVE Len(e.selected[u]) <= 1
    <3>1. CASE u = t
      <4>1. d.selected[t] = <<>>
        BY <1>21, <3>1 DEF Ones, t
      <4>2. Len(d.selected[t]) = 0
        BY <4>1
      <4>3. Len(more) = 1
        BY <1>5, <4>2
      <4>4. e.selected[u] = more
        BY <1>8, <1>17, <1>18, <3>1
      <4>5. Len(e.selected[u]) = 1
        BY <4>3, <4>4
      <4> QED BY <4>5
    <3>2. CASE u # t
      <4>1. u \in Plugins!Types
        BY TypesAre
      <4>2. e.selected[u] = d.selected[u]
        BY <1>8, <1>17, <1>18, <3>2, <4>1
      <4> QED BY <1>21, <4>2 DEF Ones
    <3> QED BY <3>1, <3>2
  <2> QED BY <2>1, <2>2 DEF Ones
<1> QED BY <1>20, <1>21

LEMMA CurRowIs ==
  ASSUME NEW d, Picked(d), Plugins!CurRow(d) > 0
  PROVE  /\ d.curSel \in Plugins!Types /\ d.curSel # "none" /\ Plugins!CurRow(d) = d.row[d.curSel]
         /\ d.row[d.curSel] \in 1 .. Len(d.selected[d.curSel])
         /\ Plugins!CurCount(d) = Len(d.selected[d.curSel]) /\ Len(d.selected[d.curSel]) \in Nat
<1>1. d.curSel # "none"
  BY DEF Plugins!CurRow, Plugins!None
<1>2. d.curSel \in Plugins!Types /\ Plugins!CurRow(d) = d.row[d.curSel] /\ Plugins!CurCount(d) = Len(d.selected[d.curSel])
  BY <1>1 DEF Picked, Plugins!CurRow, Plugins!CurCount, Plugins!None
<1> DEFINE t == d.curSel
<1>3. d.row[t] \in 0 .. Len(d.selected[t]) /\ Len(d.selected[t]) \in Nat
  BY <1>2 DEF Picked, Holds
<1> QED BY <1>1, <1>2, <1>3

(* A plug-in that is selected, without it the others of its list and of the   *)
(* others.                                                                   *)
LEMMA SelectedWithout ==
  ASSUME NEW d, NEW e, Picked(d), NEW t \in Plugins!Types, NEW p \in ToSet(d.selected[t]),
         ToSet(e.selected[t]) = ToSet(d.selected[t]) \ {p},
         \A u \in Plugins!Types : u # t => e.selected[u] = d.selected[u]
  PROVE  Selected(e) = Selected(d) \ {p}
<1>1. ASSUME NEW u \in Plugins!Types, u # t PROVE p \notin ToSet(d.selected[u])
  <2>1. ToSet(d.selected[u]) \subseteq PluginsOf[u] /\ ToSet(d.selected[t]) \subseteq PluginsOf[t]
    BY ElementsOf DEF Picked, Holds
  <2>2. PluginsOf[u] \cap PluginsOf[t] = {}
    BY <1>1, PluginsAssumption, TypesAre
  <2> QED BY <2>1, <2>2
<1>2. \A u \in Plugins!Types : ToSet(e.selected[u]) = ToSet(d.selected[u]) \ {p}
  BY <1>1
<1> QED BY <1>2 DEF Selected

LEMMA RemoveKeeps ==
  ASSUME NEW d, Well(d), Plugins!CurRow(d) > 0
  PROVE  Well(Plugins!RemoveSelected(d)) /\ (Ones(d) => Ones(Plugins!RemoveSelected(d)))
<1> DEFINE t == d.curSel
           s == d.selected[t]
           row == d.row[t]
           p == s[row]
           rest == Plugins!RemoveAt(s, row)
           next == IF row <= Len(rest) THEN row ELSE Len(rest)
           S == Selected(d)
           a == Plugins!RemoveConfig(d, p)
           b1 == [a EXCEPT !.selected[t] = rest]
           b == [b1 EXCEPT !.row[t] = next]
           c == Refreshing(b)
           f == Plugins!SelectedPluginClicked(c, t, next)
           g == [c EXCEPT !.curSel = "none"]
           e == IF next = 0 THEN g ELSE f
<1>1. Picked(d) /\ DOMAIN d = DlgFields /\ DOMAIN d.bar = Buttons /\ DOMAIN d.selected = Plugins!Types /\ DOMAIN d.row = Plugins!Types
  BY DEF Well, Formed, Picked
<1>2. t \in Plugins!Types /\ t # "none" /\ row \in 1 .. Len(s) /\ Holds(s, PluginsOf[t], ToSet(s))
  BY <1>1, CurRowIs DEF Picked
<1>3. Plugins!RemoveSelected(d) = e
  <2>1. ~(d.curSel = "none" \/ Plugins!CurRow(d) = 0)
    BY <1>2
  <2> QED BY <2>1 DEF Plugins!RemoveSelected, Plugins!None, Refreshing
<1>4. /\ Holds(rest, PluginsOf[t], ToSet(s) \ {p}) /\ p \in ToSet(s) /\ Len(rest) = Len(s) - 1 /\ Len(s) \in Nat
      /\ ToSet(rest) = ToSet(s) \ {p}
  <2> HIDE DEF s, row, t
  <2>1. Holds(rest, PluginsOf[t], ToSet(s) \ {p}) /\ p \in ToSet(s) /\ Len(rest) = Len(s) - 1 /\ Len(s) \in Nat
    BY <1>2, PluginRemoved
  <2> QED BY <2>1 DEF Holds
<1>5. next \in 0 .. Len(rest)
  BY <1>2, <1>4
<1>6. Configured(a, d, S \ {p})
  <2> HIDE DEF S, p
  <2> QED BY <1>1, ConfigRemoved DEF Well, S
<1> HIDE DEF a, next, rest, p, row
<1>7. DlgLike(a, d, ConfigFields) /\ Configs(a, S \ {p}) /\ a.selected = d.selected /\ a.row = d.row
  BY <1>6 DEF Configured, DlgLike, DlgFields, ConfigFields
<1>8. DlgLike(b1, a, {"selected"}) /\ b1.selected = [d.selected EXCEPT ![t] = rest] /\ b1.row = d.row
  BY <1>7 DEF DlgLike, DlgFields
<1> HIDE DEF b1
<1>9. DlgLike(b, b1, {"row"}) /\ b.row = [d.row EXCEPT ![t] = next] /\ b.selected = [d.selected EXCEPT ![t] = rest]
  BY <1>8 DEF DlgLike, DlgFields
<1> HIDE DEF b
<1>10. /\ b.curSel = t /\ b.marked = d.marked /\ b.curAvail = d.curAvail /\ b.bar = d.bar /\ b.search = d.search
       /\ b.open = d.open /\ b.ok = a.ok /\ b.loaded = a.loaded /\ b.widgets = a.widgets
  BY <1>7, <1>8, <1>9 DEF DlgLike, DlgFields, ConfigFields
<1>11. /\ b.selected[t] = rest /\ b.row[t] = next
       /\ \A u \in Plugins!Types : u # t => b.selected[u] = d.selected[u] /\ b.row[u] = d.row[u]
  <2> HIDE DEF t
  <2> QED BY <1>1, <1>2, <1>9
<1>12. Picked(b)
  <2>1. ASSUME NEW u \in Plugins!Types
        PROVE  Holds(b.selected[u], PluginsOf[u], ToSet(b.selected[u])) /\ b.row[u] \in 0 .. Len(b.selected[u])
    <3>1. CASE u = t
      <4>1. Holds(rest, PluginsOf[t], ToSet(rest))
        BY <1>4 DEF Holds
      <4> HIDE DEF t
      <4> QED BY <1>5, <1>11, <3>1, <4>1
    <3>2. CASE u # t
      <4> HIDE DEF t
      <4> QED BY <1>1, <1>11, <3>2 DEF Picked
    <3> QED BY <3>1, <3>2
  <2>2. DOMAIN b.selected = Plugins!Types /\ DOMAIN b.row = Plugins!Types
    BY <1>1, <1>9
  <2> QED BY <1>2, <1>10, <2>1, <2>2 DEF Picked
<1>13. Unmarked(b)
  <2>1. d.curAvail = "none"
    BY <1>2 DEF Well, Marks
  <2>2. Unmarked(d)
    BY <2>1, NoneMarked DEF Well, Marks
  <2> QED BY <1>10, <2>2 DEF Unmarked
<1>14. Formed(b)
  BY <1>1, <1>9, <1>10 DEF Formed, DlgLike
<1>15. /\ DlgLike(c, b, {"marked", "bar", "stale"}) /\ Formed(c) /\ Picked(c) /\ Marks(c) /\ Rows(c) /\ Applicable(c)
       /\ Selected(c) = Selected(b) /\ c.stale = FALSE
  <2>1. ~b.bar["add"] /\ b.curAvail = "none" /\ MarkOfOne(b)
    BY <1>13, UnmarkedMarks DEF Unmarked
  <2> QED BY <1>12, <1>14, <2>1, DialogRefreshed
<1> HIDE DEF c
<1>16. /\ c.selected = b.selected /\ c.row = b.row /\ c.curSel = t /\ c.curAvail = "none" /\ c.open
       /\ c.ok = a.ok /\ c.loaded = a.loaded /\ c.widgets = a.widgets
  <2>1. b.curAvail = "none" /\ d.open
    BY <1>13 DEF Unmarked, Well
  <2> QED BY <1>10, <1>15, <2>1 DEF DlgLike, DlgFields
<1>17. Unmarked(c)
  BY <1>15, <1>16, NoneMarked DEF Marks
<1>18. Selected(b) = S \ {p}
  <2>1. /\ t \in Plugins!Types /\ Picked(d) /\ p \in ToSet(d.selected[t])
        /\ ToSet(b.selected[t]) = ToSet(d.selected[t]) \ {p}
    BY <1>1, <1>2, <1>4, <1>11 DEF s
  <2>2. \A u \in Plugins!Types : u # t => b.selected[u] = d.selected[u]
    BY <1>11
  <2> HIDE DEF t
  <2>3. Selected(b) = Selected(d) \ {p}
    BY ONLY <2>1, <2>2, SelectedWithout
  <2> QED BY <2>3
<1>19. Configs(c, Selected(c))
  <2>1. Configs(c, S \ {p})
    BY <1>7, <1>16, ConfigsAlike
  <2> QED BY <1>15, <1>18, <2>1
<1>22. Selected(c) \cap Broken = {}
  BY <1>15, <1>18 DEF Well
<1>20. Well(e) /\ e.selected = c.selected /\ e.curAvail = "none"
  <2>1. CASE next = 0
    <3>1. DlgLike(g, c, {"curSel"}) /\ g.curSel = "none" /\ e = g
      BY <1>15, <2>1 DEF Formed, DlgLike, DlgFields
    <3> HIDE DEF g, e
    <3>2. /\ g.selected = c.selected /\ g.row = c.row /\ g.marked = c.marked /\ g.curAvail = "none" /\ g.bar = c.bar
          /\ g.open /\ g.ok = c.ok /\ g.loaded = c.loaded /\ g.widgets = c.widgets /\ g.search = c.search
          /\ g.stale = FALSE
      BY <1>15, <1>16, <3>1 DEF DlgLike, DlgFields
    <3>3. Picked(g) /\ Selected(g) = Selected(c)
      BY <1>15, <3>1, <3>2 DEF Picked, Selected
    <3>4. Unmarked(g) /\ Honest(g)
      BY <1>15, <1>17, <3>2, HonestAlike DEF Unmarked, Marks
    <3>5. Plugins!CurRow(c) = 0
      BY <1>2, <1>11, <1>16, <2>1 DEF Plugins!CurRow, Plugins!None
    <3>6. ~c.bar["remove"] /\ ~c.bar["up"] /\ ~c.bar["down"]
      <4>1. ~(Plugins!CurRow(c) > 0) /\ ~(Plugins!CurRow(c) > 1) /\ Plugins!CurRow(c) \notin 1 .. Plugins!CurCount(c) - 1
        BY <3>5
      <4> QED BY <1>15, <4>1 DEF Rows
    <3>7. Rows(g) /\ Applicable(g)
      BY <1>15, <3>2, <3>6 DEF Rows, Applicable
    <3>8. Configs(g, Selected(g))
      BY <1>19, <3>2, <3>3, ConfigsAlike
    <3>9. Formed(g)
      BY <1>15, <3>1, <3>2 DEF Formed, DlgLike
    <3>10. Well(g)
      BY <1>22, <3>2, <3>3, <3>4, <3>7, <3>8, <3>9, UnmarkedMarks DEF Well
    <3> QED BY <3>1, <3>2, <3>10
  <2>2. CASE next # 0
    <3>1. next \in 1 .. Len(c.selected[t])
      BY <1>4, <1>5, <1>11, <1>16, <2>2
    <3>2. /\ DlgLike(f, c, ClickFields) /\ AtRow(f, t, next) /\ (f.bar["apply"] <=> c.bar["apply"])
          /\ \A u \in Plugins!Types : f.marked[u] \in {"none", c.marked[u]}
      <4> HIDE DEF t
      <4> QED BY <1>2, <1>15, <3>1, SelectedClicked DEF Marks
    <3>3. e = f
      BY <2>2
    <3> HIDE DEF f, e
    <3>4. /\ f.selected = c.selected /\ f.open = c.open /\ f.ok = c.ok /\ f.loaded = c.loaded /\ f.widgets = c.widgets
          /\ f.search = c.search
      BY <3>2 DEF DlgLike, DlgFields, ClickFields
    <3>5. Formed(f) /\ Picked(f) /\ Unmarked(f) /\ Rows(f)
      BY <3>2 DEF AtRow
    <3>6. Applicable(f)
      BY <1>15, <3>2, <3>4 DEF Applicable
    <3>7. Selected(f) = Selected(c)
      BY <3>4 DEF Selected
    <3>8. Configs(f, Selected(f))
      BY <1>19, <3>4, <3>7, ConfigsAlike
    <3>11. Honest(f)
      BY <1>15, <3>2, <3>4, HonestAlike DEF Marks
    <3>9. Well(f)
      BY <1>16, <1>22, <3>4, <3>5, <3>6, <3>7, <3>8, <3>11, UnmarkedMarks DEF Well
    <3>10. f.curAvail = "none"
      BY <3>5 DEF Unmarked
    <3> QED BY <3>3, <3>4, <3>9, <3>10
  <2> QED BY <2>1, <2>2
<1> HIDE DEF e
<1>21. ASSUME Ones(d) PROVE Ones(e)
  <2>1. ASSUME NEW u \in {"socket", "protocol"} PROVE Len(e.selected[u]) <= 1
    <3>1. u \in Plugins!Types /\ Len(d.selected[u]) <= 1 /\ Len(d.selected[u]) \in Nat
      BY <1>1, <1>21, TypesAre DEF Ones, Picked, Holds
    <3>2. CASE u = t
      <4>1. e.selected[u] = rest /\ Len(rest) = Len(d.selected[u]) - 1
        BY <1>4, <1>11, <1>16, <1>20, <3>2
      <4> QED BY <3>1, <4>1
    <3>3. CASE u # t
      <4>1. e.selected[u] = d.selected[u]
        BY <1>11, <1>16, <1>20, <3>1, <3>3
      <4> QED BY <3>1, <4>1
    <3> QED BY <3>2, <3>3
  <2> QED BY <1>20, <2>1 DEF Ones
<1> QED BY <1>3, <1>20, <1>21

LEMMA BlankIs ==
  /\ DOMAIN Plugins!Blank = DlgFields /\ DOMAIN Plugins!Blank.bar = Buttons
  /\ Plugins!Blank.open /\ Plugins!Blank.ok
  /\ Plugins!Blank.curSel = "none" /\ Plugins!Blank.curAvail = "none"
  /\ DOMAIN Plugins!Blank.selected = Plugins!Types /\ DOMAIN Plugins!Blank.row = Plugins!Types
  /\ DOMAIN Plugins!Blank.marked = Plugins!Types /\ ~Plugins!Blank.bar["add"] /\ ~Plugins!Blank.bar["apply"]
  /\ \A t \in Plugins!Types :
       Plugins!Blank.selected[t] = <<>> /\ Plugins!Blank.row[t] = 0 /\ Plugins!Blank.marked[t] = "none"
BY DEF Plugins!Blank, Plugins!None, DlgFields, Buttons

LEMMA EmptyHolds ==
  ASSUME NEW M
  PROVE  Holds(<<>>, M, {})
BY DEF Holds, Distinct, ToSet

LEMMA ClearKeeps ==
  ASSUME NEW d, Well(d)
  PROVE  Well(Plugins!ClearSelected(d)) /\ Ones(Plugins!ClearSelected(d))
<1> DEFINE none == <<>>
           selected == Plugins!Blank.selected
           row == Plugins!Blank.row
           b1 == [d EXCEPT !.selected = selected]
           b2 == [b1 EXCEPT !.row = row]
           b3 == [b2 EXCEPT !.curSel = "none"]
           b4 == [b3 EXCEPT !.loaded = none]
           b == [b4 EXCEPT !.widgets = none]
           e == Refreshing(b)
<1>1. Plugins!ClearSelected(d) = e
  BY DEF Plugins!ClearSelected, Plugins!None, Refreshing
<1>2. DOMAIN d = DlgFields /\ DOMAIN d.bar = Buttons
  BY DEF Well, Formed
<1>3. /\ DOMAIN selected = Plugins!Types /\ DOMAIN row = Plugins!Types
      /\ \A t \in Plugins!Types : selected[t] = none /\ row[t] = 0
  BY BlankIs
<1>4. \A M : Holds(none, M, {})
  BY EmptyHolds
<1>5. ToSet(none) = {} /\ Len(none) = 0
  BY DEF ToSet
<1> HIDE DEF selected, row, none
<1>6. DlgLike(b1, d, {"selected"}) /\ b1.selected = selected
  BY <1>2 DEF DlgLike, DlgFields
<1> HIDE DEF b1
<1>7. DlgLike(b2, d, {"selected", "row"}) /\ b2.selected = selected /\ b2.row = row
  BY <1>6 DEF DlgLike, DlgFields
<1> HIDE DEF b2
<1>8. DlgLike(b3, d, {"selected", "row", "curSel"}) /\ b3.selected = selected /\ b3.row = row /\ b3.curSel = "none"
  BY <1>7 DEF DlgLike, DlgFields
<1> HIDE DEF b3
<1>9. /\ DlgLike(b4, d, {"selected", "row", "curSel", "loaded"}) /\ b4.selected = selected /\ b4.row = row
      /\ b4.curSel = "none" /\ b4.loaded = none
  BY <1>8 DEF DlgLike, DlgFields
<1> HIDE DEF b4
<1>10. /\ DlgLike(b, d, {"selected", "row", "curSel", "loaded", "widgets"}) /\ b.selected = selected /\ b.row = row
       /\ b.curSel = "none" /\ b.loaded = none /\ b.widgets = none
  BY <1>9 DEF DlgLike, DlgFields
<1> HIDE DEF b
<1>11. b.marked = d.marked /\ b.curAvail = d.curAvail /\ b.bar = d.bar /\ b.search = d.search /\ b.open = d.open /\ b.ok = d.ok
  BY <1>10 DEF DlgLike, DlgFields
<1>12. Formed(b) /\ MarkOfOne(b)
  BY <1>2, <1>10, <1>11 DEF Well, Marks, MarkOfOne, Formed, DlgLike
<1>13. Picked(b) /\ Selected(b) = {}
  <2>1. ASSUME NEW t \in Plugins!Types
        PROVE  b.selected[t] = none /\ Holds(b.selected[t], PluginsOf[t], ToSet(b.selected[t])) /\ b.row[t] \in 0 .. Len(b.selected[t])
    <3>1. b.selected[t] = none /\ b.row[t] = 0
      BY <1>3, <1>10
    <3>2. Holds(none, PluginsOf[t], ToSet(none))
      BY <1>4, <1>5
    <3>3. 0 \in 0 .. Len(none)
      BY <1>5
    <3> QED BY <3>1, <3>2, <3>3
  <2>2. Picked(b)
    BY <1>3, <1>10, <2>1 DEF Picked
  <2>3. Selected(b) = {}
    BY <1>5, <2>1 DEF Selected
  <2> QED BY <2>2, <2>3
<1>14. ASSUME b.bar["add"] PROVE b.marked[b.curAvail] \in Plugins!Offered(b, b.curAvail)
  <2> DEFINE t == d.curAvail
             p == d.marked[t]
  <2>1. t \in Plugins!Types /\ p \in Plugins!Offered(d, t)
    BY <1>11, <1>14, TypesAre DEF Well, Marks, MarkOfOne, Honest
  <2>2. p \in PluginsOf[t] /\ (d.search => p \in Searched)
    BY <2>1 DEF Plugins!Offered
  <2> HIDE DEF t, p
  <2>3. ~Plugins!Contains(b.selected[t], p)
    <3>1. b.selected[t] = none
      BY <1>3, <1>10, <2>1
    <3> QED BY <1>5, <3>1 DEF Plugins!Contains
  <2> QED BY <1>11, <2>2, <2>3 DEF Plugins!Offered, t, p
<1>15. /\ DlgLike(e, b, {"marked", "bar", "stale"}) /\ Formed(e) /\ Picked(e) /\ Marks(e) /\ Rows(e) /\ Applicable(e)
       /\ Selected(e) = Selected(b)
  BY <1>10, <1>12, <1>13, <1>14, DialogRefreshed
<1> HIDE DEF e
<1>16. e.open = d.open /\ e.ok = d.ok /\ e.loaded = none /\ e.widgets = none /\ e.selected = selected
  BY <1>10, <1>11, <1>15 DEF DlgLike, DlgFields
<1>17. Configs(e, Selected(e))
  <2>1. Selected(e) = {} /\ {} \cap Configurable = {}
    BY <1>13, <1>15
  <2>2. d.ok
    BY DEF Well, Configs
  <2> QED BY <1>4, <1>16, <2>1, <2>2 DEF Configs
<1>18. Well(e)
  <2>1. Selected(e) \cap Broken = {}
    BY <1>13, <1>15
  <2> QED BY <1>15, <1>16, <1>17, <2>1 DEF Well
<1>19. Ones(e)
  <2>1. \A t \in Plugins!Types : e.selected[t] = none
    BY <1>3, <1>16
  <2>2. "socket" \in Plugins!Types /\ "protocol" \in Plugins!Types
    BY TypesAre
  <2> QED BY <1>5, <2>1, <2>2 DEF Ones, none
<1> QED BY <1>1, <1>18, <1>19

LEMMA MoveKeeps ==
  ASSUME NEW d, Well(d), Plugins!CurRow(d) > 0, NEW to \in 1 .. Plugins!CurCount(d),
         NEW a, Configured(a, d, Selected(d))
  PROVE  LET t == d.curSel
             b == [a EXCEPT !.selected[t] = Plugins!InsertAt(Plugins!RemoveAt(@, d.row[t]), to, d.selected[t][d.row[t]]),
                            !.row[t] = to]
             e == Plugins!RefreshSelectedToolbar(b)
         IN  Well(e) /\ (Ones(d) => Ones(e))
<1> DEFINE t == d.curSel
           s == d.selected[t]
           from == d.row[t]
           moved == Plugins!InsertAt(Plugins!RemoveAt(s, from), to, s[from])
           b1 == [a EXCEPT !.selected[t] = moved]
           b == [b1 EXCEPT !.row[t] = to]
           e == Plugins!RefreshSelectedToolbar(b)
<1>1. Picked(d) /\ DOMAIN d = DlgFields /\ DOMAIN d.bar = Buttons /\ DOMAIN d.selected = Plugins!Types /\ DOMAIN d.row = Plugins!Types
  BY DEF Well, Formed, Picked
<1>2. t \in Plugins!Types /\ t # "none" /\ from \in 1 .. Len(s) /\ to \in 1 .. Len(s) /\ Holds(s, PluginsOf[t], ToSet(s)) /\ Len(s) \in Nat
  BY <1>1, CurRowIs DEF Picked
<1>3. Holds(moved, PluginsOf[t], ToSet(s)) /\ Len(moved) = Len(s) /\ ToSet(moved) = ToSet(s)
  <2> HIDE DEF s, from, t
  <2>1. Holds(moved, PluginsOf[t], ToSet(s)) /\ Len(moved) = Len(s)
    BY <1>2, PluginRelocated
  <2> QED BY <2>1 DEF Holds
<1>4. DlgLike(a, d, ConfigFields) /\ Configs(a, Selected(d)) /\ a.selected = d.selected /\ a.row = d.row
  BY DEF Configured, DlgLike, DlgFields, ConfigFields
<1>5. [a EXCEPT !.selected[t] = Plugins!InsertAt(Plugins!RemoveAt(@, d.row[t]), to, d.selected[t][d.row[t]]),
                !.row[t] = to] = b
  BY <1>1, <1>2, <1>4
<1> HIDE DEF moved, from
<1>6. DlgLike(b1, a, {"selected"}) /\ b1.selected = [d.selected EXCEPT ![t] = moved] /\ b1.row = d.row
  BY <1>4 DEF DlgLike, DlgFields
<1> HIDE DEF b1
<1>7. DlgLike(b, b1, {"row"}) /\ b.row = [d.row EXCEPT ![t] = to] /\ b.selected = [d.selected EXCEPT ![t] = moved]
  BY <1>6 DEF DlgLike, DlgFields
<1> HIDE DEF b
<1>8. /\ b.curSel = t /\ b.marked = d.marked /\ b.curAvail = d.curAvail /\ b.bar = d.bar /\ b.search = d.search
      /\ b.open = d.open /\ b.ok = a.ok /\ b.loaded = a.loaded /\ b.widgets = a.widgets
  BY <1>4, <1>6, <1>7 DEF DlgLike, DlgFields, ConfigFields
<1>9. /\ b.selected[t] = moved /\ b.row[t] = to
      /\ \A u \in Plugins!Types : u # t => b.selected[u] = d.selected[u] /\ b.row[u] = d.row[u]
  <2> HIDE DEF t
  <2> QED BY <1>1, <1>2, <1>7
<1>10. ASSUME NEW u \in Plugins!Types
       PROVE  /\ Holds(b.selected[u], PluginsOf[u], ToSet(d.selected[u])) /\ ToSet(b.selected[u]) = ToSet(d.selected[u])
              /\ b.row[u] \in 0 .. Len(b.selected[u]) /\ Len(b.selected[u]) = Len(d.selected[u])
  <2>1. CASE u = t
    <3>1. Holds(moved, PluginsOf[t], ToSet(s)) /\ ToSet(moved) = ToSet(s) /\ to \in 0 .. Len(moved) /\ Len(moved) = Len(s)
      BY <1>2, <1>3
    <3>2. s = d.selected[u]
      BY <2>1
    <3> HIDE DEF t, s
    <3> QED BY <1>9, <2>1, <3>1, <3>2
  <2>2. CASE u # t
    <3> HIDE DEF t
    <3> QED BY <1>1, <1>9, <2>2 DEF Picked
  <2> QED BY <2>1, <2>2
<1>11. Picked(b) /\ Selected(b) = Selected(d)
  <2>1. DOMAIN b.selected = Plugins!Types /\ DOMAIN b.row = Plugins!Types
    BY <1>1, <1>7
  <2>2. Picked(b)
    BY <1>2, <1>8, <1>10, <2>1 DEF Picked
  <2>3. Selected(b) = Selected(d)
    BY <1>10 DEF Selected
  <2> QED BY <2>2, <2>3
<1>12. Formed(b)
  BY <1>1, <1>7, <1>8 DEF Formed, DlgLike
<1>13. BarLike(e, b, {"remove", "up", "down", "some"}) /\ Rows(e) /\ Formed(e)
  BY <1>12, SelectedToolbarRows
<1> HIDE DEF e
<1>14. /\ e.selected = b.selected /\ e.row = b.row /\ e.curSel = b.curSel /\ e.marked = b.marked /\ e.curAvail = b.curAvail
       /\ e.open = b.open /\ e.ok = b.ok /\ e.loaded = b.loaded /\ e.widgets = b.widgets
       /\ (e.bar["add"] <=> b.bar["add"]) /\ (e.bar["apply"] <=> b.bar["apply"]) /\ e.search = b.search
  BY <1>13 DEF BarLike, DlgLike, DlgFields, Buttons
<1>15. Picked(e) /\ Selected(e) = Selected(d)
  BY <1>11, <1>14, PickedAlike
<1>16. Unmarked(e)
  <2>1. d.curAvail = "none"
    BY <1>2 DEF Well, Marks
  <2>2. Unmarked(d)
    BY <2>1, NoneMarked DEF Well, Marks
  <2> QED BY <1>8, <1>14, <2>2 DEF Unmarked
<1>17. Applicable(e)
  <2>1. ASSUME NEW u \in {"socket", "protocol"}, d.selected[u] # <<>> PROVE e.selected[u] # <<>>
    <3>1. u \in Plugins!Types
      BY TypesAre
    <3>2. Len(d.selected[u]) # 0
      BY <1>1, <2>1, <3>1 DEF Picked, Holds
    <3>3. Len(e.selected[u]) # 0
      BY <1>10, <1>14, <3>1, <3>2
    <3> QED BY <3>3
  <2> QED BY <1>8, <1>14, <2>1 DEF Well, Applicable
<1>18. Configs(e, Selected(e))
  <2>1. e.ok = a.ok /\ e.loaded = a.loaded /\ e.widgets = a.widgets
    BY <1>8, <1>14
  <2> QED BY <1>4, <1>15, <2>1, ConfigsAlike
<1>21. Honest(e)
  <2>1. ASSUME NEW u \in Plugins!Types PROVE Plugins!Offered(e, u) = Plugins!Offered(d, u)
    <3>1. \A p : Plugins!Contains(e.selected[u], p) <=> Plugins!Contains(d.selected[u], p)
      <4>1. /\ e.selected[u] \in Seq(PluginsOf[u]) /\ d.selected[u] \in Seq(PluginsOf[u])
            /\ ToSet(e.selected[u]) = ToSet(d.selected[u])
        BY <1>1, <1>10, <1>14 DEF Picked, Holds
      <4> QED BY <4>1, ContainsIs
    <3> QED BY <1>8, <1>14, <3>1 DEF Plugins!Offered
  <2>2. e.marked = d.marked
    BY <1>8, <1>14
  <2> QED BY <2>1, <2>2 DEF Honest, Well, Marks
<1>19. Well(e)
  <2>1. e.open /\ Selected(e) \cap Broken = {}
    BY <1>8, <1>14, <1>15 DEF Well
  <2> QED BY <1>13, <1>15, <1>16, <1>17, <1>18, <1>21, <2>1, UnmarkedMarks DEF Well
<1>20. ASSUME Ones(d) PROVE Ones(e)
  <2>1. "socket" \in Plugins!Types /\ "protocol" \in Plugins!Types
    BY TypesAre
  <2>2. Len(e.selected["socket"]) <= 1 /\ Len(e.selected["protocol"]) <= 1
    BY <1>10, <1>14, <1>20, <2>1 DEF Ones
  <2>3. e.curAvail = "none"
    BY <1>16 DEF Unmarked
  <2> QED BY <2>2, <2>3 DEF Ones
<1> QED BY <1>5, <1>19, <1>20 DEF e

LEMMA MarksRefreshed ==
  ASSUME NEW b, Formed(b), Picked(b), MarkOfOne(b), b.curSel # "none" => b.curAvail = "none", Rows(b)
  PROVE  LET e == Plugins!RefreshAvailableToolbar(Plugins!RefreshAvailablePlugins(b))
         IN  /\ DlgLike(e, b, {"marked", "bar"}) /\ Formed(e) /\ Picked(e) /\ Marks(e) /\ Rows(e)
             /\ Selected(e) = Selected(b) /\ (e.bar["apply"] <=> b.bar["apply"])
<1> DEFINE f == Plugins!RefreshAvailablePlugins(b)
           e == Plugins!RefreshAvailableToolbar(f)
<1>1. /\ DlgLike(f, b, {"marked"}) /\ DOMAIN f.marked = Plugins!Types
      /\ \A t \in Plugins!Types :
           f.marked[t] # "none" => f.marked[t] \in Plugins!Offered(b, t) /\ f.marked[t] = b.marked[t]
  BY AvailableIs DEF Formed
<1> HIDE DEF f
<1>2. f.bar = b.bar /\ f.curAvail = b.curAvail /\ f.stale = b.stale
  BY <1>1 DEF DlgLike, DlgFields
<1>3. /\ BarLike(e, f, {"add"}) /\ (e.bar["add"] => f.curAvail # "none" /\ f.marked[f.curAvail] # "none")
      /\ e.stale = f.stale
  BY <1>1, <1>2, AvailableToolbarIs DEF Formed, DlgLike
<1> HIDE DEF e
<1>4. /\ e.selected = b.selected /\ e.row = b.row /\ e.curSel = b.curSel /\ e.curAvail = b.curAvail /\ e.search = b.search
      /\ e.marked = f.marked
  BY <1>1, <1>3 DEF BarLike, DlgLike, DlgFields
<1>5. /\ e.bar["remove"] <=> b.bar["remove"]
      /\ e.bar["up"] <=> b.bar["up"]
      /\ e.bar["down"] <=> b.bar["down"]
      /\ e.bar["apply"] <=> b.bar["apply"]
  BY <1>2, <1>3 DEF BarLike, Buttons
<1>6. Picked(e) /\ Selected(e) = Selected(b)
  BY <1>4, PickedAlike
<1>7. Rows(e)
  <2>1. Plugins!CurRow(e) = Plugins!CurRow(b) /\ Plugins!CurCount(e) = Plugins!CurCount(b)
    BY <1>4, CurAlike
  <2> QED BY <1>2, <1>3, <1>5, <2>1 DEF Rows
<1>8. DlgLike(e, b, {"marked", "bar"}) /\ Formed(e)
  BY <1>1, <1>2, <1>3 DEF BarLike, DlgLike, DlgFields, Formed
<1>9. Marks(e)
  <2>1. \A t \in Plugins!Types : Plugins!Offered(e, t) = Plugins!Offered(b, t)
    BY <1>4, OfferedAlike
  <2>2. MarkOfOne(e)
    BY <1>1, <1>2, <1>3, <1>4 DEF MarkOfOne
  <2>3. e.bar["add"] => e.marked[e.curAvail] # "none"
    BY <1>2, <1>3, <1>4
  <2> QED BY <1>1, <1>4, <2>1, <2>2, <2>3 DEF Marks, Honest
<1> QED BY <1>5, <1>6, <1>7, <1>8, <1>9 DEF e, f

LEMMA SearchKeeps ==
  ASSUME NEW d, Well(d)
  PROVE  LET e == Plugins!RefreshAvailableToolbar(Plugins!RefreshAvailablePlugins([d EXCEPT !.search = ~@]))
         IN  Well(e) /\ (Ones(d) => Ones(e))
<1> DEFINE b == [d EXCEPT !.search = ~d.search]
           e == Plugins!RefreshAvailableToolbar(Plugins!RefreshAvailablePlugins(b))
<1>1. DOMAIN d = DlgFields /\ DOMAIN d.bar = Buttons
  BY DEF Well, Formed
<1>2. [d EXCEPT !.search = ~@] = b
  OBVIOUS
<1>3. DlgLike(b, d, {"search"})
  BY <1>1 DEF DlgLike, DlgFields
<1> HIDE DEF b
<1>4. /\ b.selected = d.selected /\ b.row = d.row /\ b.curSel = d.curSel /\ b.curAvail = d.curAvail
      /\ b.marked = d.marked /\ b.bar = d.bar /\ b.open = d.open /\ b.ok = d.ok /\ b.loaded = d.loaded /\ b.widgets = d.widgets
      /\ b.stale = d.stale
  BY <1>3 DEF DlgLike, DlgFields
<1>5. Formed(b) /\ MarkOfOne(b)
  BY <1>1, <1>3, <1>4 DEF Well, Marks, MarkOfOne, Formed, DlgLike
<1>6. Picked(b) /\ Selected(b) = Selected(d)
  BY <1>4, PickedAlike DEF Well
<1>7. Rows(b)
  <2>1. Plugins!CurRow(b) = Plugins!CurRow(d) /\ Plugins!CurCount(b) = Plugins!CurCount(d)
    BY <1>4, CurAlike
  <2> QED BY <1>4, <2>1 DEF Rows, Well
<1>8. /\ DlgLike(e, b, {"marked", "bar"}) /\ Formed(e) /\ Picked(e) /\ Marks(e) /\ Rows(e)
      /\ Selected(e) = Selected(b) /\ (e.bar["apply"] <=> b.bar["apply"])
  BY <1>4, <1>5, <1>6, <1>7, MarksRefreshed DEF Well, Marks
<1> HIDE DEF e
<1>9. /\ e.selected = d.selected /\ e.open = d.open /\ e.ok = d.ok /\ e.loaded = d.loaded /\ e.widgets = d.widgets
      /\ e.curAvail = d.curAvail
  BY <1>4, <1>8 DEF DlgLike, DlgFields
<1>10. Applicable(e)
  BY <1>4, <1>8, <1>9 DEF Well, Applicable
<1>11. Configs(e, Selected(e))
  BY <1>6, <1>8, <1>9, ConfigsAlike DEF Well
<1>12. Well(e)
  <2>1. Selected(e) \cap Broken = {}
    BY <1>6, <1>8 DEF Well
  <2> QED BY <1>8, <1>9, <1>10, <1>11, <2>1 DEF Well
<1>13. ASSUME Ones(d) PROVE Ones(e)
  BY <1>9, <1>13 DEF Ones
<1> QED BY <1>2, <1>12, <1>13 DEF e

-----------------------------------------------------------------------------
(* Lists that the dialog would show as they are: no plug-in twice, sockets     *)
(* first and protocols last.                                                 *)
ByType(list) ==
  /\ Holds(list, Plugins!Plugins, ToSet(list))
  /\ list = Plugins!OfType(list, "socket") \o Plugins!OfType(list, "filter") \o Plugins!OfType(list, "protocol")

Single(list) == Len(Plugins!OfType(list, "socket")) <= 1 /\ Len(Plugins!OfType(list, "protocol")) <= 1

LEMMA OfTypeIs ==
  ASSUME NEW list, Holds(list, Plugins!Plugins, ToSet(list)), NEW t \in Plugins!Types
  PROVE  Holds(Plugins!OfType(list, t), PluginsOf[t], ToSet(list) \cap PluginsOf[t])
<1> DEFINE s == Among(list, PluginsOf[t])
<1>1. Plugins!OfType(list, t) = s
  BY PluginListsAlike DEF Plugins!OfType
<1>2. Holds(s, Plugins!Plugins, ToSet(list) \cap PluginsOf[t])
  BY AmongIs DEF Holds
<1> HIDE DEF s
<1>3. Holds(s, PluginsOf[t], ToSet(list) \cap PluginsOf[t])
  <2>1. ToSet(list) \cap PluginsOf[t] \subseteq PluginsOf[t]
    OBVIOUS
  <2> QED BY <1>2, <2>1, HoldsLess
<1> QED BY <1>1, <1>3

LEMMA InfosAre ==
  ASSUME NEW d, Picked(d)
  PROVE  /\ ByType(Plugins!Infos(d)) /\ ToSet(Plugins!Infos(d)) = Selected(d)
         /\ \A t \in Plugins!Types : Plugins!OfType(Plugins!Infos(d), t) = d.selected[t]
         /\ Plugins!Infos(d) = <<>> => d.selected["socket"] = <<>>
<1> DEFINE M == Plugins!Plugins
           a == d.selected["socket"]
           b == d.selected["filter"]
           c == d.selected["protocol"]
           A == ToSet(a)
           B == ToSet(b)
           C == ToSet(c)
           P == PluginsOf["socket"]
           Q == PluginsOf["filter"]
           R == PluginsOf["protocol"]
           u == Plugins!Infos(d)
<1>1. "socket" \in Plugins!Types /\ "filter" \in Plugins!Types /\ "protocol" \in Plugins!Types
  BY TypesAre
<1>2. Holds(a, P, A) /\ Holds(b, Q, B) /\ Holds(c, R, C)
  BY <1>1 DEF Picked
<1>3. P \subseteq M /\ Q \subseteq M /\ R \subseteq M
  BY <1>1, TypesAre
<1>4. P \cap Q = {} /\ P \cap R = {} /\ Q \cap R = {}
  BY <1>1, PluginsAssumption, TypesAre
<1>5. u = a \o b \o c
  BY DEF Plugins!Infos
<1>6. Selected(d) = A \cup B \cup C
  BY TypesAre DEF Selected
<1>7. \A t : Plugins!OfType(u, t) = Among(u, PluginsOf[t])
  BY PluginListsAlike DEF Plugins!OfType
<1> HIDE DEF a, b, c, A, B, C, P, Q, R, M, u
<1>8. Holds(a, M, A) /\ Holds(b, M, B) /\ Holds(c, M, C)
  BY <1>2, <1>3, HoldsMore
<1>9. A \subseteq P /\ B \subseteq Q /\ C \subseteq R
  BY <1>2, ElementsOf DEF Holds
<1>10. A \cap B = {} /\ A \cap C = {} /\ B \cap C = {}
  BY <1>4, <1>9
<1>11. Holds(u, M, A \cup B \cup C) /\ Len(u) = Len(a) + Len(b) + Len(c)
  BY <1>5, <1>8, <1>10, ThreeParts
<1>12. Among(u, P) = a /\ Among(u, Q) = b /\ Among(u, R) = c
  <2>1. Among(a \o b \o c, P) = a /\ Among(a \o b \o c, Q) = b /\ Among(a \o b \o c, R) = c
    BY <1>4, <1>8, <1>9, PartsAre
  <2> QED BY <1>5, <2>1, Zenon
<1>13. ToSet(u) = Selected(d)
  BY <1>6, <1>11 DEF Holds
<1>14. Plugins!OfType(u, "socket") = a /\ Plugins!OfType(u, "filter") = b /\ Plugins!OfType(u, "protocol") = c
  BY <1>7, <1>12 DEF P, Q, R
<1>15. ByType(u)
  <2>1. Holds(u, M, ToSet(u))
    BY <1>11 DEF Holds
  <2> QED BY <1>5, <1>14, <2>1 DEF ByType, M
<1>16. \A t \in Plugins!Types : Plugins!OfType(u, t) = d.selected[t]
  BY <1>14, TypesAre DEF a, b, c
<1>17. ASSUME u = <<>> PROVE a = <<>>
  <2>1. Len(u) = 0 /\ Len(a) \in Nat /\ Len(b) \in Nat /\ Len(c) \in Nat /\ a \in Seq(M)
    BY <1>8, <1>17 DEF Holds
  <2>2. \A x, y, z \in Nat : x + y + z = 0 => x = 0
    OBVIOUS
  <2>3. Len(a) + Len(b) + Len(c) = 0
    BY <1>11, <2>1
  <2>4. Len(a) = 0
    BY <2>1, <2>2, <2>3
  <2> QED BY <2>1, <2>4
<1> QED BY <1>13, <1>15, <1>16, <1>17 DEF u, a

LEMMA EmptyByType == ByType(<<>>) /\ Single(<<>>) /\ \A t \in Plugins!Types : Plugins!OfType(<<>>, t) = <<>>
<1> DEFINE none == <<>>
<1>1. Holds(none, Plugins!Plugins, ToSet(none)) /\ Len(none) = 0 /\ ToSet(none) = {}
  BY DEF Holds, Distinct, ToSet
<1>2. ASSUME NEW t \in Plugins!Types PROVE Plugins!OfType(none, t) = none
  <2> DEFINE s == Plugins!OfType(none, t)
  <2>1. Holds(s, PluginsOf[t], ToSet(none) \cap PluginsOf[t])
    <3> HIDE DEF none
    <3> QED BY <1>1, OfTypeIs
  <2> HIDE DEF s
  <2>2. s \in Seq(PluginsOf[t]) /\ ToSet(s) = {}
    BY <1>1, <2>1 DEF Holds
  <2>3. Len(s) = 0
    BY <2>2, ElementsOf
  <2> QED BY <2>2, <2>3 DEF s
<1>3. none = none \o none \o none
  OBVIOUS
<1>4. ByType(none)
  <2>1. Plugins!OfType(none, "socket") = none /\ Plugins!OfType(none, "filter") = none /\ Plugins!OfType(none, "protocol") = none
    BY <1>2, TypesAre
  <2> HIDE DEF none
  <2> QED BY <1>1, <1>3, <2>1 DEF ByType
<1>5. Single(none)
  <2>1. Plugins!OfType(none, "socket") = none /\ Plugins!OfType(none, "protocol") = none
    BY <1>2, TypesAre
  <2> HIDE DEF none
  <2> QED BY <1>1, <2>1 DEF Single
<1> QED BY <1>2, <1>4, <1>5

LEMMA ShowsList ==
  ASSUME NEW d, Formed(d), d.open, d.ok, MarkOfOne(d), NEW list, ByType(list), Plugins!Loadable(list)
  PROVE  LET e == Plugins!ShowList(d, list)
         IN  /\ Well(e) /\ Plugins!Infos(e) = list
             /\ d.curAvail = "none" /\ Single(list) => Ones(e)
<1> DEFINE none == <<>>
           row == Plugins!Blank.row
           selected == [t \in Plugins!Types |-> Plugins!OfType(list, t)]
           b1 == [d EXCEPT !.curSel = "none"]
           b2 == [b1 EXCEPT !.row = row]
           b3 == [b2 EXCEPT !.loaded = none]
           b4 == [b3 EXCEPT !.widgets = none]
           b == [b4 EXCEPT !.selected = selected]
           a == Plugins!AddConfigs(b, list)
           g == Plugins!RefreshSelectedToolbar(a)
           h == Plugins!RefreshAvailableToolbar(Plugins!RefreshAvailablePlugins(g))
           e == Plugins!RefreshButtonBox(h)
           S == ToSet(list)
<1>1. Plugins!ShowList(d, list) = e
  BY DEF Plugins!ShowList, Plugins!RefreshSelectedPlugins, Plugins!None
<1>2. DOMAIN d = DlgFields /\ DOMAIN d.bar = Buttons
  BY DEF Formed
<1>3. DOMAIN row = Plugins!Types /\ \A t \in Plugins!Types : row[t] = 0
  BY BlankIs
<1>4. \A M : Holds(none, M, {})
  BY EmptyHolds
<1>5. DOMAIN selected = Plugins!Types /\ \A t \in Plugins!Types : selected[t] = Plugins!OfType(list, t)
  OBVIOUS
<1>6. \A t \in Plugins!Types : Holds(Plugins!OfType(list, t), PluginsOf[t], S \cap PluginsOf[t])
  BY OfTypeIs DEF ByType
<1> HIDE DEF row, none, selected
<1>7. DlgLike(b1, d, {"curSel"}) /\ b1.curSel = "none"
  BY <1>2 DEF DlgLike, DlgFields
<1> HIDE DEF b1
<1>8. DlgLike(b2, d, {"curSel", "row"}) /\ b2.curSel = "none" /\ b2.row = row
  BY <1>7 DEF DlgLike, DlgFields
<1> HIDE DEF b2
<1>9. DlgLike(b3, d, {"curSel", "row", "loaded"}) /\ b3.curSel = "none" /\ b3.row = row /\ b3.loaded = none
  BY <1>8 DEF DlgLike, DlgFields
<1> HIDE DEF b3
<1>10. /\ DlgLike(b4, d, {"curSel", "row", "loaded", "widgets"}) /\ b4.curSel = "none" /\ b4.row = row
       /\ b4.loaded = none /\ b4.widgets = none
  BY <1>9 DEF DlgLike, DlgFields
<1> HIDE DEF b4
<1>11. /\ DlgLike(b, d, {"selected", "row", "curSel", "loaded", "widgets"}) /\ b.selected = selected /\ b.row = row
       /\ b.curSel = "none" /\ b.loaded = none /\ b.widgets = none
  BY <1>10 DEF DlgLike, DlgFields
<1> HIDE DEF b
<1>12. b.marked = d.marked /\ b.curAvail = d.curAvail /\ b.bar = d.bar /\ b.open = d.open /\ b.ok = d.ok
  BY <1>11 DEF DlgLike, DlgFields
<1>13. Configured(a, b, S)
  <2>1. Configs(b, {})
    <3>1. {} \cap Configurable = {}
      OBVIOUS
    <3> QED BY <1>4, <1>11, <1>12, <3>1 DEF Configs
  <2>2. DOMAIN b = DlgFields /\ Holds(list, Plugins!Plugins, S) /\ S \cap Broken = {}
    BY <1>11, PluginListsAlike DEF ByType, DlgLike, Plugins!Loadable
  <2> HIDE DEF S
  <2> QED BY <2>1, <2>2, ConfigsAdded
<1> HIDE DEF a
<1>14. /\ DlgLike(a, b, ConfigFields) /\ Configs(a, S) /\ a.selected = selected /\ a.row = row /\ a.curSel = "none"
       /\ a.marked = d.marked /\ a.curAvail = d.curAvail /\ a.bar = d.bar /\ a.open = d.open
  BY <1>11, <1>12, <1>13 DEF Configured, DlgLike, DlgFields, ConfigFields
<1>15. Picked(a) /\ Selected(a) = S
  <2>1. ASSUME NEW t \in Plugins!Types
        PROVE  /\ Holds(a.selected[t], PluginsOf[t], ToSet(a.selected[t])) /\ ToSet(a.selected[t]) = S \cap PluginsOf[t]
               /\ a.row[t] \in 0 .. Len(a.selected[t])
    <3> DEFINE s == Plugins!OfType(list, t)
    <3>1. Holds(s, PluginsOf[t], S \cap PluginsOf[t])
      BY <1>6
    <3>2. a.selected[t] = s /\ a.row[t] = 0
      BY <1>3, <1>5, <1>14
    <3> HIDE DEF s, S
    <3>3. ToSet(s) = S \cap PluginsOf[t] /\ Len(s) \in Nat /\ Holds(s, PluginsOf[t], ToSet(s))
      BY <3>1 DEF Holds
    <3> QED BY <3>2, <3>3
  <2>2. Picked(a)
    BY <1>3, <1>5, <1>14, <2>1 DEF Picked
  <2>3. S \subseteq Plugins!Plugins
    BY ElementsOf DEF ByType, Holds
  <2> HIDE DEF S
  <2>4. Selected(a) = S
    BY <2>1, <2>3 DEF Selected, Plugins!Plugins
  <2> QED BY <2>2, <2>4
<1>16. Formed(a) /\ MarkOfOne(a)
  BY <1>2, <1>14 DEF MarkOfOne, Formed, DlgLike
<1>17. BarLike(g, a, {"remove", "up", "down", "some"}) /\ Rows(g) /\ Formed(g)
  BY <1>16, SelectedToolbarRows
<1> HIDE DEF g
<1>18. /\ DlgLike(g, a, {"bar", "stale"}) /\ g.selected = a.selected /\ g.row = a.row /\ g.curSel = a.curSel
       /\ g.curAvail = a.curAvail /\ g.marked = a.marked /\ (g.bar["add"] <=> a.bar["add"])
  BY <1>17 DEF BarLike, DlgLike, DlgFields, Buttons
<1>19. Picked(g) /\ Selected(g) = S /\ MarkOfOne(g)
  BY <1>15, <1>16, <1>18, PickedAlike DEF MarkOfOne
<1>20. /\ DlgLike(h, g, {"marked", "bar"}) /\ Formed(h) /\ Picked(h) /\ Marks(h) /\ Rows(h) /\ Selected(h) = Selected(g)
  BY <1>14, <1>17, <1>18, <1>19, MarksRefreshed
<1> HIDE DEF h
<1>21. BarLike(e, h, {"apply"}) /\ e.stale = h.stale /\ (e.bar["apply"] => h.selected["socket"] # <<>> /\ h.selected["protocol"] # <<>>)
  BY <1>20, ButtonBoxIs DEF Formed
<1> HIDE DEF e
<1>22. /\ e.selected = h.selected /\ e.row = h.row /\ e.curSel = h.curSel /\ e.curAvail = h.curAvail /\ e.search = h.search
       /\ e.marked = h.marked /\ (e.bar["add"] <=> h.bar["add"]) /\ (e.bar["remove"] <=> h.bar["remove"])
       /\ (e.bar["up"] <=> h.bar["up"]) /\ (e.bar["down"] <=> h.bar["down"])
  BY <1>21 DEF BarLike, DlgLike, DlgFields, Buttons
<1>23. e.ok = a.ok /\ e.loaded = a.loaded /\ e.widgets = a.widgets /\ e.open = a.open /\ e.selected = selected /\ e.curAvail = d.curAvail
  <2>1. /\ g.ok = a.ok /\ g.loaded = a.loaded /\ g.widgets = a.widgets /\ g.open = a.open
        /\ g.selected = selected /\ g.curAvail = d.curAvail
    BY <1>14, <1>18 DEF DlgLike, DlgFields
  <2>2. /\ h.ok = g.ok /\ h.loaded = g.loaded /\ h.widgets = g.widgets /\ h.open = g.open
        /\ h.selected = g.selected /\ h.curAvail = g.curAvail
    BY <1>20 DEF DlgLike, DlgFields
  <2>3. /\ e.ok = h.ok /\ e.loaded = h.loaded /\ e.widgets = h.widgets /\ e.open = h.open
        /\ e.selected = h.selected /\ e.curAvail = h.curAvail
    BY <1>21 DEF BarLike, DlgLike, DlgFields
  <2> QED BY <2>1, <2>2, <2>3
<1>24. Picked(e) /\ Selected(e) = S
  BY <1>19, <1>20, <1>22, PickedAlike
<1>25. Marks(e)
  <2>1. \A t \in Plugins!Types : Plugins!Offered(e, t) = Plugins!Offered(h, t)
    BY <1>22, OfferedAlike
  <2>2. MarkOfOne(e)
    BY <1>20, <1>22 DEF Marks, MarkOfOne
  <2> QED BY <1>20, <1>22, <2>1, <2>2 DEF Marks, Honest
<1>26. Rows(e)
  <2>1. Plugins!CurRow(e) = Plugins!CurRow(h) /\ Plugins!CurCount(e) = Plugins!CurCount(h)
    BY <1>22, CurAlike
  <2> QED BY <1>20, <1>21, <1>22, <2>1 DEF Rows
<1>27. Applicable(e)
  BY <1>21, <1>22 DEF Applicable
<1>28. Configs(e, Selected(e))
  <2>1. Configs(e, S)
    BY <1>14, <1>23, ConfigsAlike
  <2> QED BY <1>24, <2>1
<1>29. Formed(e)
  BY <1>21 DEF Formed, BarLike, DlgLike
<1>30. Well(e)
  <2>1. Selected(e) \cap Broken = {}
    BY <1>24, PluginListsAlike DEF Plugins!Loadable
  <2> QED BY <1>14, <1>23, <1>24, <1>25, <1>26, <1>27, <1>28, <1>29, <2>1 DEF Well
<1>31. Plugins!Infos(e) = list
  BY <1>5, <1>23, TypesAre DEF Plugins!Infos, ByType
<1>32. ASSUME d.curAvail = "none", Single(list) PROVE Ones(e)
  BY <1>5, <1>23, <1>32, TypesAre DEF Ones, Single
<1> QED BY <1>1, <1>30, <1>31, <1>32

LEMMA BlankShowsList ==
  ASSUME NEW list, ByType(list), Plugins!Loadable(list)
  PROVE  LET e == Plugins!ShowList(Plugins!Blank, list)
         IN  Well(e) /\ Plugins!Infos(e) = list /\ (Single(list) => Ones(e))
<1> DEFINE d == Plugins!Blank
<1>1. Formed(d) /\ MarkOfOne(d) /\ d.open /\ d.ok /\ d.curAvail = "none"
  BY BlankIs, TypesAre DEF Formed, MarkOfOne
<1> HIDE DEF d
<1> QED BY <1>1, ShowsList DEF d

(* Configuration widgets that were moved and nothing else.                    *)
LEMMA ConfiguredKeeps ==
  ASSUME NEW d, Well(d), NEW e, Configured(e, d, Selected(d))
  PROVE  Well(e) /\ (Ones(d) => Ones(e)) /\ Plugins!Infos(e) = Plugins!Infos(d)
<1>1. /\ DOMAIN e = DlgFields /\ e.open = d.open /\ e.selected = d.selected /\ e.row = d.row /\ e.curSel = d.curSel
      /\ e.marked = d.marked /\ e.curAvail = d.curAvail /\ e.search = d.search /\ e.bar = d.bar /\ e.stale = d.stale
  BY DEF Configured, DlgLike, DlgFields, ConfigFields
<1>2. Picked(e) /\ Selected(e) = Selected(d)
  BY <1>1, PickedAlike DEF Well
<1>3. Honest(e)
  BY <1>1, HonestAlike DEF Well, Marks
<1>4. Marks(e)
  BY <1>1, <1>3 DEF Well, Marks, MarkOfOne
<1>5. Rows(e)
  <2>1. Plugins!CurRow(e) = Plugins!CurRow(d) /\ Plugins!CurCount(e) = Plugins!CurCount(d)
    BY <1>1, CurAlike
  <2> QED BY <1>1, <2>1 DEF Well, Rows
<1>6. Formed(e) /\ Applicable(e) /\ e.open /\ Selected(e) \cap Broken = {}
  BY <1>1, <1>2 DEF Well, Formed, Applicable
<1>7. Configs(e, Selected(e))
  <2>1. Configs(e, Selected(d))
    BY DEF Configured
  <2> QED BY <1>2, <2>1, Zenon
<1>8. Well(e)
  BY <1>2, <1>4, <1>5, <1>6, <1>7 DEF Well
<1>9. Ones(d) => Ones(e)
  BY <1>1 DEF Ones
<1> QED BY <1>1, <1>8, <1>9 DEF Plugins!Infos

(* The assertion of a move, which may only fail when the buttons are stale.   *)
LEMMA StaleMoveKeeps ==
  ASSUME NEW d, Well(d), d.stale, NEW a, Configured(a, d, Selected(d))
  PROVE  Well(Plugins!Check(a, d.stale)) /\ (Ones(d) => Ones(Plugins!Check(a, d.stale)))
<1> DEFINE ok == a.ok /\ d.stale
           e == [a EXCEPT !.ok = ok]
<1>1. Plugins!Check(a, d.stale) = e
  BY DEF Plugins!Check
<1>2. ok
  BY DEF Configured, Configs
<1> HIDE DEF ok
<1>3. DlgLike(e, a, {"ok"}) /\ e.ok
  BY <1>2 DEF Configured, DlgLike, DlgFields
<1> HIDE DEF e
<1>4. e.loaded = a.loaded /\ e.widgets = a.widgets /\ DlgLike(e, d, ConfigFields)
  BY <1>3 DEF Configured, DlgLike, DlgFields, ConfigFields
<1>5. Configured(e, d, Selected(d))
  BY <1>3, <1>4 DEF Configured, Configs
<1> QED BY <1>1, <1>5, ConfiguredKeeps

LEMMA MoveIs ==
  ASSUME NEW d, Well(d), Plugins!CurRow(d) > 0, NEW to, to \in 1 .. Plugins!CurCount(d) \/ d.stale
  PROVE  LET top == Plugins!Move(d, Plugins!ConfigTop, to)
             up == Plugins!Move(d, Plugins!ConfigUp, to)
             down == Plugins!Move(d, Plugins!ConfigDown, to)
             bottom == Plugins!Move(d, Plugins!ConfigBottom, to)
         IN  /\ Well(top) /\ Well(up) /\ Well(down) /\ Well(bottom)
             /\ Ones(d) => Ones(top) /\ Ones(up) /\ Ones(down) /\ Ones(bottom)
<1> DEFINE t == d.curSel
           p == d.selected[t][d.row[t]]
           Moved(a) == IF to \notin 1 .. Plugins!CurCount(d) THEN Plugins!Check(a, d.stale)
                       ELSE Plugins!RefreshSelectedToolbar(
                         [a EXCEPT !.selected[t] = Plugins!InsertAt(Plugins!RemoveAt(@, d.row[t]), to, p), !.row[t] = to])
<1>1. d.curSel # "none" /\ Plugins!CurRow(d) # 0
  BY CurRowIs DEF Well
<1>2. /\ Plugins!Move(d, Plugins!ConfigTop, to) = Moved(Plugins!ConfigTop(d, p))
      /\ Plugins!Move(d, Plugins!ConfigUp, to) = Moved(Plugins!ConfigUp(d, p))
      /\ Plugins!Move(d, Plugins!ConfigDown, to) = Moved(Plugins!ConfigDown(d, p))
      /\ Plugins!Move(d, Plugins!ConfigBottom, to) = Moved(Plugins!ConfigBottom(d, p))
  BY <1>1 DEF Plugins!Move, Plugins!None
<1>3. ASSUME NEW a, Configured(a, d, Selected(d)) PROVE Well(Moved(a)) /\ (Ones(d) => Ones(Moved(a)))
  <2>1. CASE to \in 1 .. Plugins!CurCount(d)
    BY <1>3, <2>1, MoveKeeps
  <2>2. CASE to \notin 1 .. Plugins!CurCount(d)
    BY <1>3, <2>2, StaleMoveKeeps
  <2> QED BY <2>1, <2>2
<1>4. /\ Configured(Plugins!ConfigTop(d, p), d, Selected(d)) /\ Configured(Plugins!ConfigUp(d, p), d, Selected(d))
      /\ Configured(Plugins!ConfigDown(d, p), d, Selected(d)) /\ Configured(Plugins!ConfigBottom(d, p), d, Selected(d))
  BY ConfigsMoved DEF Well, Formed
<1> HIDE DEF Moved
<1> QED BY <1>2, <1>3, <1>4

-----------------------------------------------------------------------------
(* The dialog, the plug-in manager and what runs.                             *)
RunsAs(list) ==
  [socket |-> Plugins!First(list, "socket"), filters |-> Plugins!OfType(list, "filter"),
   protocol |-> Plugins!First(list, "protocol")]

(* A list that was stored or applied.                                        *)
Kept(list) == ByType(list) /\ (~loadedOver => Single(list))

Shown(d) == Well(d) /\ (~loadedOver => Ones(d))

PluginsSound ==
  /\ dlg = Plugins!Closed \/ Shown(dlg)
  /\ ~dlg.open => shows = <<>>
  /\ ~started => applied = <<>> /\ ~dlg.open
  /\ shows # <<>> => Plugins!Infos(dlg) = shows
  /\ Kept(applied) /\ \A list \in files : Kept(list)
  /\ ToSet(applied) \subseteq libs /\ running = RunsAs(applied)
  /\ Plugins!Loadable(applied) /\ (aborted => \E list \in files : ~Plugins!Loadable(list))

PluginsRuns == subject = "plugins" => PluginsSound

LEMMA DialogClosedIs ==
  /\ ~Plugins!Closed.open /\ Plugins!Closed.ok
  /\ \A ok : ok => [Plugins!Closed EXCEPT !.ok = ok] = Plugins!Closed
<1> DEFINE c == Plugins!Closed
<1>1. c = [open |-> FALSE, ok |-> TRUE]
  BY DEF Plugins!Closed
<1>2. DOMAIN c = {"open", "ok"} /\ c["ok"] = TRUE /\ c["open"] = FALSE
  BY <1>1
<1>3. c = [f \in DOMAIN c |-> c[f]]
  BY <1>1, Zenon
<1> HIDE DEF c
<1>4. [c EXCEPT !.ok = TRUE] = c
  <2> DEFINE d == [c EXCEPT !.ok = TRUE]
  <2>1. DOMAIN d = DOMAIN c /\ \A f \in DOMAIN c : d[f] = c[f]
    BY <1>2, <1>3
  <2>2. d = [f \in DOMAIN c |-> d[f]]
    BY <2>1
  <2> QED BY <1>3, <2>1, <2>2
<1>5. \A ok \in BOOLEAN : ok => [c EXCEPT !.ok = ok] = c
  BY <1>4
<1> QED BY <1>2, <1>5 DEF c

LEMMA GivenByType ==
  \A list \in GivenLists : ByType(list) /\ Single(list)
<1> SUFFICES ASSUME NEW list \in GivenLists PROVE ByType(list) /\ Single(list)
  OBVIOUS
<1>1. list \in Seq(Plugins!Plugins) /\ Plugins!IsInjective(list)
  BY ListsAssumption
<1>2. Distinct(list)
  BY <1>1, InjectiveIs
<1>3. Holds(list, Plugins!Plugins, ToSet(list))
  BY <1>1, <1>2 DEF Holds
<1> QED BY <1>3, ListsAssumption DEF ByType, Single

(* The dialog that is shown has one list, and from an honest one comes an      *)
(* honest one.                                                              *)
LEMMA ShownInfos ==
  ASSUME NEW d, Shown(d)
  PROVE  /\ Kept(Plugins!Infos(d)) /\ Picked(d) /\ d.open /\ d.ok
         /\ ToSet(Plugins!Infos(d)) = Selected(d) /\ Plugins!Loadable(Plugins!Infos(d))
<1>1. Picked(d) /\ d.open /\ d.ok
  BY DEF Shown, Well, Configs
<1>2. /\ ByType(Plugins!Infos(d)) /\ ToSet(Plugins!Infos(d)) = Selected(d)
      /\ \A t \in Plugins!Types : Plugins!OfType(Plugins!Infos(d), t) = d.selected[t]
  BY <1>1, InfosAre
<1>3. Ones(d) => Single(Plugins!Infos(d))
  BY <1>2, TypesAre DEF Ones, Single
<1>4. Plugins!Loadable(Plugins!Infos(d))
  BY <1>2, PluginListsAlike DEF Shown, Well, Plugins!Loadable
<1> QED BY <1>1, <1>2, <1>3, <1>4 DEF Shown, Kept

LEMMA RowClickedKeeps ==
  ASSUME NEW d, Well(d), NEW t \in Plugins!Types, NEW r \in 1 .. Len(d.selected[t])
  PROVE  LET e == Plugins!SelectedPluginClicked(d, t, r)
         IN  Well(e) /\ (Ones(d) => Ones(e)) /\ Plugins!Infos(e) = Plugins!Infos(d)
<1> DEFINE e == Plugins!SelectedPluginClicked(d, t, r)
<1>1. Formed(d) /\ Picked(d) /\ MarkOfOne(d) /\ d.open /\ Configs(d, Selected(d)) /\ Applicable(d)
  BY DEF Well, Marks
<1>2. /\ DlgLike(e, d, ClickFields) /\ AtRow(e, t, r) /\ (e.bar["apply"] <=> d.bar["apply"])
      /\ \A u \in Plugins!Types : e.marked[u] \in {"none", d.marked[u]}
  BY <1>1, SelectedClicked
<1> HIDE DEF e
<1>3. /\ e.open = d.open /\ e.selected = d.selected /\ e.search = d.search
      /\ e.ok = d.ok /\ e.loaded = d.loaded /\ e.widgets = d.widgets
  BY <1>2 DEF DlgLike, DlgFields, ClickFields
<1>4. Selected(e) = Selected(d) /\ Plugins!Infos(e) = Plugins!Infos(d)
  BY <1>3 DEF Selected, Plugins!Infos
<1>5. Configs(e, Selected(d))
  BY <1>1, <1>3, ConfigsAlike
<1>6. Configs(e, Selected(e))
  BY <1>4, <1>5, Zenon
<1>7. Applicable(e)
  BY <1>1, <1>2, <1>3 DEF Applicable
<1>8. Marks(e)
  <2>1. Honest(e)
    BY <1>2, <1>3, HonestAlike DEF Well, Marks
  <2> QED BY <1>2, <2>1, UnmarkedMarks DEF AtRow
<1>9. Well(e)
  <2>1. Selected(e) \cap Broken = {}
    BY <1>4 DEF Well
  <2> QED BY <1>1, <1>2, <1>3, <1>6, <1>7, <1>8, <2>1 DEF Well, AtRow
<1>10. e.curAvail = "none"
  BY <1>2 DEF AtRow, Unmarked
<1>11. Ones(d) => Ones(e)
  BY <1>3, <1>10 DEF Ones
<1> QED BY <1>4, <1>9, <1>11 DEF e

(* A key makes another plug-in current, in either kind of list.               *)
LEMMA AvailableKeyKeeps ==
  ASSUME NEW d, Well(d), NEW t \in Plugins!Types, NEW p \in Plugins!Offered(d, t)
  PROVE  LET e == [d EXCEPT !.marked[t] = p]
         IN  Well(e) /\ (Ones(d) => Ones(e))
<1> DEFINE e == [d EXCEPT !.marked[t] = p]
<1>1. DOMAIN d = DlgFields /\ DOMAIN d.marked = Plugins!Types
  BY DEF Well, Formed, Marks, MarkOfOne
<1>2. DlgLike(e, d, {"marked"}) /\ e.marked = [d.marked EXCEPT ![t] = p]
  BY <1>1 DEF DlgLike, DlgFields
<1> HIDE DEF e
<1>3. /\ DOMAIN e = DlgFields /\ e.open = d.open /\ e.selected = d.selected /\ e.row = d.row /\ e.curSel = d.curSel
      /\ e.curAvail = d.curAvail /\ e.search = d.search /\ e.bar = d.bar /\ e.stale = d.stale
      /\ e.ok = d.ok /\ e.loaded = d.loaded /\ e.widgets = d.widgets
  BY <1>2 DEF DlgLike, DlgFields
<1>4. Picked(e) /\ Selected(e) = Selected(d)
  BY <1>3, PickedAlike DEF Well
<1>5. DOMAIN e.marked = Plugins!Types /\ e.marked[t] = p /\ \A u \in Plugins!Types : u # t => e.marked[u] = d.marked[u]
  BY <1>1, <1>2
<1>6. Marks(e)
  <2>1. \A u \in Plugins!Types : Plugins!Offered(e, u) = Plugins!Offered(d, u)
    BY <1>3, OfferedAlike
  <2>2. p # "none"
    BY OfferedIs DEF Well
  <2>3. Honest(e)
    BY <1>5, <2>1 DEF Well, Marks, Honest
  <2>4. e.bar["add"] => e.marked[e.curAvail] # "none"
    BY <1>3, <1>5, <2>2 DEF Well, Marks, MarkOfOne
  <2> QED BY <1>3, <1>5, <2>3, <2>4 DEF Well, Marks, MarkOfOne
<1>7. Rows(e)
  <2>1. Plugins!CurRow(e) = Plugins!CurRow(d) /\ Plugins!CurCount(e) = Plugins!CurCount(d)
    BY <1>3, CurAlike
  <2> QED BY <1>3, <2>1 DEF Well, Rows
<1>8. Configs(e, Selected(e))
  BY <1>3, <1>4, ConfigsAlike DEF Well
<1>9. Formed(e) /\ Applicable(e) /\ e.open /\ Selected(e) \cap Broken = {}
  BY <1>3, <1>4 DEF Well, Formed, Applicable
<1>10. Well(e)
  BY <1>4, <1>6, <1>7, <1>8, <1>9 DEF Well
<1>11. Ones(d) => Ones(e)
  BY <1>3 DEF Ones
<1> QED BY <1>10, <1>11 DEF e

LEMMA SelectedKeyKeeps ==
  ASSUME NEW d, Well(d), NEW t \in Plugins!Types, NEW r \in 1 .. Len(d.selected[t])
  PROVE  LET e == [d EXCEPT !.row[t] = r, !.stale = @ \/ t = d.curSel]
         IN  Well(e) /\ (Ones(d) => Ones(e))
<1> DEFINE on == d.stale \/ t = d.curSel
           b == [d EXCEPT !.row[t] = r]
           e == [b EXCEPT !.stale = on]
<1>1. DOMAIN d = DlgFields /\ DOMAIN d.row = Plugins!Types /\ Picked(d)
  BY DEF Well, Formed, Picked
<1>2. [d EXCEPT !.row[t] = r, !.stale = @ \/ t = d.curSel] = e
  BY <1>1 DEF DlgFields
<1> HIDE DEF on
<1>3. DlgLike(b, d, {"row"}) /\ b.row = [d.row EXCEPT ![t] = r]
  BY <1>1 DEF DlgLike, DlgFields
<1> HIDE DEF b
<1>4. DlgLike(e, d, {"row", "stale"}) /\ e.row = [d.row EXCEPT ![t] = r] /\ e.stale = on
  BY <1>3 DEF DlgLike, DlgFields
<1> HIDE DEF e
<1>5. /\ DOMAIN e = DlgFields /\ e.open = d.open /\ e.selected = d.selected /\ e.curSel = d.curSel
      /\ e.marked = d.marked /\ e.curAvail = d.curAvail /\ e.search = d.search /\ e.bar = d.bar
      /\ e.ok = d.ok /\ e.loaded = d.loaded /\ e.widgets = d.widgets
  BY <1>4 DEF DlgLike, DlgFields
<1>6. DOMAIN e.row = Plugins!Types /\ e.row[t] = r /\ \A u \in Plugins!Types : u # t => e.row[u] = d.row[u]
  BY <1>1, <1>4
<1>7. Picked(e)
  <2>1. \A u \in Plugins!Types : e.row[u] \in 0 .. Len(d.selected[u])
    BY <1>1, <1>6 DEF Picked, Holds
  <2> QED BY <1>1, <1>5, <1>6, <2>1 DEF Picked
<1>8. Selected(e) = Selected(d)
  BY <1>5 DEF Selected
<1>9. Marks(e)
  <2>1. Honest(e)
    BY <1>5, HonestAlike DEF Well, Marks
  <2> QED BY <1>5, <2>1 DEF Well, Marks, MarkOfOne
<1>10. Rows(e)
  <2>1. CASE t = d.curSel
    <3>1. Plugins!CurRow(e) = r
      BY <1>5, <1>6, <2>1, TypesAre DEF Plugins!CurRow, Plugins!None
    <3>2. r > 0
      BY <1>1 DEF Picked, Holds
    <3>3. e.stale
      BY <1>4, <2>1 DEF on
    <3> QED BY <3>1, <3>2, <3>3 DEF Rows
  <2>2. CASE t # d.curSel
    <3>1. Plugins!CurRow(e) = Plugins!CurRow(d) /\ Plugins!CurCount(e) = Plugins!CurCount(d)
      BY <1>1, <1>5, <1>6, <2>2 DEF Plugins!CurRow, Plugins!CurCount, Plugins!None, Picked
    <3>2. e.stale <=> d.stale
      BY <1>4, <2>2 DEF on
    <3> QED BY <1>5, <3>1, <3>2 DEF Well, Rows
  <2> QED BY <2>1, <2>2
<1>11. Configs(e, Selected(e))
  BY <1>5, <1>8, ConfigsAlike DEF Well
<1>12. Formed(e) /\ Applicable(e) /\ e.open /\ Selected(e) \cap Broken = {}
  BY <1>5, <1>8 DEF Well, Formed, Applicable
<1>13. Well(e)
  BY <1>7, <1>9, <1>10, <1>11, <1>12 DEF Well
<1>14. Ones(d) => Ones(e)
  BY <1>5 DEF Ones
<1> QED BY <1>2, <1>13, <1>14

(* What an action that works with the dialog alone has to show.               *)
LEMMA DialogKeeps ==
  ASSUME PluginsSound, dlg.open, NEW d, dlg' = d, Well(d), ~loadedOver => Ones(d),
         shows' = <<>>, UNCHANGED <<started, applied, running, files, aborted, loadedOver>>, libs \subseteq libs'
  PROVE  PluginsSound'
<1>1. Shown(dlg)'
  BY DEF Shown
<1>2. started /\ (\A list : Kept(list)' <=> Kept(list))
  BY DEF PluginsSound, Kept
<1>3. dlg'.open
  BY DEF Well
<1>4. Kept(applied)' /\ (\A list \in files : Kept(list))'
  BY <1>2 DEF PluginsSound, Kept
<1>5. (ToSet(applied) \subseteq libs)' /\ (running = RunsAs(applied))'
  BY DEF PluginsSound, RunsAs
<1> QED BY <1>1, <1>2, <1>3, <1>4, <1>5 DEF PluginsSound

LEMMA DialogClickKeeps ==
  ASSUME PluginsSound, dlg.open, NEW d, Plugins!Becomes(d), Well(d), ~loadedOver => Ones(d),
         Plugins!Rest, UNCHANGED loadedOver, libs \subseteq libs'
  PROVE  PluginsSound'
BY DialogKeeps DEF Plugins!Becomes, Plugins!Rest

LEMMA OpenShown ==
  ASSUME PluginsSound, dlg.open
  PROVE  Shown(dlg) /\ Well(dlg) /\ Picked(dlg) /\ dlg.ok /\ (~loadedOver => Ones(dlg))
BY DialogClosedIs, ShownInfos DEF PluginsSound, Shown

LEMMA AddToKeeps ==
  ASSUME PluginsSound, dlg.open, NEW d, Plugins!AddTo(d), Well(d), ~loadedOver => Ones(d),
         d.curAvail # "none", d.marked[d.curAvail] # "none"
  PROVE  PluginsSound'
<1>1. Well(Plugins!Add(d)) /\ (Ones(d) => Ones(Plugins!Add(d)))
  BY AddKeeps
<1>2. Plugins!Becomes(Plugins!Add(d)) /\ Plugins!Rest /\ UNCHANGED loadedOver /\ libs \subseteq libs'
  BY DEF Plugins!AddTo
<1> QED BY <1>1, <1>2, DialogClickKeeps

LEMMA AddClickedKeeps ==
  ASSUME PluginsSound, Plugins!AddClicked
  PROVE  PluginsSound'
<1>1. dlg.open /\ dlg.bar["add"] /\ Plugins!AddTo(dlg)
  BY DEF Plugins!AddClicked
<1>2. Well(dlg) /\ (~loadedOver => Ones(dlg))
  BY <1>1, OpenShown
<1>3. dlg.curAvail # "none" /\ dlg.marked[dlg.curAvail] # "none"
  BY <1>1, <1>2 DEF Well, Marks, MarkOfOne
<1> QED BY <1>1, <1>2, <1>3, AddToKeeps

LEMMA AvailableClicksKeep ==
  ASSUME PluginsSound, NEW t \in Plugins!Types, NEW p \in PluginsOf[t],
         Plugins!ClickAvailable(t, p) \/ Plugins!DoubleClickAvailable(t, p)
  PROVE  PluginsSound'
<1> DEFINE e == Plugins!AvailPluginClicked(dlg, t, p)
<1>1. dlg.open /\ p \in Plugins!Offered(dlg, t) /\ ~Plugins!Disabled(dlg, t)
  BY DEF Plugins!ClickAvailable, Plugins!DoubleClickAvailable
<1>2. Well(dlg) /\ Picked(dlg) /\ (~loadedOver => Ones(dlg))
  BY <1>1, OpenShown
<1>3. /\ Well(e) /\ e.curAvail = t /\ e.marked[t] = p
      /\ Ones(dlg) /\ ~Plugins!Disabled(dlg, t) => Ones(e)
  BY <1>1, <1>2, AvailableClicked
<1>4. \/ /\ Plugins!Becomes(e) /\ Plugins!Rest /\ UNCHANGED loadedOver /\ libs \subseteq libs'
      \/ Plugins!AddTo(e)
  BY DEF Plugins!ClickAvailable, Plugins!DoubleClickAvailable
<1> HIDE DEF e
<1>5. ~loadedOver => Ones(e)
  BY <1>1, <1>2, <1>3
<1>6. e.curAvail # "none" /\ e.marked[e.curAvail] # "none"
  BY <1>1, <1>2, <1>3, OfferedIs, TypesAre
<1>7. Well(e)
  BY <1>3
<1>8. CASE Plugins!AddTo(e)
  BY <1>1, <1>5, <1>6, <1>7, <1>8, AddToKeeps
<1>9. CASE Plugins!Becomes(e) /\ Plugins!Rest /\ UNCHANGED loadedOver /\ libs \subseteq libs'
  BY <1>1, <1>5, <1>7, <1>9, DialogClickKeeps
<1> QED BY <1>4, <1>8, <1>9

LEMMA SelectedClickKeeps ==
  ASSUME PluginsSound, dlg.open, NEW t \in Plugins!Types, NEW r \in DOMAIN dlg.selected[t],
         Plugins!ClickSelected(t, r)
  PROVE  PluginsSound'
<1> DEFINE e == Plugins!SelectedPluginClicked(dlg, t, r)
<1>1. Well(dlg) /\ Picked(dlg) /\ (~loadedOver => Ones(dlg))
  BY OpenShown
<1>2. r \in 1 .. Len(dlg.selected[t])
  BY <1>1 DEF Picked, Holds
<1>3. Well(e) /\ (Ones(dlg) => Ones(e))
  BY <1>1, <1>2, RowClickedKeeps
<1>4. Plugins!Becomes(e) /\ Plugins!Rest /\ UNCHANGED loadedOver /\ libs \subseteq libs'
  BY DEF Plugins!ClickSelected
<1> QED BY <1>1, <1>3, <1>4, DialogClickKeeps

LEMMA KeysKeep ==
  ASSUME PluginsSound, NEW t \in Plugins!Types,
         \/ \E p \in PluginsOf[t] : Plugins!KeyAvailable(t, p)
         \/ dlg.open /\ \E r \in DOMAIN dlg.selected[t] : Plugins!KeySelected(t, r)
  PROVE  PluginsSound'
<1>1. dlg.open
  BY DEF Plugins!KeyAvailable
<1>2. Well(dlg) /\ Picked(dlg) /\ (~loadedOver => Ones(dlg))
  BY <1>1, OpenShown
<1>3. ASSUME NEW p \in PluginsOf[t], Plugins!KeyAvailable(t, p) PROVE PluginsSound'
  <2> DEFINE e == [dlg EXCEPT !.marked[t] = p]
  <2>1. p \in Plugins!Offered(dlg, t) /\ Plugins!Becomes(e) /\ Plugins!Rest /\ UNCHANGED loadedOver /\ libs \subseteq libs'
    BY <1>3 DEF Plugins!KeyAvailable
  <2>2. Well(e) /\ (Ones(dlg) => Ones(e))
    BY <1>2, <2>1, AvailableKeyKeeps
  <2> HIDE DEF e
  <2> QED BY <1>1, <1>2, <2>1, <2>2, DialogClickKeeps
<1>4. ASSUME NEW r \in DOMAIN dlg.selected[t], Plugins!KeySelected(t, r) PROVE PluginsSound'
  <2> DEFINE e == [dlg EXCEPT !.row[t] = r, !.stale = @ \/ t = dlg.curSel]
  <2>1. Plugins!Becomes(e) /\ Plugins!Rest /\ UNCHANGED loadedOver /\ libs \subseteq libs'
    BY <1>4 DEF Plugins!KeySelected
  <2>2. r \in 1 .. Len(dlg.selected[t])
    BY <1>2 DEF Picked, Holds
  <2>3. Well(e) /\ (Ones(dlg) => Ones(e))
    BY <1>2, <2>2, SelectedKeyKeeps
  <2> HIDE DEF e
  <2> QED BY <1>1, <1>2, <2>1, <2>3, DialogClickKeeps
<1> QED BY <1>3, <1>4

LEMMA RemoveClickedKeeps ==
  ASSUME PluginsSound, Plugins!RemoveClicked
  PROVE  PluginsSound'
<1>1. /\ dlg.open /\ dlg.bar["remove"] /\ Plugins!Becomes(Plugins!RemoveSelected(dlg))
      /\ Plugins!Rest /\ UNCHANGED loadedOver /\ libs \subseteq libs'
  BY DEF Plugins!RemoveClicked
<1>2. Well(dlg) /\ (~loadedOver => Ones(dlg))
  BY <1>1, OpenShown
<1>3. Plugins!CurRow(dlg) > 0
  BY <1>1, <1>2 DEF Well, Rows
<1>4. /\ Well(Plugins!RemoveSelected(dlg))
      /\ Ones(dlg) => Ones(Plugins!RemoveSelected(dlg))
  BY <1>2, <1>3, RemoveKeeps
<1> QED BY <1>1, <1>2, <1>4, DialogClickKeeps

LEMMA ClearClickedKeeps ==
  ASSUME PluginsSound, Plugins!ClearClicked
  PROVE  PluginsSound'
<1>1. /\ dlg.open /\ Plugins!Becomes(Plugins!ClearSelected(dlg))
      /\ Plugins!Rest /\ UNCHANGED loadedOver /\ libs \subseteq libs'
  BY DEF Plugins!ClearClicked
<1>2. Well(dlg)
  BY <1>1, OpenShown
<1>3. Well(Plugins!ClearSelected(dlg)) /\ Ones(Plugins!ClearSelected(dlg))
  BY <1>2, ClearKeeps
<1> QED BY <1>1, <1>3, DialogClickKeeps

LEMMA SearchClickedKeeps ==
  ASSUME PluginsSound, Plugins!Search
  PROVE  PluginsSound'
<1> DEFINE e == Plugins!RefreshAvailableToolbar(Plugins!RefreshAvailablePlugins([dlg EXCEPT !.search = ~@]))
<1>1. /\ dlg.open /\ Plugins!Becomes(e)
      /\ Plugins!Rest /\ UNCHANGED loadedOver /\ libs \subseteq libs'
  BY DEF Plugins!Search
<1>2. Well(dlg) /\ (~loadedOver => Ones(dlg))
  BY <1>1, OpenShown
<1>3. Well(e) /\ (Ones(dlg) => Ones(e))
  BY <1>2, SearchKeeps
<1> QED BY <1>1, <1>2, <1>3, DialogClickKeeps

(* The buttons that move a plug-in are enabled when there is a place for it,   *)
(* unless a key has made another one current.                                 *)
LEMMA MoveClickedKeeps ==
  ASSUME PluginsSound,
         \/ Plugins!TopClicked \/ Plugins!UpClicked \/ Plugins!DownClicked \/ Plugins!BottomClicked
  PROVE  PluginsSound'
<1> DEFINE r == Plugins!CurRow(dlg)
           n == Plugins!CurCount(dlg)
           top == Plugins!Move(dlg, Plugins!ConfigTop, 1)
           up == Plugins!Move(dlg, Plugins!ConfigUp, r - 1)
           down == Plugins!Move(dlg, Plugins!ConfigDown, r + 1)
           bottom == Plugins!Move(dlg, Plugins!ConfigBottom, n)
           Moved(e, b) == dlg.bar[b] /\ Plugins!Becomes(e)
<1>1. /\ dlg.open /\ Plugins!Rest /\ UNCHANGED loadedOver /\ libs \subseteq libs'
      /\ Moved(top, "up") \/ Moved(up, "up") \/ Moved(down, "down") \/ Moved(bottom, "down")
  BY DEF Plugins!TopClicked, Plugins!UpClicked, Plugins!DownClicked, Plugins!BottomClicked, Plugins!MoveClicked
<1>2. Well(dlg) /\ Picked(dlg) /\ (~loadedOver => Ones(dlg))
  BY <1>1, OpenShown
<1>4. r > 0 => r \in 1 .. n /\ n \in Nat /\ r \in Nat
  BY <1>2, CurRowIs
<1>5. r \in Nat
  <2>1. dlg.curSel # "none" => dlg.row[dlg.curSel] \in Nat
    BY <1>2, TypesAre DEF Picked, Holds
  <2> QED BY <2>1 DEF Plugins!CurRow, Plugins!None
<1>3. /\ dlg.bar["up"] => r > 0 /\ (dlg.stale \/ r > 1)
      /\ dlg.bar["down"] => r > 0 /\ (dlg.stale \/ r \in 1 .. n - 1)
  <2>1. /\ dlg.bar["up"] => dlg.stale \/ r > 1
        /\ dlg.bar["down"] => dlg.stale \/ r \in 1 .. n - 1
        /\ dlg.stale => r > 0
    BY <1>2 DEF Well, Rows
  <2>2. r > 1 => r > 0
    BY <1>5
  <2>3. r \in 1 .. n - 1 => r > 0
    BY <1>5
  <2> HIDE DEF r, n
  <2> QED BY <2>1, <2>2, <2>3
<1>6. /\ dlg.bar["up"] => r > 0 /\ 1 \in 1 .. n /\ (r - 1 \in 1 .. n \/ dlg.stale)
      /\ dlg.bar["down"] => r > 0 /\ n \in 1 .. n /\ (r + 1 \in 1 .. n \/ dlg.stale)
  <2> HIDE DEF r, n
  <2> QED BY <1>3, <1>4, <1>5
<1>7. dlg.bar["up"] => Well(top) /\ Well(up) /\ (Ones(dlg) => Ones(top) /\ Ones(up))
  BY <1>2, <1>6, MoveIs
<1>8. dlg.bar["down"] => Well(down) /\ Well(bottom) /\ (Ones(dlg) => Ones(down) /\ Ones(bottom))
  BY <1>2, <1>6, MoveIs
<1> HIDE DEF r, n, top, up, down, bottom
<1>9. PICK e : Plugins!Becomes(e) /\ Well(e) /\ (Ones(dlg) => Ones(e))
  BY <1>1, <1>7, <1>8
<1> QED BY <1>1, <1>2, <1>9, DialogClickKeeps

LEMMA LoadClickedKeeps ==
  ASSUME PluginsSound, NEW list \in files, Plugins!LoadClicked(list)
  PROVE  PluginsSound'
<1> DEFINE e == Plugins!ShowList(dlg, list)
<1>1. dlg.open /\ (aborted' <=> ~Plugins!Loadable(list)) /\ UNCHANGED <<started, applied, running, files>>
  BY DEF Plugins!LoadClicked
<1>2. Well(dlg) /\ dlg.ok
  BY <1>1, OpenShown
<1>3. Kept(list)
  BY DEF PluginsSound
<1>4. CASE aborted'
  <2>1. UNCHANGED <<dlg, shows, libs, loadedOver>>
    BY <1>4 DEF Plugins!LoadClicked
  <2>2. \A d : Shown(d) <=> Shown(d)'
    BY <2>1 DEF Shown
  <2>3. \A l : Kept(l) <=> Kept(l)'
    BY <2>1 DEF Kept
  <2>4. (\E l \in files : ~Plugins!Loadable(l))'
    BY <1>1, <1>4
  <2> QED BY <1>1, <2>1, <2>2, <2>3, <2>4 DEF PluginsSound, RunsAs
<1>5. CASE ~aborted'
  <2>1. /\ dlg' = e /\ shows' = list /\ libs \subseteq libs'
        /\ loadedOver' <=> (loadedOver \/ dlg.curAvail # "none")
    BY <1>5 DEF Plugins!LoadClicked, Plugins!None
  <2>2. /\ Well(e) /\ Plugins!Infos(e) = list
        /\ dlg.curAvail = "none" /\ Single(list) => Ones(e)
    BY <1>1, <1>2, <1>3, <1>5, ShowsList DEF Well, Marks, Kept
  <2> HIDE DEF e
  <2>3. Shown(dlg)'
    BY <1>3, <2>1, <2>2 DEF Shown, Kept
  <2>4. Plugins!Infos(dlg') = shows' /\ dlg'.open
    BY <2>1, <2>2 DEF Well
  <2>5. started /\ (\A l : Kept(l) => Kept(l)')
    BY <1>1, <2>1 DEF PluginsSound, Kept
  <2>6. Kept(applied)' /\ (\A l \in files : Kept(l))'
    BY <1>1, <2>1, <2>5 DEF PluginsSound, Kept
  <2>7. (ToSet(applied) \subseteq libs)' /\ (running = RunsAs(applied))' /\ Plugins!Loadable(applied)'
    BY <1>1, <2>1 DEF PluginsSound, RunsAs
  <2> QED BY <1>1, <1>5, <2>1, <2>3, <2>4, <2>5, <2>6, <2>7 DEF PluginsSound
<1> QED BY <1>4, <1>5

LEMMA DialogOpensKeeps ==
  ASSUME PluginsSound, Plugins!OpenDialog
  PROVE  PluginsSound'
<1> DEFINE d == Plugins!ShowList(Plugins!Blank, applied)
           ok == d.ok /\ dlg.ok
           e == [d EXCEPT !.ok = ok]
<1>1. /\ started /\ ~dlg.open /\ dlg' = e /\ shows' = <<>>
      /\ UNCHANGED <<started, libs, applied, running, files, aborted, loadedOver>>
  BY DEF Plugins!OpenDialog
<1>2. Kept(applied) /\ Plugins!Loadable(applied)
  BY DEF PluginsSound
<1>3. Well(d) /\ (Single(applied) => Ones(d))
  BY <1>2, BlankShowsList DEF Kept
<1>4. dlg.ok
  BY <1>1, DialogClosedIs DEF PluginsSound, Shown, Well
<1> HIDE DEF d
<1>5. ok
  BY <1>3, <1>4 DEF Well, Configs
<1> HIDE DEF ok
<1>6. DlgLike(e, d, {"ok"}) /\ e.ok
  BY <1>3, <1>5 DEF Well, Formed, DlgLike, DlgFields
<1> HIDE DEF e
<1>7. e.loaded = d.loaded /\ e.widgets = d.widgets /\ DlgLike(e, d, ConfigFields)
  BY <1>6 DEF DlgLike, DlgFields, ConfigFields
<1>8. Configured(e, d, Selected(d))
  BY <1>3, <1>6, <1>7 DEF Well, Configured, Configs
<1>9. Well(e) /\ (Single(applied) => Ones(e))
  BY <1>3, <1>8, ConfiguredKeeps
<1>10. Shown(dlg)' /\ dlg'.open
  BY <1>1, <1>2, <1>9 DEF Shown, Kept, Well
<1>11. Kept(applied)' /\ (\A l \in files : Kept(l))'
  BY <1>1 DEF PluginsSound, Kept
<1>12. /\ (ToSet(applied) \subseteq libs)' /\ (running = RunsAs(applied))' /\ Plugins!Loadable(applied)'
       /\ (aborted => \E list \in files : ~Plugins!Loadable(list))'
  BY <1>1 DEF PluginsSound, RunsAs
<1> QED BY <1>1, <1>10, <1>11, <1>12 DEF PluginsSound

LEMMA SavedKeeps ==
  ASSUME PluginsSound, Plugins!SaveClicked
  PROVE  PluginsSound'
<1>1. /\ dlg.open /\ files' = files \cup {Plugins!Infos(dlg)}
      /\ UNCHANGED <<dlg, started, libs, applied, running, aborted, loadedOver, shows>>
  BY DEF Plugins!SaveClicked
<1>2. Shown(dlg)
  BY <1>1, OpenShown
<1>3. Kept(Plugins!Infos(dlg))
  BY <1>2, ShownInfos
<1>4. \A l : Kept(l) => Kept(l)'
  BY <1>1 DEF Kept
<1>5. (\A l \in files : Kept(l))' /\ Kept(applied)'
  BY <1>1, <1>3, <1>4 DEF PluginsSound
<1>6. Shown(dlg)'
  BY <1>1, <1>2 DEF Shown
<1>7. /\ (ToSet(applied) \subseteq libs)' /\ (running = RunsAs(applied))' /\ Plugins!Loadable(applied)'
      /\ (aborted => \E list \in files : ~Plugins!Loadable(list))'
  BY <1>1 DEF PluginsSound, RunsAs
<1> QED BY <1>1, <1>5, <1>6, <1>7 DEF PluginsSound

LEMMA ClosingKeeps ==
  ASSUME PluginsSound, started, dlg' = Plugins!Closed, shows' = <<>>, UNCHANGED <<started, files, aborted, loadedOver>>,
         Plugins!Loadable(applied'), Kept(applied'), ToSet(applied') \subseteq libs', running' = RunsAs(applied')
  PROVE  PluginsSound'
<1>1. \A l : Kept(l) => Kept(l)'
  BY DEF Kept
<1>2. ~dlg'.open
  BY DialogClosedIs
<1>3. (\A l \in files : Kept(l))' /\ Kept(applied)'
  BY <1>1 DEF PluginsSound, Kept
<1> QED BY <1>2, <1>3 DEF PluginsSound, RunsAs

LEMMA RejectKeeps ==
  ASSUME PluginsSound, Plugins!Reject
  PROVE  PluginsSound'
<1>1. dlg.open /\ dlg' = [Plugins!Closed EXCEPT !.ok = dlg.ok] /\ shows' = <<>>
      /\ UNCHANGED <<started, libs, applied, running, files, aborted, loadedOver>>
  BY DEF Plugins!Reject
<1>2. dlg.ok
  BY <1>1, OpenShown
<1>3. dlg' = Plugins!Closed
  BY <1>1, <1>2, DialogClosedIs
<1>4. /\ started /\ Kept(applied') /\ ToSet(applied') \subseteq libs' /\ running' = RunsAs(applied')
      /\ Plugins!Loadable(applied')
  BY <1>1 DEF PluginsSound
<1> QED BY <1>1, <1>3, <1>4, ClosingKeeps

(* What is applied stays loaded: its libraries were loaded when it was chosen, *)
(* and only those that are no longer wanted are unloaded.                     *)
LEMMA AcceptKeeps ==
  ASSUME PluginsSound, Plugins!Accept
  PROVE  PluginsSound'
<1> DEFINE infos == Plugins!Infos(dlg)
<1>1. /\ dlg.open /\ dlg.bar["apply"]
      /\ dlg' = [Plugins!Closed EXCEPT !.ok = /\ dlg.ok /\ infos # <<>>
                                              /\ Plugins!ToSet(applied) \subseteq libs /\ Plugins!Loadable(infos)]
      /\ \/ Plugins!Applies(infos) /\ libs' = Plugins!Libraries(libs, infos)
         \/ UNCHANGED <<applied, running, libs>>
      /\ shows' = <<>> /\ UNCHANGED <<started, files, aborted, loadedOver>>
  BY DEF Plugins!Accept
<1>2. Shown(dlg) /\ Well(dlg) /\ Picked(dlg) /\ dlg.ok
  BY <1>1, OpenShown
<1>3. infos # <<>>
  <2>1. dlg.selected["socket"] # <<>>
    BY <1>1, <1>2 DEF Well, Applicable
  <2> QED BY <1>2, <2>1, InfosAre
<1>4. Kept(infos) /\ Plugins!Loadable(infos)
  BY <1>2, ShownInfos
<1> HIDE DEF infos
<1>5. Plugins!ToSet(applied) \subseteq libs
  BY PluginListsAlike DEF PluginsSound
<1>6. dlg' = Plugins!Closed
  BY <1>1, <1>2, <1>3, <1>4, <1>5, DialogClosedIs
<1>7. started
  BY <1>1 DEF PluginsSound
<1>8. /\ Kept(applied') /\ ToSet(applied') \subseteq libs' /\ running' = RunsAs(applied')
      /\ Plugins!Loadable(applied')
  <2>1. CASE Plugins!Applies(infos) /\ libs' = Plugins!Libraries(libs, infos)
    <3>1. applied' = infos /\ running' = RunsAs(infos)
      BY <2>1 DEF Plugins!Applies, RunsAs
    <3>2. Plugins!ToSet(infos) \subseteq libs'
      BY <2>1 DEF Plugins!Libraries
    <3>3. ToSet(infos) \subseteq libs'
      BY <3>2, PluginListsAlike
    <3> QED BY <1>4, <3>1, <3>3
  <2>2. CASE UNCHANGED <<applied, running, libs>>
    BY <2>2 DEF PluginsSound
  <2> QED BY <1>1, <2>1, <2>2
<1> QED BY <1>1, <1>6, <1>7, <1>8, ClosingKeeps

LEMMA StartKeeps ==
  ASSUME PluginsSound, Plugins!Start
  PROVE  PluginsSound'
<1>1. /\ ~started /\ started' /\ UNCHANGED <<dlg, files, loadedOver, shows>>
  BY DEF Plugins!Start
<1>2. applied = <<>> /\ ~dlg.open /\ shows = <<>> /\ dlg = Plugins!Closed
  BY <1>1 DEF PluginsSound, Shown, Well
<1>3. PICK given, config \in files \cup {<<>>} :
        /\ aborted' <=> ~(Plugins!Loadable(given) /\ (Plugins!Complete(given) \/ Plugins!Loadable(config)))
        /\ libs' = (Plugins!ToSet(given) \cup IF Plugins!Complete(given) THEN {} ELSE Plugins!ToSet(config)) \ Broken
        /\ IF ~aborted' /\ Plugins!Complete(given) THEN Plugins!Applies(given)
           ELSE IF ~aborted' /\ Plugins!Complete(config) THEN Plugins!Applies(config) ELSE UNCHANGED <<applied, running>>
  BY DEF Plugins!Start
<1>4. Kept(<<>>)
  BY EmptyByType DEF Kept
<1>5. Kept(given) /\ Kept(config)
  BY <1>3, <1>4 DEF PluginsSound
<1>6. \A l : Plugins!ToSet(l) = ToSet(l)
  BY PluginListsAlike
<1>12. ToSet(<<>>) = {}
  BY DEF ToSet
<1>13. Plugins!Loadable(<<>>)
  BY <1>6, <1>12 DEF Plugins!Loadable
<1>7. /\ Kept(applied') /\ ToSet(applied') \subseteq libs' /\ running' = RunsAs(applied')
      /\ Plugins!Loadable(applied')
  <2>1. \A l : Plugins!Applies(l) => applied' = l /\ running' = RunsAs(l)
    BY DEF Plugins!Applies, RunsAs
  <2>5. \A l : Plugins!Loadable(l) => ToSet(l) = ToSet(l) \ Broken
    BY <1>6 DEF Plugins!Loadable
  <2>2. CASE ~aborted' /\ Plugins!Complete(given)
    <3>1. Plugins!Loadable(given) /\ applied' = given /\ running' = RunsAs(given)
      BY <1>3, <2>1, <2>2
    <3>2. ToSet(given) \subseteq libs'
      BY <1>3, <1>6, <2>5, <3>1
    <3> QED BY <1>5, <3>1, <3>2
  <2>3. CASE ~aborted' /\ ~Plugins!Complete(given) /\ Plugins!Complete(config)
    <3>1. Plugins!Loadable(config) /\ applied' = config /\ running' = RunsAs(config)
      BY <1>3, <2>1, <2>3
    <3>2. ToSet(config) \subseteq libs'
      BY <1>3, <1>6, <2>3, <2>5, <3>1
    <3> QED BY <1>5, <3>1, <3>2
  <2>4. CASE aborted' \/ (~Plugins!Complete(given) /\ ~Plugins!Complete(config))
    <3>1. applied' = <<>> /\ running' = running /\ running = RunsAs(<<>>)
      BY <1>2, <1>3, <2>4 DEF PluginsSound
    <3> QED BY <1>4, <1>12, <1>13, <3>1
  <2> QED BY <2>2, <2>3, <2>4
<1>8. \A l : Kept(l) => Kept(l)'
  BY <1>1 DEF Kept
<1>9. (\A l \in files : Kept(l))' /\ Kept(applied)'
  BY <1>1, <1>7, <1>8 DEF PluginsSound
<1>10. dlg' = Plugins!Closed /\ shows' = <<>>
  BY <1>1, <1>2
<1>11. running' = RunsAs(applied)'
  BY <1>7 DEF RunsAs
<1>14. aborted' => \E list \in files' : ~Plugins!Loadable(list)
  BY <1>1, <1>3, <1>13
<1> QED BY <1>1, <1>2, <1>7, <1>9, <1>10, <1>11, <1>14 DEF PluginsSound

LEMMA PluginsKeep ==
  ASSUME PluginsSound, Plugins!Next
  PROVE  PluginsSound'
<1>1. CASE Plugins!Start
  BY <1>1, StartKeeps
<1>2. CASE Plugins!OpenDialog
  BY <1>2, DialogOpensKeeps
<1>3. CASE Plugins!AddClicked
  BY <1>3, AddClickedKeeps
<1>4. CASE Plugins!RemoveClicked
  BY <1>4, RemoveClickedKeeps
<1>5. CASE Plugins!ClearClicked
  BY <1>5, ClearClickedKeeps
<1>6. CASE Plugins!Search
  BY <1>6, SearchClickedKeeps
<1>7. CASE Plugins!TopClicked \/ Plugins!UpClicked \/ Plugins!DownClicked \/ Plugins!BottomClicked
  BY <1>7, MoveClickedKeeps
<1>8. CASE Plugins!SaveClicked
  BY <1>8, SavedKeeps
<1>9. CASE Plugins!Accept
  BY <1>9, AcceptKeeps
<1>10. CASE Plugins!Reject
  BY <1>10, RejectKeeps
<1>11. ASSUME NEW t \in Plugins!Types, NEW p \in PluginsOf[t],
              Plugins!ClickAvailable(t, p) \/ Plugins!DoubleClickAvailable(t, p) \/ Plugins!KeyAvailable(t, p)
       PROVE  PluginsSound'
  BY <1>11, AvailableClicksKeep, KeysKeep
<1>12. ASSUME dlg.open, NEW t \in Plugins!Types, NEW r \in DOMAIN dlg.selected[t],
              Plugins!ClickSelected(t, r) \/ Plugins!KeySelected(t, r)
       PROVE  PluginsSound'
  BY <1>12, SelectedClickKeeps, KeysKeep
<1>13. ASSUME NEW list \in files, Plugins!LoadClicked(list)
       PROVE  PluginsSound'
  BY <1>13, LoadClickedKeeps
<1> QED BY <1>1, <1>2, <1>3, <1>4, <1>5, <1>6, <1>7, <1>8, <1>9, <1>10, <1>11, <1>12, <1>13 DEF Plugins!Next, Plugins!Step

LEMMA PluginsStart ==
  ASSUME Plugins!Init
  PROVE  PluginsSound
<1>1. /\ dlg = Plugins!Closed /\ started = FALSE /\ libs = {} /\ applied = <<>> /\ running = Plugins!NotRunning
      /\ files = GivenLists /\ aborted = FALSE /\ loadedOver = FALSE /\ shows = <<>>
  BY DEF Plugins!Init
<1>2. Kept(<<>>) /\ \A list \in files : Kept(list)
  BY <1>1, EmptyByType, GivenByType DEF Kept
<1>3. RunsAs(<<>>) = Plugins!NotRunning
  <2>1. \A t \in Plugins!Types : Plugins!OfType(<<>>, t) = <<>>
    BY EmptyByType
  <2>2. /\ Plugins!OfType(<<>>, "socket") = <<>> /\ Plugins!OfType(<<>>, "filter") = <<>>
        /\ Plugins!OfType(<<>>, "protocol") = <<>>
    BY <2>1, TypesAre
  <2> QED BY <2>2 DEF RunsAs, Plugins!First, Plugins!NotRunning
<1>4. ToSet(<<>>) = {}
  BY DEF ToSet
<1>5. Plugins!Loadable(<<>>)
  BY <1>4, PluginListsAlike DEF Plugins!Loadable
<1> QED BY <1>1, <1>2, <1>3, <1>4, <1>5, DialogClosedIs DEF PluginsSound

LEMMA PluginsNext ==
  ASSUME PluginsRuns, [Next]_vars
  PROVE  PluginsRuns'
<1>1. CASE PluginsStep /\ UNCHANGED subject
  BY <1>1, PluginsKeep DEF PluginsStep, PluginsRuns
<1>2. ASSUME UNCHANGED pluginVars
      PROVE  PluginsSound => PluginsSound'
  BY <1>2 DEF pluginVars, PluginsSound, Shown, Kept, RunsAs
<1>3. UNCHANGED vars => UNCHANGED <<subject, pluginVars>>
  BY DEF vars
<1>4. CASE UNCHANGED vars
  BY <1>2, <1>3, <1>4 DEF PluginsRuns
<1>5. CASE UNCHANGED subject /\ (SendStep \/ EditorStep \/ FilterStep \/ DisplayStep)
  BY <1>2, <1>5 DEF SendStep, EditorStep, FilterStep, DisplayStep, PluginsRuns
<1> QED BY <1>1, <1>4, <1>5 DEF Next

LEMMA FirstIs ==
  ASSUME NEW list, ByType(list), NEW t \in Plugins!Types
  PROVE  /\ Plugins!First(list, t) \in ToSet(list) \cup {"none"}
         /\ ToSet(Plugins!OfType(list, t)) \subseteq ToSet(list)
<1> DEFINE s == Plugins!OfType(list, t)
<1>1. Holds(s, PluginsOf[t], ToSet(list) \cap PluginsOf[t])
  BY OfTypeIs DEF ByType
<1>2. s \in Seq(PluginsOf[t]) /\ ToSet(s) = ToSet(list) \cap PluginsOf[t]
  BY <1>1 DEF Holds
<1>3. ToSet(s) \subseteq ToSet(list)
  BY <1>2
<1>4. Plugins!First(list, t) = IF s = <<>> THEN "none" ELSE Head(s)
  BY DEF Plugins!First, Plugins!None
<1>5. ASSUME s # <<>>
      PROVE  Head(s) \in ToSet(s)
  <2> HIDE DEF s
  <2>1. Len(s) \in Nat /\ Len(s) > 0 /\ Head(s) = s[1]
    BY <1>2, <1>5
  <2> QED BY <2>1 DEF ToSet
<1> HIDE DEF s
<1>6. Plugins!First(list, t) \in ToSet(list) \cup {"none"}
  BY <1>3, <1>4, <1>5
<1> QED BY <1>3, <1>6 DEF s

LEMMA PluginsAreRight ==
  ASSUME PluginsSound
  PROVE  /\ Plugins!OneOfEach /\ Plugins!WidgetsOfSelected /\ Plugins!ShowsLoaded /\ Plugins!RunningIsLoaded
         /\ Plugins!NoAssertionFails
<1>1. dlg.open => Shown(dlg) /\ Well(dlg) /\ Picked(dlg) /\ dlg.ok /\ (~loadedOver => Ones(dlg))
  BY OpenShown
<1>2. Plugins!OneOfEach
  BY <1>1 DEF Plugins!OneOfEach, Ones
<1>3. Plugins!NoAssertionFails
  BY DialogClosedIs, ShownInfos DEF Plugins!NoAssertionFails, PluginsSound
<1>4. Plugins!ShowsLoaded
  BY DEF Plugins!ShowsLoaded, PluginsSound
<1>5. Plugins!WidgetsOfSelected
  <2> SUFFICES ASSUME dlg.open
               PROVE  /\ Plugins!IsInjective(Plugins!Infos(dlg)) /\ Plugins!IsInjective(dlg.widgets)
                      /\ ToSet(dlg.loaded) = ToSet(Plugins!Infos(dlg))
                      /\ ToSet(dlg.widgets) = ToSet(Plugins!Infos(dlg)) \cap Configurable
    BY PluginListsAlike DEF Plugins!WidgetsOfSelected
  <2>1. Kept(Plugins!Infos(dlg)) /\ ToSet(Plugins!Infos(dlg)) = Selected(dlg)
    BY <1>1, ShownInfos
  <2>2. Configs(dlg, Selected(dlg))
    BY <1>1 DEF Well
  <2>3. /\ dlg.widgets \in Seq(Plugins!Plugins) /\ Distinct(dlg.widgets)
        /\ ToSet(dlg.loaded) = Selected(dlg) /\ ToSet(dlg.widgets) = Selected(dlg) \cap Configurable
    BY <2>2 DEF Configs, Holds
  <2>4. Plugins!IsInjective(dlg.widgets)
    BY <2>3, InjectiveIs
  <2>5. Plugins!Infos(dlg) \in Seq(Plugins!Plugins) /\ Distinct(Plugins!Infos(dlg))
    BY <2>1 DEF Kept, ByType, Holds
  <2>6. Plugins!IsInjective(Plugins!Infos(dlg))
    BY <2>5, InjectiveIs
  <2> QED BY <2>1, <2>3, <2>4, <2>6
<1>6. Plugins!RunningIsLoaded
  <2>1. ByType(applied) /\ ToSet(applied) \subseteq libs /\ running = RunsAs(applied)
    BY DEF PluginsSound, Kept
  <2>2. /\ running.socket = Plugins!First(applied, "socket") /\ running.filters = Plugins!OfType(applied, "filter")
        /\ running.protocol = Plugins!First(applied, "protocol")
    BY <2>1 DEF RunsAs
  <2>3. /\ running.socket \in ToSet(applied) \cup {"none"} /\ running.protocol \in ToSet(applied) \cup {"none"}
        /\ ToSet(running.filters) \subseteq ToSet(applied)
    BY <2>1, <2>2, FirstIs, TypesAre
  <2>4. Plugins!ToSet(applied) = ToSet(applied) /\ Plugins!ToSet(running.filters) = ToSet(running.filters)
    BY PluginListsAlike
  <2>5. {running.socket, running.protocol} \ {"none"} \subseteq libs /\ ToSet(running.filters) \subseteq libs
    BY <2>1, <2>3
  <2> QED BY <2>1, <2>4, <2>5 DEF Plugins!RunningIsLoaded, Plugins!None
<1> QED BY <1>2, <1>3, <1>4, <1>5, <1>6

LEMMA LastIsFirst ==
  ASSUME NEW list, ByType(list), Plugins!OneProtocol(list)
  PROVE  Plugins!LastProtocol(list) = Plugins!First(list, "protocol")
<1> DEFINE s == Plugins!OfType(list, "protocol")
<1>1. Holds(s, PluginsOf["protocol"], ToSet(list) \cap PluginsOf["protocol"]) /\ Len(s) <= 1
  BY OfTypeIs, TypesAre DEF ByType, Plugins!OneProtocol
<1>2. s \in Seq(PluginsOf["protocol"]) /\ Len(s) <= 1
  BY <1>1 DEF Holds
<1>3. Plugins!LastProtocol(list) = (IF s = <<>> THEN "none" ELSE s[Len(s)])
  BY DEF Plugins!LastProtocol, Plugins!Last, Plugins!None
<1>4. Plugins!First(list, "protocol") = (IF s = <<>> THEN "none" ELSE Head(s))
  BY DEF Plugins!First, Plugins!None
<1> HIDE DEF s
<1>5. s # <<>> => Head(s) = s[Len(s)]
  BY <1>2
<1> QED BY <1>3, <1>4, <1>5

LEMMA ProtocolIsFollowed ==
  ASSUME PluginsSound, PluginsSound'
  PROVE  Plugins!ProtocolFollowsStep
<1> SUFFICES ASSUME Plugins!OneProtocol(applied), Plugins!OneProtocol(applied')
             PROVE  Plugins!IsProtocolChanging(applied') <=> running'.protocol # running.protocol
  BY DEF Plugins!ProtocolFollowsStep
<1>1. ByType(applied) /\ ByType(applied') /\ running = RunsAs(applied) /\ running' = RunsAs(applied')
  BY DEF PluginsSound, RunsAs, Kept
<1>2. /\ Plugins!LastProtocol(applied) = running.protocol
      /\ Plugins!LastProtocol(applied') = running'.protocol
  BY <1>1, LastIsFirst DEF RunsAs
<1> QED BY <1>2 DEF Plugins!IsProtocolChanging

(* One socket and one protocol at most are selected, none twice; the           *)
(* configuration widgets are those of the selected plug-ins; a loaded list is   *)
(* the one that is saved or applied; and no library of what runs is unloaded,   *)
(* however many plug-ins are installed and in whatever order the user works     *)
(* (PluginConfigDialog.cpp, PluginConfigWrapsListWidget.cpp,                    *)
(* ToolsPluginMgrImpl.cpp).                                                    *)
THEOREM PluginDialogAgrees == Spec => []PluginsAgree
<1>1. Init => PluginsRuns
  BY PluginsStart DEF Init, PluginsRuns
<1>2. PluginsRuns /\ [Next]_vars => PluginsRuns'
  BY PluginsNext
<1>3. PluginsRuns => PluginsAgree
  BY PluginsAreRight DEF PluginsRuns, PluginsAgree
<1> QED BY <1>1, <1>2, <1>3, PTL DEF Spec
=============================================================================
