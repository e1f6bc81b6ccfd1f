--------------------------------- MODULE Lists --------------------------------
(***************************************************************************)
(* What several components do with their lists.                              *)
(***************************************************************************)
EXTENDS Naturals, Sequences, FiniteSets

(* What is left of a sequence at some of its positions, of a set, and without *)
(* a set.                                                                   *)
AtPositions(s, K) ==
  [n \in 1..Cardinality(K) |->
     s[CHOOSE k \in K : Cardinality({i \in K : i <= k}) = n]]

Among(s, S) == AtPositions(s, {k \in DOMAIN s : s[k] \in S})
Without(s, S) == AtPositions(s, {k \in DOMAIN s : s[k] \notin S})

(* Where std::lower_bound() and std::upper_bound() end in a list of n, also   *)
(* when it is not in order.  The places in before are those of the elements   *)
(* that go before what is looked for.                                        *)
Bisect(n, before) ==
  LET end[k \in 0 .. n] ==       (* with k places left, from the first on      *)
        [first \in 1 .. n + 1 - k |->
           LET half == k \div 2
           IN  IF k = 0 THEN first
               ELSE IF first + half \in before THEN end[k - half - 1][first + half + 1]
               ELSE end[half][first]]
  IN  end[n][1]
===============================================================================
