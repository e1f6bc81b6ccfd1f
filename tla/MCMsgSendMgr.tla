---------------------------- MODULE MCMsgSendMgr ----------------------------
(* Send lists of up to three messages that exercise equal due times, zero   *)
(* delays, exact multiples of a period, finite and endless repetition, and  *)
(* a count without a period.                                                *)
EXTENDS MsgSendMgr

CONSTANTS m1, m2, m3

E(m, delay, repeat, count) ==
  [id |-> m, delay |-> delay, repeat |-> repeat, count |-> count]

Chosen ==
  { <<E(m1, 0, 0, 1)>>,
    <<E(m1, 2, 0, 3), E(m2, 0, 2, 2)>>,
    <<E(m1, 0, 2, 2), E(m2, 2, 0, 1), E(m3, 0, 3, 2)>>,
    <<E(m1, 0, 1, 0), E(m2, 3, 0, 1), E(m3, 1, 2, 2)>>,
    <<E(m1, 1, 2, 0), E(m2, 0, 3, 0), E(m3, 2, 0, 1)>>,
    <<E(m1, 0, 3, 3), E(m2, 0, 2, 0), E(m3, 0, 1, 2)>> }

Pairs ==
  { <<E(m1, d1, r1, c1), E(m2, d2, r2, c2)>> :
      d1 \in 0..2, r1 \in {0, 2}, c1 \in 0..2,
      d2 \in 0..2, r2 \in {1, 3}, c2 \in 0..2 }

Lists == Chosen \cup Pairs
=============================================================================
