----------------------------- MODULE MCDataParts ------------------------------
(* Two protocols for DataParts: the second one has not all messages of the    *)
(* first, other forms of a message that both have, and one with the id 0 that  *)
(* the bytes which are no message happen to be data of.                       *)
EXTENDS DataParts, TLC

MCFormsOf ==
  [p |-> [a |-> <<{"d1"}>>, b |-> <<{"d1", "d12"}, {"d2", "d12"}>>],
   q |-> [b |-> <<{"d12"}, {"d1"}>>] @@ ("0" :> <<{"n"}>>)]
===============================================================================
