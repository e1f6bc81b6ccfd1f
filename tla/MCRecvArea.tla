----------------------------- MODULE MCRecvArea ------------------------------
(* Two names, one of which is garbage and the other one may be filtered out. *)
EXTENDS RecvArea

CONSTANTS data, other

OneName == {{data}}
=============================================================================
