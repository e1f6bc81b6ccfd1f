------------------------------ MODULE Settings -------------------------------
(***************************************************************************)
(* How the sockets look settings up in a property map that another plug-in   *)
(* or a message has filled (applyInterPluginConfigImpl(), sendDataImpl()):   *)
(* several keys may hold one setting, each present key overrides the ones    *)
(* before it.                                                                *)
(***************************************************************************)
EXTENDS Integers, Sequences, FiniteSetsExt

(* The first key that is there wins.                                         *)
WrongOverride(current, keys, props) ==
  LET there == {k \in DOMAIN keys : keys[k] \in DOMAIN props}
  IN  IF there = {} THEN current ELSE props[keys[Min(there)]]

Override(current, keys, props) ==
  LET there == {k \in DOMAIN keys : keys[k] \in DOMAIN props}
  IN  IF there = {} THEN current ELSE props[keys[Max(there)]]
=============================================================================
