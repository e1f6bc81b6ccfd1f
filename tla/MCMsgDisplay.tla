----------------------------- MODULE MCMsgDisplay -----------------------------
(* Two values that refreshing leaves alone and one it changes.                *)
EXTENDS MsgDisplay

MCRefreshed == <<1, 2, 2>>
===============================================================================
