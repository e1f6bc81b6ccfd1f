------------------------------ MODULE MCMsgMgr -------------------------------
(* Four messages, so that a reply or a nested handler can come between two   *)
(* messages of one chunk and a deletion can leave some of them out.          *)
EXTENDS MsgMgr
=============================================================================
