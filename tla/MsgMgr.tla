-------------------------------- MODULE MsgMgr --------------------------------
(***************************************************************************)
(* ToolsMsgMgrImpl (lib/src/ToolsMsgMgrImpl.cpp): every message that went    *)
(* through the tool, numbered, reported to the application and stored.       *)
(*                                                                         *)
(* A handler calls out in the middle of its loop.  The protocol plug-in may  *)
(* answer a message it is told of by asking for another one to be sent,      *)
(* which runs sendMsgs() inside the handler.  Protocol, filter and socket    *)
(* may report an error, which the application shows in a modal box: an       *)
(* event loop inside the handler, in which data arrive and timers fire.      *)
(* `handlers' is that stack of activations, innermost first; `loop' says     *)
(* that an event loop runs on top of it.                                     *)
(***************************************************************************)
EXTENDS Integers, Sequences, SequencesExt, Lists

CONSTANTS
  Names,        (* the names a message may have                            *)
  Replies,      (* may the protocol send from its report functions?        *)
  Dialogs,      (* may a plug-in report an error while a handler runs?     *)
  MaxMsgs,      (* bound: messages numbered in a run                       *)
  MaxChunk,     (* bound: messages read from one piece of data, or sent    *)
  MaxDepth      (* bound: activations at once                              *)

ASSUME MsgMgrAssumption ==
  /\ Replies \in BOOLEAN /\ Dialogs \in BOOLEAN
  /\ MaxMsgs \in Nat /\ MaxChunk \in Nat \ {0} /\ MaxDepth \in Nat \ {0}

Types == {"Received", "Sent"}

Message == [num: Nat, type: Types, name: Names]

VARIABLES
  attached,     (* m_socket and m_protocol are set                         *)
  recvEnabled,  (* m_recvEnabled                                           *)
  nextNum,      (* m_nextMsgNum                                            *)
  stored,       (* m_allMsgs                                               *)
  handlers,     (* running socketDataReceived() and sendMsgs() calls       *)
  loop,         (* an event loop runs, not a handler                       *)
  reported      (* history: messages reported to the application, in that  *)
                (* order, which it has not asked to delete since           *)

msgMgrVars == <<attached, recvEnabled, nextNum, stored, handlers, loop, reported>>

(* An activation: the names still to be processed, the message the protocol *)
(* is being told of, the messages reported but not yet stored, and whether  *)
(* the caller is an event loop.                                             *)
Activation ==
  [type: Types, todo: Seq(Names), told: BOOLEAN, done: Seq(Message), fromLoop: BOOLEAN]

TypeOK ==
  /\ attached \in BOOLEAN /\ recvEnabled \in BOOLEAN /\ loop \in BOOLEAN
  /\ nextNum \in Nat
  /\ stored \in Seq(Message) /\ reported \in Seq(Message)
  /\ handlers \in Seq(Activation)

-----------------------------------------------------------------------------
Top == Head(handlers)

Running(type) == ~loop /\ handlers # <<>> /\ Top.type = type

(* The user is not locked out by a modal box, and no handler runs.          *)
UserMayAct == loop /\ handlers = <<>>

(* The messages a handler has numbered and not yet stored.                  *)
InHand == UNION {ToSet(handlers[k].done) : k \in DOMAIN handlers}

(* Messages that exist without a number; the bound counts them as well.     *)
Pending == FoldSeq(LAMBDA h, n : n + Len(h.todo), 0, handlers)

Bounded(n) == nextNum + Pending + n <= MaxMsgs + 1

Call(type, names, fromLoop) ==
  /\ Len(handlers) < MaxDepth /\ Bounded(Len(names))
  /\ handlers' = <<[type |-> type, todo |-> names, told |-> FALSE, done |-> <<>>,
                    fromLoop |-> fromLoop]>> \o handlers
  /\ loop' = FALSE

Return ==
  /\ handlers' = Tail(handlers)
  /\ loop' = Top.fromLoop

WithTop(h) == handlers' = <<h>> \o Tail(handlers)

Chunks == UNION {[1..n -> Names] : n \in 1..MaxChunk}

(* Operators named Wrong... are deliberate mistakes, each next to the        *)
(* definition it would replace; nothing refers to them.                      *)

(* The type of the message is not set.                                       *)
WrongNumbered(type, name) == [num |-> nextNum, type |-> "Invalid", name |-> name]

(* updateInternalId() and the type the handler sets.                        *)
Numbered(type, name) == [num |-> nextNum, type |-> type, name |-> name]

(* The message the walk stumbles over is erased with the run before it.      *)
WrongDeleteMsgs(msgs, list) ==
  LET Meets(n, k) == n + 1 \in DOMAIN list /\ list[n + 1].num = msgs[k].num
      found[k \in 0..Len(msgs)] ==
        IF k = 0 THEN 0 ELSE found[k - 1] + IF Meets(found[k - 1], k) THEN 1 ELSE 0
  IN  AtPositions(msgs, {k \in DOMAIN msgs : found[k - 1] = Len(list)})

(* deleteMsgs(): both sequences are walked once, in step; a stored message  *)
(* that is not the next of the list stays.  found counts those of the list  *)
(* met among the first k stored ones.                                        *)
DeleteMsgs(msgs, list) ==
  LET Meets(n, k) == n + 1 \in DOMAIN list /\ list[n + 1].num = msgs[k].num
      found[k \in 0..Len(msgs)] ==
        IF k = 0 THEN 0 ELSE found[k - 1] + IF Meets(found[k - 1], k) THEN 1 ELSE 0
  IN  AtPositions(msgs, {k \in DOMAIN msgs : ~Meets(found[k - 1], k)})

DeleteMsg(msgs, m) == Among(msgs, {x \in ToSet(msgs) : x.num # m.num})

-----------------------------------------------------------------------------
(* The constructor of GuiAppMgr has enabled receiving.                      *)
Init ==
  /\ attached = FALSE /\ recvEnabled = TRUE
  /\ nextNum = 1
  /\ stored = <<>> /\ handlers = <<>> /\ loop = TRUE
  /\ reported = <<>>

(* setSocket(), setProtocol() and addFilter() ...                           *)
Attach ==
  /\ UserMayAct /\ ~attached
  /\ attached' = TRUE
  /\ UNCHANGED <<recvEnabled, nextNum, stored, handlers, loop, reported>>

(* ... and clear(), when other plug-ins are applied.                        *)
Clear ==
  /\ UserMayAct /\ attached
  /\ attached' = FALSE
  /\ UNCHANGED <<recvEnabled, nextNum, stored, handlers, loop, reported>>

(* The start/stop button of the receive area.                               *)
SetRecvEnabled ==
  /\ UserMayAct /\ attached
  /\ recvEnabled' = ~recvEnabled
  /\ UNCHANGED <<attached, nextNum, stored, handlers, loop, reported>>

(* The socket reports data, from which the protocol reads messages.         *)
SocketDataReceived ==
  /\ loop /\ attached /\ recvEnabled
  /\ \E names \in Chunks : Call("Received", names, TRUE)
  /\ UNCHANGED <<attached, recvEnabled, nextNum, stored, reported>>

(* The paced sender or the application calls sendMsgs().                    *)
SendMsgs ==
  /\ loop /\ attached
  /\ \E names \in Chunks : Call("Sent", names, TRUE)
  /\ UNCHANGED <<attached, recvEnabled, nextNum, stored, reported>>

(* The number is used and not counted up.                                    *)
WrongTellReceived ==
  /\ Running("Received") /\ Top.todo # <<>> /\ ~Top.told
  /\ WithTop([Top EXCEPT !.told = TRUE, !.todo = Tail(@),
                         !.done = Append(@, Numbered("Received", Head(Top.todo)))])
  /\ UNCHANGED <<attached, recvEnabled, nextNum, stored, loop, reported>>

(* The loop of socketDataReceived() numbers a message and tells the         *)
(* protocol about it ...                                                    *)
TellReceived ==
  /\ Running("Received") /\ Top.todo # <<>> /\ ~Top.told
  /\ WithTop([Top EXCEPT !.told = TRUE, !.todo = Tail(@),
                         !.done = Append(@, Numbered("Received", Head(Top.todo)))])
  /\ nextNum' = nextNum + 1
  /\ UNCHANGED <<attached, recvEnabled, stored, loop, reported>>

(* ... and then reports it to the application.                              *)
ReportReceived(m) ==
  /\ Running("Received") /\ Top.told
  /\ m = Last(Top.done)
  /\ reported' = Append(reported, m)
  /\ WithTop([Top EXCEPT !.told = FALSE])
  /\ UNCHANGED <<attached, recvEnabled, nextNum, stored, loop>>

(* The new list replaces the stored one.                                     *)
WrongStoreReceived ==
  /\ Running("Received") /\ Top.todo = <<>> /\ ~Top.told
  /\ stored' = Top.done
  /\ Return
  /\ UNCHANGED <<attached, recvEnabled, nextNum, reported>>

(* After the loop the whole list is spliced into m_allMsgs.                 *)
StoreReceived ==
  /\ Running("Received") /\ Top.todo = <<>> /\ ~Top.told
  /\ stored' = stored \o Top.done
  /\ Return
  /\ UNCHANGED <<attached, recvEnabled, nextNum, reported>>

(* sendMsgs() hands the message to the socket and tells the protocol.       *)
TellSent ==
  /\ Running("Sent") /\ Top.todo # <<>> /\ ~Top.told
  /\ WithTop([Top EXCEPT !.told = TRUE])
  /\ UNCHANGED <<attached, recvEnabled, nextNum, stored, loop, reported>>

(* The guard at the end of the iteration numbers, stores and reports the    *)
(* message, whether it was handed over, could not be written, or was kept   *)
(* back by a filter.                                                        *)
StoreSent(m) ==
  /\ Running("Sent") /\ Top.todo # <<>>
  /\ m = Numbered("Sent", Head(Top.todo))
  /\ nextNum' = nextNum + 1
  /\ stored' = Append(stored, m)
  /\ reported' = Append(reported, m)
  /\ WithTop([Top EXCEPT !.told = FALSE, !.todo = Tail(@)])
  /\ UNCHANGED <<attached, recvEnabled, loop>>

SendDone ==
  /\ Running("Sent") /\ Top.todo = <<>>
  /\ Return
  /\ UNCHANGED <<attached, recvEnabled, nextNum, stored, reported>>

(* The protocol, told of a message, asks for another one to be sent:        *)
(* protocolSendMessageReport() calls sendMsgs() before it returns.          *)
Reply ==
  /\ Replies /\ ~loop /\ handlers # <<>> /\ Top.told /\ attached
  /\ \E name \in Names : Call("Sent", <<name>>, FALSE)
  /\ UNCHANGED <<attached, recvEnabled, nextNum, stored, reported>>

(* A plug-in the handler has called reports an error.                       *)
OpenBox ==
  /\ Dialogs /\ ~loop /\ handlers # <<>>
  /\ \/ Top.told
     \/ Top.type = "Received" /\ Top.done = <<>>
     \/ Top.type = "Sent" /\ Top.todo # <<>>
  /\ loop' = TRUE
  /\ UNCHANGED <<attached, recvEnabled, nextNum, stored, handlers, reported>>

CloseBox ==
  /\ loop /\ handlers # <<>>
  /\ loop' = FALSE
  /\ UNCHANGED <<attached, recvEnabled, nextNum, stored, handlers, reported>>

(* deleteMsg(), for a message the application was told of.                  *)
Delete(m) ==
  /\ UserMayAct
  /\ stored' = DeleteMsg(stored, m)
  /\ reported' = DeleteMsg(reported, m)
  /\ UNCHANGED <<attached, recvEnabled, nextNum, handlers, loop>>

(* deleteMsgs() for the list the application shows, or deleteAllMsgs() when *)
(* the list is as long as m_allMsgs: GuiAppMgr::deleteMessages().           *)
DeleteList(list) ==
  /\ UserMayAct
  /\ stored' = IF Len(list) = Len(stored) THEN <<>> ELSE DeleteMsgs(stored, list)
  /\ reported' = Among(reported, ToSet(reported) \ ToSet(list))
  /\ UNCHANGED <<attached, recvEnabled, nextNum, handlers, loop>>

(* deleteAllMsgs() and clear(): plug-ins of another protocol are applied.   *)
Reset ==
  /\ UserMayAct /\ attached
  /\ attached' = FALSE
  /\ stored' = <<>> /\ reported' = <<>>
  /\ UNCHANGED <<recvEnabled, nextNum, handlers, loop>>

(* addMsgs(): messages loaded from a file are numbered anew.                *)
Loaded(names, types) ==
  [k \in 1..Len(names) |->
     [num |-> nextNum + k - 1, type |-> types[k], name |-> names[k]]]

Files == UNION {{Loaded(names, types) : types \in [DOMAIN names -> Types]} :
                  names \in Chunks}

(* deleteAllMsgs() and addMsgs(): the file replaces what is stored.  The    *)
(* button is enabled while receiving is stopped.                            *)
Load(msgs) ==
  /\ UserMayAct /\ attached /\ ~recvEnabled /\ Bounded(Len(msgs))
  /\ stored' = msgs
  /\ reported' = msgs
  /\ nextNum' = nextNum + Len(msgs)
  /\ UNCHANGED <<attached, recvEnabled, handlers, loop>>

(* What happens without a word to the application's message list.           *)
Silent ==
  \/ Attach \/ Clear \/ SetRecvEnabled
  \/ SocketDataReceived \/ SendMsgs
  \/ TellReceived \/ StoreReceived \/ TellSent \/ SendDone
  \/ Reply \/ OpenBox \/ CloseBox

(* The application's list holds some of the messages it was told of, in     *)
(* that order or, after a refresh, in the order they are stored.            *)
AppLists ==
  {Among(all, some) : all \in {reported, Among(stored, ToSet(reported))},
                      some \in SUBSET ToSet(reported)}

Next ==
  \/ Silent \/ Reset
  \/ \E msgs \in Files : Load(msgs)
  \/ \E list \in AppLists \ {<<>>} : DeleteList(list)
  \/ \E m \in ToSet(reported) : Delete(m)
  \/ \E name \in Names : StoreSent(Numbered("Sent", name))
  \/ \E m \in InHand : ReportReceived(m)

Spec == Init /\ [][Next]_msgMgrVars

-----------------------------------------------------------------------------
(* A number identifies one message, in the store, in the hands of any       *)
(* nested handler and in the application's list, and no number to come is   *)
(* in use.  deleteMsg() and deleteMsgs() compare nothing else.              *)
NumbersIdentify ==
  /\ \A m, n \in ToSet(stored) \cup InHand \cup ToSet(reported) :
       m.num < nextNum /\ (m.num = n.num => m = n)
  /\ IsInjective(stored) /\ IsInjective(reported)

(* Nothing the application still lists is missing from the store, however   *)
(* handlers nest and lists are deleted: deleteMsg() would otherwise run     *)
(* into its assertion Deleting_non_existing_message.                        *)
ReportedAreKept == ToSet(reported) \subseteq ToSet(stored) \cup InHand

(* What a deletion takes out of the store was asked for: the walk of        *)
(* deleteMsgs() never takes a neighbour along, the shortcut for lists of    *)
(* equal length never hits a list of other messages, and the messages that  *)
(* stay keep their order.                                                   *)
DeletesOnlyListed ==
  [][ Len(stored') < Len(stored) /\ attached' = attached /\ nextNum' = nextNum =>
        /\ ToSet(stored) \ ToSet(stored') \subseteq ToSet(reported) \ ToSet(reported')
        /\ stored' = Among(stored, ToSet(stored')) ]_msgMgrVars
=============================================================================
