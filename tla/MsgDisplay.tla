------------------------------ MODULE MsgDisplay ------------------------------
(***************************************************************************)
(* A message is displayed as a tree of parts (app/cc_view/src/widget/        *)
(* ProtocolsStackWidget.cpp), the selected one in a pane                     *)
(* (MsgDetailsWidget.cpp), which edits it: the fields, from which the        *)
(* protocol makes the transport and raw data parts anew                      *)
(* (lib/src/ToolsProtocol.cpp, lib/include/cc_tools_qt/ToolsFrameBase.h), or *)
(* the extra information, a text that is parsed into a map.  Two widgets own *)
(* such a display: RightPaneWidget.cpp and the dialog that edits a message.  *)
(***************************************************************************)
EXTENDS Naturals, Sequences

CONSTANTS
  Refreshed,    (* what doRefresh() makes of the value of the fields        *)
  MaxEdits      (* bound: changes to messages                               *)

VARIABLES
  msgs,         (* the messages, Ids -> what belongs to one                 *)
  clicked,      (* m_clickedMsg of GuiAppMgr, what the lists have selected   *)
  shown,        (* m_displayedMsg of the owner                               *)
  tree,         (* the items, of m_displayedMsg of the display: objects the  *)
                (* message had when they were made                          *)
  pane,         (* what is displayed of the current item                    *)
  editing,      (* m_globalEditEnabled, m_editEnabled of the details         *)
  queued,       (* invocations of displayMessagePostponed()                 *)
  stray,        (* history: the last display was posted for another message  *)
                (* than the one that is selected now                        *)
  forgotten,    (* history: messages edited by a stray display               *)
  chosen,       (* history: no item without a message was ever selected      *)
  edits         (* bound counter                                           *)

vars == <<msgs, clicked, shown, tree, pane, editing, queued, stray, forgotten, chosen, edits>>

None == "none"
Values == DOMAIN Refreshed

Nothing == 0                          (* bytes there are none of           *)

(* Received with extra information; received and no message, which has the    *)
(* id "0" and no transport part; loaded from a file, with some or none; the   *)
(* copy of another; the result of the dialog.                                *)
Arriving == {"received", "garbage"}
Ids == Arriving \cup {"loaded", "copy", "made"}
Maps == {"", "j1", "j2"}              (* extra information, "" is the empty map *)
Texts == Maps \cup {"bad"}            (* of the message that shows it         *)
MapOf(text) == IF text = "bad" THEN "" ELSE text

NoMessage == [type |-> "absent"]
Parts(m) ==
  {"app", "raw"} \cup (IF m.transport = Nothing THEN {} ELSE {"transport"})
                 \cup (IF m.info = None THEN {} ELSE {"info"})

-----------------------------------------------------------------------------
(* What is shown starts empty.                                                *)
WrongInfo(m) == IF m.forced THEN "" ELSE None

(* updateMessage(): refreshMsg(), then the parts that derive from the fields. *)
Info(m) == IF m.extra # "" THEN m.extra ELSE IF m.forced THEN "" ELSE None

(* The parts are made before the fields are refreshed.                        *)
WrongUpdated(m) ==
  [m EXCEPT !.value = Refreshed[@], !.transport = m.value, !.raw = m.value, !.info = Info(m)]

Updated(m) ==
  LET v == Refreshed[m.value]
  IN  [m EXCEPT !.value = v, !.transport = v, !.raw = v, !.info = Info(m)]

Changed(m) == Refreshed[m.value] # m.value

New(type, value, extra, forced) ==
  Updated([type |-> type, value |-> value, transport |-> value, raw |-> value,
           info |-> None, extra |-> extra, forced |-> forced])

(* The raw data are the bytes, with the extra information of the socket.      *)
Garbage(extra) ==
  [type |-> "received", value |-> 1, transport |-> Nothing, raw |-> 1,
   info |-> IF extra = "" THEN None ELSE extra, extra |-> extra, forced |-> FALSE]

(* cloneMessage(): the map is copied after the parts were made.               *)
Clone(m) == [New("unsent", m.value, "", FALSE) EXCEPT !.extra = m.extra]

-----------------------------------------------------------------------------
NoTree == [of |-> None]
NoPane == [part |-> None]

(* What the pane has of a part: fields are read when it is made.              *)
PaneOf(m, part) == [part |-> part, value |-> IF part = "app" THEN m.value ELSE m[part]]

TreeOf(id, m) ==
  [of |-> id, items |-> Parts(m), transport |-> m.transport, raw |-> m.raw, info |-> m.info, current |-> "app"]

(* displayMessage(): with the first item selected the others are given their *)
(* new objects, if there are three (an assertion says there are, which fails  *)
(* for garbage without extra information), else the tree is made anew.        *)
Short(id, force) ==
  /\ ~force /\ tree.of = id /\ tree.current = "app"
  /\ tree.items \cap {"transport", "info"} # {}

(* The item of the raw data is forgotten.                                     *)
WrongRetold(m) ==
  IF "transport" \in tree.items
  THEN [tree EXCEPT !.transport = m.transport, !.info = IF "info" \in tree.items THEN m.info ELSE @]
  ELSE [tree EXCEPT !.raw = m.transport, !.info = m.raw]

(* By their place: the second is taken for that of the transport part.        *)
Retold(m) ==
  IF "transport" \in tree.items
  THEN [tree EXCEPT !.transport = m.transport, !.raw = m.raw,
                    !.info = IF "info" \in tree.items THEN m.info ELSE @]
  ELSE [tree EXCEPT !.raw = m.transport, !.info = m.raw]

(* DefaultMessageDisplayWidget: the tree, and the pane for its first item.    *)
DisplaysIn(id, force, kept) ==
  LET m == msgs'[id]
  IN  /\ tree' = IF Short(id, force) THEN Retold(m) ELSE TreeOf(id, m)
      /\ pane' = IF Short(id, force) THEN kept ELSE PaneOf(m, "app")

(* Editing that was enabled once stays so.                                    *)
WrongDisplays(id, force, kept) ==
  /\ DisplaysIn(id, force, kept) /\ shown' = id /\ stray' = FALSE
  /\ LET enabled == editing.all \/ msgs'[id].type = "unsent" IN editing' = [all |-> enabled, part |-> enabled]

(* RightPaneWidget: display, then enable editing for what was not sent yet.   *)
Displays(id, force, kept) ==
  /\ DisplaysIn(id, force, kept) /\ shown' = id /\ stray' = FALSE
  /\ LET enabled == msgs'[id].type = "unsent" IN editing' = [all |-> enabled, part |-> enabled]

-----------------------------------------------------------------------------
Init ==
  /\ \E v \in Values : \E extra \in Maps :
       msgs = [id \in Ids |-> IF id = "loaded" THEN New("unsent", v, extra, FALSE) ELSE NoMessage]
  /\ clicked = None /\ shown = None /\ tree = NoTree /\ pane = NoPane
  /\ editing = [all |-> FALSE, part |-> FALSE]
  /\ queued = <<>> /\ stray = FALSE /\ forgotten = {} /\ chosen = TRUE /\ edits = 0

Present(id) == msgs[id].type # "absent"
Counted == edits < MaxEdits /\ edits' = edits + 1

(* msgReceived(): what arrives while no message is selected is displayed, but *)
(* for what follows within DisplayTimeout.                                   *)
Arrive(id, extra) ==
  /\ ~Present(id)
  /\ msgs' = [msgs EXCEPT ![id] = IF id = "garbage" THEN Garbage(extra) ELSE New("received", 1, extra, FALSE)]
  /\ \/ clicked = None /\ Displays(id, FALSE, pane)
     \/ UNCHANGED <<shown, tree, pane, editing, stray>>
  /\ UNCHANGED <<clicked, queued, forgotten, chosen, edits>>

(* msgClicked(), for a click on a row.                                        *)
Display(id) ==
  /\ Present(id) /\ clicked # id /\ clicked' = id
  /\ UNCHANGED msgs /\ Displays(id, FALSE, pane)
  /\ UNCHANGED <<queued, forgotten, chosen, edits>>

(* clearDisplayedMessage(): clear(), the owner keeps its pointer.             *)
ClearDisplay ==
  /\ clicked' = None /\ tree' = NoTree /\ pane' = NoPane /\ stray' = FALSE
  /\ UNCHANGED <<msgs, shown, editing, queued, forgotten, chosen, edits>>

(* The items of garbage that was displayed once more: that of the raw data    *)
(* has been given the transport part, that of the extra information the raw   *)
(* data.                                                                    *)
Mistold == tree.of # None /\ "transport" \notin tree.items /\ tree.raw = Nothing

(* newItemSelected(); the item at the top stands for its first child.         *)
SelectItem(part) ==
  /\ tree.of # None /\ part \in tree.items /\ part # tree.current
  /\ chosen' = (chosen /\ (Mistold \/ (part = "info" => tree.info # None)))
  /\ tree' = [tree EXCEPT !.current = part]
  /\ pane' = IF part = "app" THEN PaneOf(msgs[tree.of], "app") ELSE [part |-> part, value |-> tree[part]]
  /\ editing' = [editing EXCEPT !.part = editing.all /\ part \in {"app", "info"}]
  /\ UNCHANGED <<msgs, clicked, shown, queued, stray, forgotten, edits>>

(* A field is changed: msgUpdated() of the right pane updates its own message *)
(* and has it displayed within sendUpdateMessage(), which asserts that one is *)
(* selected, and once more from the event loop.                              *)
EditField(v) ==
  /\ pane.part = "app" /\ editing.part /\ v # pane.value /\ clicked # None /\ Counted
  /\ LET edited == [msgs EXCEPT ![tree.of].value = v]
         m == edited[shown]
     IN  /\ msgs' = [edited EXCEPT ![shown] = Updated(m)]
         /\ queued' = Append(queued, [msg |-> shown, force |-> Changed(m)])
  /\ clicked' = shown /\ Displays(shown, FALSE, [pane EXCEPT !.value = v])
  /\ forgotten' = (forgotten \cup {tree.of}) \ {shown}
  /\ UNCHANGED chosen

(* DefaultMessageDisplayWidget::msgUpdated() keeps the map while the text     *)
(* cannot be parsed.                                                        *)
EditInfo(text) ==
  /\ pane.part = "info" /\ editing.part /\ text # pane.value /\ Counted
  /\ msgs' = [msgs EXCEPT ![tree.of].info = text,
                          ![tree.of].extra = IF text = "bad" THEN @ ELSE MapOf(text)]
  /\ tree' = [tree EXCEPT !.info = text] /\ pane' = [pane EXCEPT !.value = text]
  /\ UNCHANGED <<clicked, shown, editing, queued, stray, forgotten, chosen>>

(* displayMessagePostponed(): the owner's message stays what it was; an item   *)
(* that is selected anew enables its fields as newItemSelected() does.        *)
Postponed ==
  /\ queued # <<>> /\ queued' = Tail(queued)
  /\ LET q == Head(queued)
     IN  /\ UNCHANGED msgs /\ DisplaysIn(q.msg, q.force, pane)
         /\ editing' = IF Short(q.msg, q.force) THEN editing ELSE [editing EXCEPT !.part = editing.all]
         /\ stray' = (q.msg # clicked)
  /\ UNCHANGED <<clicked, shown, forgotten, chosen, edits>>

(* recvDupClicked(), sendDupClicked(); that the bytes of garbage can be        *)
(* decoded as a transport part is an assertion of the frame.                  *)
Duplicate ==
  /\ clicked \notin {None, "garbage"} /\ ~Present("copy") /\ Counted
  /\ msgs' = [msgs EXCEPT !["copy"] = Clone(msgs[clicked])]
  /\ clicked' = "copy" /\ Displays("copy", FALSE, pane)
  /\ UNCHANGED <<queued, forgotten, chosen>>

(* The dialog, whose event loop deals with what is posted: its message takes  *)
(* the fields and the extra information, and replaces the other in the list.  *)
(* reset() is the value of a new one.  A text that cannot be parsed is        *)
(* accepted as none.                                                        *)
EditDialog(v, text) ==
  /\ queued = <<>> /\ clicked # None /\ ~Present("made") /\ msgs[clicked].type = "unsent" /\ Counted
  /\ msgs' = [msgs EXCEPT ![clicked] = NoMessage,
                          !["made"] = [New("unsent", v, MapOf(text), TRUE) EXCEPT !.info = text]]
  /\ clicked' = "made" /\ Displays("made", FALSE, pane)
  /\ forgotten' = forgotten \ {clicked}
  /\ UNCHANGED <<queued, chosen>>

Next ==
  \/ ClearDisplay \/ Duplicate \/ Postponed
  \/ \E id \in Arriving : \E extra \in {"", "j1"} : Arrive(id, extra)
  \/ \E id \in Ids : Display(id)
  \/ \E part \in {"app", "transport", "raw", "info"} : SelectItem(part)
  \/ \E v \in Values : EditField(v)
  \/ \E text \in Texts : EditInfo(text)
  \/ \E v \in Values : \E text \in Texts : EditDialog(v, text)

Spec == Init /\ [][Next]_vars

-----------------------------------------------------------------------------
(* What is sent and shown as bytes is always what the fields say, and what    *)
(* the fields say is consistent: refreshing changes nothing any more.  Not so *)
(* for a message edited in a stray display, which has another one updated.    *)
DerivedAgree ==
  \A id \in Ids \ (forgotten \cup {"garbage"}) : Present(id) =>
    msgs[id].transport = msgs[id].value /\ msgs[id].raw = msgs[id].value /\ ~Changed(msgs[id])

(* Only a message that was not sent yet can be edited, and what is edited is  *)
(* the message the owner will update and the list has selected.  Not so in a  *)
(* stray display: a click came before the display that an edit had posted.    *)
EditsOwnMessage ==
  pane.part # None /\ ~stray =>
    /\ tree.of = shown /\ tree.current = pane.part
    /\ editing.part <=> msgs[shown].type = "unsent" /\ pane.part \in {"app", "info"}
    /\ editing.part => clicked = shown

(* The items are those of the message as it is, except of garbage displayed   *)
(* once more, and the pane shows the current one; when updating the message   *)
(* has changed a field the user did not touch, a display that makes the pane  *)
(* anew is posted.                                                          *)
ShowsMessage ==
  tree.of # None /\ ~Mistold =>
    LET m == msgs[tree.of]
    IN  /\ "transport" \in tree.items => tree.transport = m.transport
        /\ tree.raw = m.raw
        /\ "info" \in tree.items => tree.info = m.info
        /\ \/ pane.value = m[IF pane.part = "app" THEN "value" ELSE pane.part]
           \/ \E i \in DOMAIN queued : queued[i] = [msg |-> tree.of, force |-> TRUE]

(* Extra information that can be parsed is what is sent with the message.     *)
ExtraIsSent ==
  \A id \in Ids : Present(id) /\ msgs[id].info \in Maps => msgs[id].extra = msgs[id].info

(* Messages that were received or sent stay as they were.                     *)
ReceivedStaysStep == \A id \in Arriving : Present(id) => msgs'[id] = msgs[id]
ReceivedStays == [][ReceivedStaysStep]_vars

(* The assertion of reportMessageSelected(): the item that is selected has a  *)
(* message; a tree of garbage that was told wrongly is left aside.           *)
SelectedHasMessage == chosen
===============================================================================
