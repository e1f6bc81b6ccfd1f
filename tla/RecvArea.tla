------------------------------ MODULE RecvArea ------------------------------
(***************************************************************************)
(* The receive area: GuiAppMgr (app/cc_view/src/GuiAppMgr.cpp) as far as it  *)
(* shows messages, the list widget with its current row and the selection    *)
(* the tool bar believes in, on top of the message manager that reports      *)
(* what to show and deletes what it is told to.                              *)
(*                                                                         *)
(* A message is added inside the handler of the message manager (Arrives);   *)
(* the user's clicks run in the outermost event loop; the throttle timer of  *)
(* the details pane fires in any event loop, that of an error box included.  *)
(***************************************************************************)
EXTENDS MsgMgr, TLC

CONSTANTS
  Garbage,      (* the name of a ToolsInvalidMessage                       *)
  Filters,      (* the sets of names the user may hide with the dialog     *)
  Toggles,      (* the list modes the user may switch                      *)
  SendItem,     (* stands for the selected message of the send list        *)
  NoMsg

ASSUME RecvAreaAssumption ==
  /\ Garbage \in Names /\ Filters \subseteq SUBSET (Names \ {Garbage})
  /\ Toggles \subseteq {"ShowReceived", "ShowSent", "ShowGarbage", "ApplyFilter"}
  /\ SendItem \notin Message /\ NoMsg \notin Message \cup {SendItem}

VARIABLES
  mode,         (* m_recvListMode                                          *)
  hidden,       (* m_filteredMessages                                      *)
  view,         (* GuiAppMgr, list widget and tool bar:                    *)
                (*   shown, count     the rows; m_recvListCount            *)
                (*   row              the message in the current row       *)
                (*   selectOnAdd      does a new row become current?       *)
                (*   selType, clicked m_selType, m_clickedMsg              *)
                (*   barIdx           m_selectedIdx plus one, 0 for none   *)
                (*   pane             the message displayed in detail      *)
                (*   pending, waiting the throttle of the display          *)
  nested        (* history: a handler has run inside another one           *)

vars == <<attached, recvEnabled, nextNum, stored, handlers, loop, reported,
          mode, hidden, view, nested>>

Modes == {"ShowReceived", "ShowSent", "ShowGarbage", "ApplyFilter"}

View ==
  [shown: Seq(Message), count: Nat, row: Message \cup {NoMsg}, selectOnAdd: BOOLEAN,
   selType: {"None", "Recv", "Send"}, clicked: Message \cup {NoMsg, SendItem},
   barIdx: Nat, pane: Message \cup {NoMsg, SendItem},
   pending: Message \cup {NoMsg}, waiting: BOOLEAN]

AreaTypeOK == TypeOK /\ mode \subseteq Modes /\ hidden \in Filters \cup {{}} /\ view \in View /\ nested \in BOOLEAN

-----------------------------------------------------------------------------
(* ToolsInvalidMessage::numericIdImpl() and ToolsMessage::idAsStringImpl(). *)
NumericId(m) == IF m.name = Garbage THEN 0 ELSE 1

IdAsString(m) == ToString(NumericId(m))

(* canAddToRecvList()                                                       *)
CanAdd(m, modes, names) ==
  IF IdAsString(m) = "" THEN "ShowGarbage" \in modes
  ELSE /\ m.type = "Sent" => "ShowSent" \in modes
       /\ m.type = "Received" => "ShowReceived" \in modes
       /\ "ApplyFilter" \in modes => m.name \notin names

(* Operators named Wrong... are deliberate mistakes, each next to the        *)
(* definition it would replace; nothing refers to them.                      *)

(* The message waiting for the throttle is not forgotten.                    *)
WrongDisplay(v, m) == [v EXCEPT !.pane = m]

(* displayMessage()                                                          *)
Display(v, m) == [v EXCEPT !.pending = NoMsg, !.pane = m]

(* clearDisplayedMessage()                                                   *)
ClearDisplayed(v) == [v EXCEPT !.selType = "None", !.clicked = NoMsg, !.pane = NoMsg]

(* addMsgToRecvList() and MsgListWidget::addMessage()                       *)
AddRow(v, m) ==
  [v EXCEPT !.shown = Append(@, m), !.count = @ + 1,
            !.row = IF v.selectOnAdd THEN m ELSE @]

(* New rows still become current while a message is selected.                *)
WrongClick(v, m, type) ==
  IF v.clicked = m
  THEN [ClearDisplayed(v) EXCEPT !.selectOnAdd = TRUE]
  ELSE [Display(v, m) EXCEPT !.selType = type, !.clicked = m]

(* msgClicked(): a second click on the same message gives up the selection. *)
Click(v, m, type) ==
  IF v.clicked = m
  THEN [ClearDisplayed(v) EXCEPT !.selectOnAdd = TRUE]
  ELSE [Display(v, m) EXCEPT !.selType = type, !.clicked = m, !.selectOnAdd = FALSE]

(* recvMsgClicked()                                                         *)
RecvClicked(v, m, idx) ==
  LET w == Click(v, m, "Recv")
  IN  IF w.clicked = NoMsg THEN [w EXCEPT !.row = NoMsg, !.barIdx = 0]
      ELSE [w EXCEPT !.barIdx = idx]

(* sendMsgClicked()                                                         *)
SendClicked(v) == Click([v EXCEPT !.row = NoMsg, !.barIdx = 0], SendItem, "Send")

(* clearRecvList() and MsgListWidget::clearList()                           *)
ClearList(v) ==
  LET w == IF v.selType = "Send" THEN v ELSE ClearDisplayed(v)
      u == IF v.selType = "Recv" THEN [w EXCEPT !.selectOnAdd = TRUE, !.barIdx = 0] ELSE w
  IN  [u EXCEPT !.count = 0, !.shown = <<>>, !.row = NoMsg]

(* refreshRecvList(): the list is built again from m_allMsgs, and the       *)
(* selection is made again when its message comes by.                       *)
Refresh(v, msgs, modes, names) ==
  LET start == CASE v.selType = "Recv" -> RecvClicked(v, v.clicked, v.count)
                 [] v.selType = "None" -> [v EXCEPT !.pane = NoMsg]
                 [] v.selType = "Send" -> v
      ShowAgain(w, m) ==
        LET a == AddRow(w, m)
        IN  IF m = v.clicked THEN RecvClicked(a, m, a.count) ELSE a
      listed == Among(msgs, {m \in ToSet(msgs) : CanAdd(m, modes, names)})
      rows[k \in 0..Len(listed)] ==
        IF k = 0 THEN ClearList(start) ELSE ShowAgain(rows[k - 1], listed[k])
      end == rows[Len(listed)]
  IN  IF end.clicked = NoMsg THEN [end EXCEPT !.row = NoMsg] ELSE end

(* msgAdded(): the display of unselected messages is throttled.             *)
MsgAdded(v, m) ==
  LET w == AddRow(v, m)
  IN  IF ~CanAdd(m, mode, hidden) THEN v
      ELSE IF w.clicked # NoMsg THEN w
      ELSE IF w.waiting THEN [w EXCEPT !.pending = m]
      ELSE [Display(w, m) EXCEPT !.waiting = TRUE]

(* addMsgs() reports one message after the other.                            *)
AllAdded(v, msgs) ==
  LET added[k \in 0..Len(msgs)] ==
        IF k = 0 THEN v ELSE MsgAdded(added[k - 1], msgs[k])
  IN  added[Len(msgs)]

(* deleteCurrentMessage(): Qt makes the next row current, or the last one,  *)
(* and the widget clicks it.                                                *)
DeleteRow(v) ==
  LET i    == CHOOSE k \in DOMAIN v.shown : v.shown[k] = v.row
      rest == Among(v.shown, ToSet(v.shown) \ {v.row})
      next == IF i <= Len(rest) THEN i ELSE Len(rest)
  IN  IF rest = <<>> THEN [v EXCEPT !.shown = rest, !.row = NoMsg]
      ELSE RecvClicked([v EXCEPT !.shown = rest, !.row = rest[next]], rest[next], next)

(* decRecvListCount()                                                       *)
DecCount(v) == [v EXCEPT !.count = @ - 1, !.barIdx = IF v.count = 1 THEN 0 ELSE @]

-----------------------------------------------------------------------------
AreaInit ==
  /\ Init
  /\ mode = Modes /\ hidden = {}
  /\ view = [shown |-> <<>>, count |-> 0, row |-> NoMsg, selectOnAdd |-> TRUE,
             selType |-> "None", clicked |-> NoMsg, barIdx |-> 0, pane |-> NoMsg,
             pending |-> NoMsg, waiting |-> FALSE]
  /\ nested = FALSE

(* The message manager reports a message from the middle of a handler.      *)
Arrives(m) ==
  /\ ReportReceived(m) \/ StoreSent(m)
  /\ view' = MsgAdded(view, m)
  /\ UNCHANGED <<mode, hidden>>

(* pendingDisplayTimeout()                                                  *)
PendingTimeout ==
  /\ loop /\ view.waiting
  /\ view' = IF view.pending # NoMsg
             THEN [Display(view, view.pending) EXCEPT !.waiting = FALSE]
             ELSE [view EXCEPT !.waiting = FALSE]
  /\ UNCHANGED <<msgMgrVars, mode, hidden>>

(* The user clicks a row: it becomes current, which is a click of its own,  *)
(* or it was current already.                                               *)
ClickRow(k) ==
  /\ UserMayAct
  /\ view' = RecvClicked([view EXCEPT !.row = view.shown[k]], view.shown[k], k)
  /\ UNCHANGED <<msgMgrVars, mode, hidden>>

(* The user clicks the message of the send list, ...                        *)
ClickSend ==
  /\ UserMayAct
  /\ view' = SendClicked(view)
  /\ UNCHANGED <<msgMgrVars, mode, hidden>>

(* ... or deletes it there, or the send list: sendDeleteClicked(),          *)
(* sendClearClicked().                                                      *)
DropSend ==
  /\ UserMayAct /\ view.selType = "Send"
  /\ view' = ClearDisplayed(view)
  /\ UNCHANGED <<msgMgrVars, mode, hidden>>

(* The buttons go by what the tool bar was told: the index of the selected  *)
(* message, ...                                                              *)
MsgSelected == view.barIdx > 0

DeleteEnabled == attached /\ MsgSelected

(* ... the count of the rows, ...                                            *)
ListEmpty == view.count = 0

ClearEnabled == attached /\ ~ListEmpty

(* ... and whether messages are received.  Whether sent ones keep coming is  *)
(* not asked again when the user switches them on or off, so that a list may *)
(* be loaded at any time between two of them.                                *)
LoadEnabled == attached /\ ~recvEnabled

(* recvDeleteClicked()                                                       *)
RecvDelete ==
  /\ DeleteEnabled
  /\ Delete(view.clicked)
  /\ view' = DecCount(DeleteRow(ClearDisplayed(view)))
  /\ UNCHANGED <<mode, hidden>>

(* recvClearClicked(): what the widget shows is to be deleted.              *)
RecvClear ==
  /\ ClearEnabled
  /\ DeleteList(view.shown)
  /\ view' = ClearList(view)
  /\ UNCHANGED <<mode, hidden>>

(* The old rows stay.                                                        *)
WrongRecvLoad(msgs) ==
  /\ Load(msgs)
  /\ view' = AllAdded(view, msgs)
  /\ UNCHANGED <<mode, hidden>>

(* recvLoadMsgsFromFile(): the rows go, then addMsgs() reports new ones.    *)
RecvLoad(msgs) ==
  /\ LoadEnabled /\ Load(msgs)
  /\ view' = AllAdded(ClearList(view), msgs)
  /\ UNCHANGED <<mode, hidden>>

(* The list is built again before the mode changes.                          *)
WrongToggle(flag) ==
  /\ UserMayAct
  /\ mode' = IF flag \in mode THEN mode \ {flag} ELSE mode \cup {flag}
  /\ view' = Refresh(view, stored, mode, hidden)
  /\ UNCHANGED <<msgMgrVars, hidden>>

(* updateRecvListMode()                                                     *)
Toggle(flag) ==
  /\ UserMayAct
  /\ mode' = IF flag \in mode THEN mode \ {flag} ELSE mode \cup {flag}
  /\ view' = Refresh(view, stored, mode', hidden)
  /\ UNCHANGED <<msgMgrVars, hidden>>

(* setFilteredMessages()                                                    *)
SetFilter(names) ==
  /\ UserMayAct /\ attached /\ names # hidden
  /\ hidden' = names
  /\ view' = IF "ApplyFilter" \in mode THEN Refresh(view, stored, mode, names) ELSE view
  /\ UNCHANGED <<msgMgrVars, mode>>

(* applyNewPlugins() with plug-ins of another protocol.                     *)
Replug ==
  /\ Reset
  /\ view' = ClearList(view)
  /\ UNCHANGED <<mode, hidden>>

AreaNext ==
  \/ Silent /\ UNCHANGED <<mode, hidden, view>>
  \/ \E m \in InHand : Arrives(m)
  \/ \E name \in Names : Arrives(Numbered("Sent", name))
  \/ PendingTimeout
  \/ \E k \in DOMAIN view.shown : ClickRow(k)
  \/ ClickSend \/ DropSend \/ RecvDelete \/ RecvClear \/ Replug
  \/ \E msgs \in Files : RecvLoad(msgs)
  \/ \E flag \in Toggles : Toggle(flag)
  \/ \E names \in Filters \cup {{}} : SetFilter(names)

AreaStep == AreaNext /\ nested' = (nested \/ Len(handlers') > 1)

AreaSpec == AreaInit /\ [][AreaStep]_vars
-----------------------------------------------------------------------------
(* Widget, tool bar and GuiAppMgr agree about what is selected: the row      *)
(* "Delete Selected Message" removes is the message deleteMsg() is called    *)
(* for, the one in the pane, and the one the index in the tool bar names     *)
(* (the assertions of recvDeleteClicked(), deleteCurrentMessage(),           *)
(* msgSelected()).                                                           *)
SelectionIsOne ==
  /\ view.count = Len(view.shown)
  /\ view.selType = "Recv" =>
       /\ view.barIdx \in DOMAIN view.shown
       /\ view.shown[view.barIdx] = view.clicked
       /\ view.row = view.clicked /\ view.pane = view.clicked
  /\ view.selType # "Recv" => view.barIdx = 0

(* While the user may act, the rows are messages the manager can delete.     *)
ShownAreStored == UserMayAct => ToSet(view.shown) \subseteq ToSet(stored)

(* A selected message keeps its row and the pane, whatever arrives, times    *)
(* out or is filtered out around it, until the user selects something else.  *)
SelectionPinsPane ==
  [][ view.clicked # NoMsg /\ view'.clicked = view.clicked =>
        view'.pane = view.pane /\ view'.row = view.row ]_vars

(* What is shown is what is stored, less what the user hides, until a       *)
(* handler has run inside another one: see ClearedIsGone.                    *)
ListShowsStore ==
  UserMayAct /\ ~nested =>
    ToSet(view.shown) = {m \in ToSet(stored) : CanAdd(m, mode, hidden)}

(* "Delete All Displayed Messages" (tool tip of the clear button): nothing   *)
(* the user has deleted is still in the store.                               *)
ClearedIsGone == UserMayAct => ToSet(stored) \subseteq ToSet(reported)
=============================================================================
