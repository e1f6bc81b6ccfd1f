------------------------------ MODULE SendArea -------------------------------
(***************************************************************************)
(* The messages to send: GuiAppMgr (app/cc_view/src/GuiAppMgr.cpp), its tool *)
(* bar (widget/SendAreaToolBar.cpp) and its list (widget/MsgListWidget.cpp,  *)
(* widget/SendMsgListWidget.cpp).  The three keep the selection, the number  *)
(* of messages and the sending state each for itself and tell each other by  *)
(* signals, whose slots run within the one that emits them: a click on the   *)
(* tool bar moves a row of the list, which clicks another row on the way,    *)
(* which selects it.  An operator on the record area is one such call.  Rows *)
(* are counted from 1; 0 is the -1 of the code.                              *)
(***************************************************************************)
EXTENDS Naturals, Sequences, SequencesExt

CONSTANTS
  Protocols,    (* the protocols the user may apply                        *)
  NumMsgs,      (* bound: different messages of a protocol in the list      *)
  MaxRows       (* bound: rows of the list                                 *)

VARIABLES
  area,         (* the state of the three objects, see AreaInit            *)
  protocol,     (* MsgMgr::getProtocol()                                   *)
  sending       (* the messages handed to the paced sender, <<>> when idle  *)

vars == <<area, protocol, sending>>

None == "none"
Received == {<<None, 1>>, <<None, 2>>}    (* messages of the receive list  *)
Messages == Protocols \X (1 .. NumMsgs)
NoMsg == <<>>

AreaInit ==
  [rows |-> <<>>, current |-> 0,                       (* the list          *)
   clicked |-> NoMsg, selType |-> None, count |-> 0,    (* GuiAppMgr         *)
   state |-> "Idle",
   total |-> 0, selIdx |-> 0, active |-> FALSE,         (* the tool bar      *)
   recvSel |-> NoMsg,                                   (* the receive area  *)
   ok |-> TRUE]                      (* no assertion of the code has failed *)

Check(a, condition) == [a EXCEPT !.ok = @ /\ condition]

-----------------------------------------------------------------------------
(* The tool bar.                                                            *)
ListEmpty(a) == a.total = 0
MsgSelected(a) == a.selIdx > 0

(* refresh(): msgSelected() asserts that the row is one of the list.          *)
RefreshBar(a) ==
  Check(a, a.active /\ (a.state = "Idle" \/ (a.state = "SendingAll" /\ ~ListEmpty(a)))
             => a.selIdx <= a.total)

Ready(a) == a.active /\ a.state = "Idle"
StartEnabled(a) == Ready(a) /\ ~ListEmpty(a) /\ MsgSelected(a)
StartAllEnabled(a) == Ready(a) /\ ~ListEmpty(a)
LoadEnabled(a) == Ready(a)
SaveEnabled(a) == Ready(a) /\ ~ListEmpty(a)
AddEnabled(a) == Ready(a)
EditEnabled(a) == Ready(a) /\ MsgSelected(a)
CommentEnabled(a) == Ready(a) /\ MsgSelected(a)
DupEnabled(a) == Ready(a) /\ MsgSelected(a)
DeleteEnabled(a) == Ready(a) /\ MsgSelected(a)
ClearEnabled(a) == Ready(a) /\ ~ListEmpty(a)
UpEnabled(a) == Ready(a) /\ a.selIdx > 1

(* The button is as that of a move upwards.                                  *)
WrongDownEnabled(a) == Ready(a) /\ MsgSelected(a)

DownEnabled(a) == Ready(a) /\ MsgSelected(a) /\ a.selIdx < a.total

(* sendMsgSelectedReport(), sendListCountReport()                            *)
BarSelected(a, i) == RefreshBar([a EXCEPT !.selIdx = i])
BarCount(a) == RefreshBar([a EXCEPT !.total = a.count])

-----------------------------------------------------------------------------
(* The list: selectMsg(), clearSelection().  Their signals are off, or find   *)
(* no row that would be clicked.                                             *)
SelectMsg(a, i) == Check([a EXCEPT !.current = i], i <= Len(a.rows))
ClearSelection(a) == [a EXCEPT !.current = 0]

(* sigSendMsgSelected: the tool bar is told before the list.                  *)
Selected(a, i) == SelectMsg(BarSelected(a, i), i)
NotSelected(a) == Selected(a, 0)

ClearDisplayed(a) == [a EXCEPT !.selType = None, !.clicked = NoMsg]

(* msgClicked(): a second click takes the first one back.                     *)
MsgClicked(a, m, type) ==
  IF a.clicked = m
  THEN ClearDisplayed(Check(a, a.selType = type))
  ELSE [a EXCEPT !.selType = type, !.clicked = m]

SendMsgClicked(a, m, i) ==
  LET b == MsgClicked([a EXCEPT !.recvSel = NoMsg], m, "Send")
  IN  IF b.clicked = NoMsg THEN NotSelected(ClearSelection(b)) ELSE Selected(b, i)

RecvMsgClicked(a, m) ==
  LET b == MsgClicked(NotSelected(ClearSelection(a)), m, "Recv")
  IN  [b EXCEPT !.recvSel = b.clicked]

(* addMessage(): the new row becomes the current one without a signal.        *)
AddRow(a, m) == [a EXCEPT !.rows = Append(@, m), !.current = Len(a.rows) + 1]

(* addMessage() for one message after the other.                              *)
AddRows(a, ms) ==
  [a EXCEPT !.rows = @ \o ms, !.current = IF ms = <<>> THEN @ ELSE Len(a.rows) + Len(ms)]

-----------------------------------------------------------------------------
(* What GuiAppMgr does for the buttons and for what the dialogs return.       *)
AddNew(a, m) ==
  LET b == AddRow(BarCount([a EXCEPT !.count = @ + 1]), m)
      c == SendMsgClicked(b, m, b.count)
  IN  Check(c, c.selType = "Send" /\ c.clicked # NoMsg)

(* The row keeps the message as it was before the dialog.                     *)
WrongUpdate(a, m) ==
  Check([a EXCEPT !.clicked = m], a.count > 0 /\ a.clicked # NoMsg /\ a.current > 0)

Update(a, m) ==
  LET b == Check(a, a.count > 0 /\ a.clicked # NoMsg /\ a.current > 0)
  IN  [b EXCEPT !.clicked = m, !.rows = [@ EXCEPT ![a.current] = m]]

(* deleteCurrentMessage(): the view makes the next row the current one, or    *)
(* the row before when it was the last, and the list clicks it.               *)
DeleteRow(a) ==
  LET rest == RemoveAt(a.rows, a.current)
      next == IF a.current <= Len(rest) THEN a.current ELSE Len(rest)
      b == [a EXCEPT !.rows = rest, !.current = next]
  IN  IF next = 0 THEN b ELSE SendMsgClicked(b, rest[next], next)

(* The selection is not given up when the list has become empty.              *)
WrongDecCount(a) == BarCount([a EXCEPT !.count = @ - 1])

DecCount(a) ==
  LET b == [a EXCEPT !.count = @ - 1]
  IN  BarCount(IF b.count = 0 THEN NotSelected(b) ELSE b)

Delete(a) ==
  LET b == Check(a, a.count > 0 /\ a.selType = "Send" /\ a.clicked # NoMsg /\ a.current > 0)
  IN  DecCount(DeleteRow(ClearDisplayed(b)))

(* The tool bar is not told that there are no messages.                       *)
WrongClear(a) == [a EXCEPT !.rows = <<>>, !.current = 0, !.count = 0, !.selType = None, !.clicked = NoMsg,
                           !.selIdx = 0]

Clear(a) ==
  LET b == Check([a EXCEPT !.rows = <<>>, !.current = 0],
                 a.count > 0 /\ (a.selType = "Send" => a.clicked # NoMsg))
      c == [b EXCEPT !.count = 0]
  IN  BarCount(IF a.selType = "Send" THEN NotSelected(ClearDisplayed(c)) ELSE c)

(* sendSelectedMsgMoved()                                                   *)
Moved(a, to) == Selected(Check(a, a.clicked # NoMsg /\ a.selType = "Send"), to)

(* moveItem(): while the item is taken out its neighbour becomes the current  *)
(* one, which counts as a click on it; so does its return as the current one. *)
MoveItem(a, to) ==
  LET from == a.current
      m == a.rows[from]
      next == IF from < Len(a.rows) THEN from + 1 ELSE from - 1
      b == SendMsgClicked([a EXCEPT !.current = next], a.rows[next], next)
      c == [b EXCEPT !.rows = InsertAt(RemoveAt(@, from), to, m), !.current = to]
  IN  Moved(SendMsgClicked(c, m, to), to)

MoveUp(a, to) == IF a.current <= 1 THEN Check(a, FALSE) ELSE MoveItem(a, to)
MoveDown(a, to) == IF a.current >= Len(a.rows) THEN Check(a, FALSE) ELSE MoveItem(a, to)

Place(m, ms) == IF \E i \in DOMAIN ms : ms[i] = m THEN CHOOSE i \in DOMAIN ms : ms[i] = m ELSE 0

(* The message that was selected is not looked for.                           *)
WrongUpdateList(a) ==
  LET deselect == a.selType = "Send"
      b == IF deselect THEN SendMsgClicked(Check(a, a.clicked # NoMsg /\ a.count > 0), a.clicked, 0) ELSE a
  IN  BarCount([b EXCEPT !.count = Len(b.rows)])

(* sendUpdateList(): the selection is taken back and, when the message is     *)
(* still there, made again at its place.                                     *)
UpdateList(a) ==
  LET deselect == a.selType = "Send"
      b == IF deselect THEN SendMsgClicked(Check(a, a.clicked # NoMsg /\ a.count > 0), a.clicked, 0) ELSE a
      c == BarCount([b EXCEPT !.count = Len(b.rows)])
      place == Place(a.clicked, a.rows)
  IN  IF deselect /\ place > 0 THEN SendMsgClicked(c, a.clicked, place) ELSE c

(* loadMessages(): the rows are cleared without a word to the others.         *)
Load(a, clear, ms) ==
  LET b == IF clear THEN [a EXCEPT !.rows = <<>>, !.current = 0] ELSE a
  IN  UpdateList(AddRows(b, ms))

-----------------------------------------------------------------------------
Init ==
  /\ area = AreaInit /\ protocol \in Protocols /\ sending = <<>>

Fresh == {m \in Messages : m[1] = protocol /\ ~\E i \in DOMAIN area.rows : area.rows[i] = m}
Room(n) == Len(area.rows) + n <= MaxRows

Becomes(a) == area' = a /\ UNCHANGED <<protocol, sending>>

(* The buttons that open a dialog, and the dialog.  Nothing else runs but     *)
(* arriving messages: the dialogs are modal.                                 *)
NewDialog == AddEnabled(area) /\ Room(1) /\ \E m \in Fresh : Becomes(AddNew(area, m))

RawDialog ==
  /\ AddEnabled(area) /\ Room(2)
  /\ \E m, n \in Fresh : m # n /\ Becomes(AddNew(AddNew(area, m), n))

EditDialog == EditEnabled(area) /\ \E m \in Fresh : Becomes(Update(area, m))

(* The comment goes to the current row when it holds the message.             *)
CommentDialog ==
  /\ CommentEnabled(area)
  /\ Becomes(Check(area, /\ area.selType = "Send" /\ area.current > 0
                         /\ area.rows[area.current] = area.clicked))

LoadDialog ==
  /\ LoadEnabled(area)
  /\ \E clear \in BOOLEAN : \E n \in 0 .. 2 : \E ms \in [1 .. n -> Fresh] :
       /\ IsInjective(ms)
       /\ clear => area.count > 0
       /\ ~clear => Room(n)
       /\ Becomes(Load(area, clear, ms))

(* The buttons that act at once.                                             *)
DupClicked == DupEnabled(area) /\ Room(1) /\ \E m \in Fresh :
  Becomes(AddNew(Check(area, area.selType = "Send" /\ area.clicked # NoMsg), m))
DeleteClicked == DeleteEnabled(area) /\ Becomes(Delete(area))
ClearClicked == ClearEnabled(area) /\ Becomes(Clear(area))
TopClicked == UpEnabled(area) /\ Becomes(MoveUp(area, 1))
UpClicked == UpEnabled(area) /\ Becomes(MoveUp(area, area.current - 1))
DownClicked == DownEnabled(area) /\ Becomes(MoveDown(area, area.current + 1))
BottomClicked == DownEnabled(area) /\ Becomes(MoveDown(area, Len(area.rows)))

(* sendStartClicked(), sendStartAllClicked(): the list hands over what it has *)
(* to send; a sender that has nothing to wait for is done within the call.    *)
Start(state, ms, condition) ==
  \/ /\ area' = Check(RefreshBar([area EXCEPT !.state = state]), condition)
     /\ sending' = ms /\ UNCHANGED protocol
  \/ Becomes(Check(RefreshBar(area), condition))

StartClicked ==
  /\ StartEnabled(area)
  /\ Start("SendingSingle",
           IF area.current > 0 THEN <<area.rows[area.current]>> ELSE <<>>, area.current > 0)

StartAllClicked == StartAllEnabled(area) /\ Start("SendingAll", area.rows, area.rows # <<>>)

(* sendStopClicked(), also when the sender reports that it is done.            *)
StopClicked ==
  /\ area.state # "Idle"
  /\ area' = RefreshBar([area EXCEPT !.state = "Idle"]) /\ sending' = <<>>
  /\ UNCHANGED protocol

(* Clicks on the rows.  Another row becomes the current one first; when the   *)
(* button is held for longer than a quarter of a second the end of the click  *)
(* is a click of its own.                                                   *)
ClickRow(i) ==
  LET clicked == SendMsgClicked([area EXCEPT !.current = i], area.rows[i], i)
  IN  \/ Becomes(clicked)
      \/ i # area.current /\ Becomes(SendMsgClicked(clicked, area.rows[i], i))

DoubleClickRow(i) ==
  /\ area.state = "Idle"
  /\ LET m == area.rows[i]
         b == IF m = area.clicked THEN area ELSE SendMsgClicked([area EXCEPT !.current = i], m, i)
         c == Check(b, b.clicked = m)
     IN  Becomes(c) \/ \E n \in Fresh : Becomes(Update(c, n))

(* The receive area, as far as it shares the selection: a click, the copy of  *)
(* a received message, the list cleared.                                    *)
ClickReceived(m) == Becomes(RecvMsgClicked(area, m))

DupReceived ==
  /\ area.recvSel # NoMsg /\ Room(1)
  /\ \E m \in Fresh : Becomes(AddNew(Check(area, area.selType = "Recv"), m))

ClearReceived(a) ==
  [(IF a.selType # "Send" THEN ClearDisplayed(a) ELSE a) EXCEPT !.recvSel = NoMsg]

(* applyNewPlugins(): the list goes with the protocol; the sender is not      *)
(* stopped.                                                                 *)
ApplyNewPlugins(p) ==
  LET a == IF area.count > 0 /\ p # protocol THEN Clear(area) ELSE area
      b == IF area.active THEN ClearReceived(a) ELSE a
      c == RefreshBar([b EXCEPT !.active = FALSE])
  IN  /\ area' = RefreshBar([c EXCEPT !.active = TRUE])
      /\ protocol' = p /\ UNCHANGED sending

ToolBarClicked ==
  \/ StartClicked \/ StartAllClicked \/ LoadDialog \/ NewDialog \/ RawDialog \/ EditDialog \/ CommentDialog
  \/ DupClicked \/ DeleteClicked \/ ClearClicked \/ TopClicked \/ UpClicked \/ DownClicked \/ BottomClicked

Next ==
  \/ ToolBarClicked \/ StopClicked \/ DupReceived
  \/ \E i \in DOMAIN area.rows : ClickRow(i) \/ DoubleClickRow(i)
  \/ \E m \in Received : ClickReceived(m)
  \/ area.active /\ Becomes(ClearReceived(area))
  \/ \E p \in Protocols : ApplyNewPlugins(p)

Spec == Init /\ [][Next]_vars

-----------------------------------------------------------------------------
(* None of the assertions of the manager, the list and the tool bar fails.    *)
NoAssertionFails == area.ok

(* The message that is displayed as one to send is in the current row, which  *)
(* is the row the tool bar acts on; without one the tool bar acts on none.    *)
SelectedIsCurrent ==
  IF area.selType = "Send"
  THEN /\ area.current # 0 /\ area.selIdx = area.current
       /\ area.rows[area.current] = area.clicked /\ area.recvSel = NoMsg
  ELSE area.selIdx = 0 /\ area.recvSel = area.clicked

(* The manager, the tool bar and the list agree on the number of messages,    *)
(* and these are of the protocol that is in use.                             *)
ListsAgree ==
  /\ area.count = Len(area.rows) /\ area.total = Len(area.rows)
  /\ \A i \in DOMAIN area.rows : area.rows[i][1] = protocol

(* A message keeps the selection while it is moved, and while others are      *)
(* loaded after it.                                                         *)
KeepsSelectionStep ==
  \/ TopClicked \/ UpClicked \/ DownClicked \/ BottomClicked
  \/ LoadDialog /\ IsPrefix(area.rows, area'.rows)
  => area'.clicked = area.clicked
KeepsSelection == [][KeepsSelectionStep]_vars
=============================================================================
