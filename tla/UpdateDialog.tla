----------------------------- MODULE UpdateDialog ----------------------------
(***************************************************************************)
(* The dialog that makes or edits a message of the send list                 *)
(* (app/cc_view/src/widget/MessageUpdateDialog.cpp): the list of message     *)
(* types with its search line, and the widgets for the delay and the         *)
(* repetition, whose signals call back into the dialog while it sets them.   *)
(* An operator on the record dlg is a method of the dialog; a spin box is    *)
(* its minimum and its value.  What is inside a message is another matter.   *)
(***************************************************************************)
EXTENDS Naturals, Sequences, SequencesExt

CONSTANTS
  MessageTypes, (* createAllMessages(): the types, in order                 *)
  Matching,     (* those whose name has the text in the search line         *)
  Typed,        (* what the user types into a spin box                      *)
  MaxEdits      (* bound: changes made to the widgets                       *)

VARIABLES
  dlg,          (* the dialog, see Blank; Closed when there is none         *)
  message,      (* the message of the send list, NoMessage before           *)
  edits         (* bound counter                                           *)

vars == <<dlg, message, edits>>

None == "none"
Units == 1 .. 5      (* milliseconds, seconds, minutes, hours, days           *)
DurationMul == <<1, 1000, 60 * 1000, 60 * 60 * 1000, 24 * 60 * 60 * 1000>>

NoMessage == [type |-> None]

(* A receive list that was loaded into the send list leaves its delays, with *)
(* no units; see MsgFile.                                                    *)
Loaded == [type |-> Head(MessageTypes), delay |-> 15, delayUnits |-> 0,
           repeat |-> 0, repeatUnits |-> 0, count |-> 1, comment |-> TRUE]

Closed == [open |-> FALSE]

Blank ==
  [open |-> TRUE, search |-> FALSE, current |-> None, pane |-> None, buttons |-> FALSE,
   delayOn |-> FALSE, delay |-> [min |-> 0, value |-> 0], delayUnits |-> 1, prevDelay |-> 1,
   repeatOn |-> FALSE, repeat |-> [min |-> 0, value |-> 0], repeatUnits |-> 1, prevRepeat |-> 1,
   count |-> [min |-> 0, value |-> 0], prevCount |-> 2,
   endless |-> FALSE, prevEndless |-> FALSE, connected |-> FALSE]

(* stringToDuration(): names that are not known are milliseconds.            *)
ToUnits(u) == IF u \in Units THEN u ELSE 1

-----------------------------------------------------------------------------
(* delayUpdated(), repeatDurationUpdated() and repeatCountUpdated()           *)
DelayUpdated(d) ==
  IF d.connected /\ d.delayOn THEN [d EXCEPT !.prevDelay = d.delay.value] ELSE d

RepeatUpdated(d) ==
  IF d.connected /\ d.repeatOn THEN [d EXCEPT !.prevRepeat = d.repeat.value] ELSE d

(* It does not look at the box "indefinitely".                               *)
WrongCountUpdated(d) ==
  IF d.connected /\ d.repeatOn THEN [d EXCEPT !.prevCount = d.count.value] ELSE d

CountUpdated(d) ==
  IF d.connected /\ d.repeatOn /\ ~d.endless THEN [d EXCEPT !.prevCount = d.count.value] ELSE d

AtLeast(min, value) == IF value < min THEN min ELSE value

(* QSpinBox::setValue() and setMinimum(): the slot of the box runs when its   *)
(* value has changed.                                                       *)
Slot(d, box) ==
  CASE box = "delay" -> DelayUpdated(d)
    [] box = "repeat" -> RepeatUpdated(d)
    [] box = "count" -> CountUpdated(d)

SetSpin(d, box, spin) ==
  IF d[box].value = spin.value THEN [d EXCEPT ![box] = spin] ELSE Slot([d EXCEPT ![box] = spin], box)

SetValue(d, box, value) == SetSpin(d, box, [d[box] EXCEPT !.value = AtLeast(d[box].min, value)])
SetMinimum(d, box, min) == SetSpin(d, box, [min |-> min, value |-> AtLeast(min, d[box].value)])

(* Switched off, the value goes to zero without being remembered.             *)
RefreshDelayInfo(d) ==
  IF ~d.delayOn THEN SetValue(SetMinimum(d, "delay", 0), "delay", 0)
  ELSE SetMinimum(SetValue(d, "delay", d.prevDelay), "delay", 1)

(* The number of repetitions stays as it is.                                  *)
WrongRepeatOff(d) ==
  LET b == SetValue(SetMinimum(d, "repeat", 0), "repeat", 0)
  IN  [b EXCEPT !.endless = FALSE]

RepeatOff(d) ==
  LET b == SetValue(SetMinimum(d, "repeat", 0), "repeat", 0)
      c == SetValue(SetMinimum(b, "count", 1), "count", 1)
  IN  [c EXCEPT !.endless = FALSE]

(* The last part of refreshRepeatInfo(): the number of repetitions.          *)
RefreshCount(d) ==
  IF d.prevEndless
  THEN SetValue(SetMinimum(d, "count", 0), "count", 0)
  ELSE SetMinimum(SetValue(d, "count", d.prevCount), "count", 2)

RepeatShown(d) ==
  SetMinimum(SetValue(d, "repeat", d.prevRepeat), "repeat", 1)

(* Setting the box "indefinitely" runs indefinitelyUpdated(), which refreshes *)
(* everything once more inside.                                             *)
RepeatOnAgain(d) ==
  LET b == RepeatShown(d)
      c == [b EXCEPT !.endless = b.prevEndless]
      nested == d.connected /\ b.endless # b.prevEndless
  IN  RefreshCount(IF nested THEN RefreshCount(RepeatShown(c)) ELSE c)

RefreshRepeatInfo(d) == IF d.repeatOn THEN RepeatOnAgain(d) ELSE RepeatOff(d)

(* indefinitelyUpdated()                                                     *)
IndefinitelyUpdated(d) ==
  IF d.repeatOn THEN RefreshRepeatInfo([d EXCEPT !.prevEndless = d.endless]) ELSE d

-----------------------------------------------------------------------------
Listed(d) == {t \in ToSet(MessageTypes) : d.search => t \in Matching}

RefreshButtons(d) == [d EXCEPT !.buttons = d.current # None]

(* newItemSelected()                                                         *)
Select(d, t) == RefreshButtons([d EXCEPT !.current = t, !.pane = t])

(* The pane keeps a message that is no longer listed.                        *)
WrongRefreshDisplayedList(d) ==
  RefreshButtons([d EXCEPT !.current = IF @ \in Listed(d) THEN @ ELSE None])

RefreshDisplayedList(d) ==
  LET b == RefreshButtons([d EXCEPT !.current = IF @ \in Listed(d) THEN @ ELSE None])
  IN  IF b.current = None THEN [b EXCEPT !.pane = None] ELSE b

(* What the constructor reads from the message.                              *)
Reads(d, m) ==
  LET du == ToUnits(m.delayUnits)
      ru == ToUnits(m.repeatUnits)
      delay == m.delay \div DurationMul[du]
      repeat == m.repeat \div DurationMul[ru]
      b == IF delay = 0 THEN d
           ELSE [d EXCEPT !.prevDelay = delay, !.delayUnits = du, !.delayOn = TRUE]
      c == IF repeat = 0 THEN b
           ELSE [b EXCEPT !.prevRepeat = repeat, !.repeatUnits = ru, !.repeatOn = TRUE]
  IN  IF m.count # 0 THEN [c EXCEPT !.prevCount = m.count] ELSE [c EXCEPT !.prevEndless = TRUE]

(* The constructor; the slots are connected at its end.                      *)
Opened(m) ==
  LET d == IF m = NoMessage THEN Blank
           ELSE Reads([Blank EXCEPT !.current = m.type, !.pane = m.type], m)
  IN  [RefreshButtons(RefreshRepeatInfo(RefreshDelayInfo(d))) EXCEPT !.connected = TRUE]

(* The units of the repetition are forgotten.                                *)
WrongAccepted(d) ==
  [type |-> d.current,
   delay |-> DurationMul[d.delayUnits] * d.delay.value, delayUnits |-> d.delayUnits,
   repeat |-> d.repeat.value, repeatUnits |-> d.repeatUnits,
   count |-> d.count.value, comment |-> FALSE]

(* accept(): the message is one of createAllMessages(), the comment of the    *)
(* one that was edited is not taken over.                                   *)
Accepted(d) ==
  [type |-> d.current,
   delay |-> DurationMul[d.delayUnits] * d.delay.value, delayUnits |-> d.delayUnits,
   repeat |-> DurationMul[d.repeatUnits] * d.repeat.value, repeatUnits |-> d.repeatUnits,
   count |-> d.count.value, comment |-> FALSE]

-----------------------------------------------------------------------------
Init == dlg = Closed /\ message \in {NoMessage, Loaded} /\ edits = 0

(* newSendMsgDialog(), updateSendMsgDialog()                                  *)
Open ==
  /\ ~dlg.open /\ dlg' = Opened(message)
  /\ UNCHANGED <<message, edits>>

Becomes(d) == dlg' = d /\ UNCHANGED message
Counted == edits < MaxEdits /\ edits' = edits + 1

SelectType(t) == dlg.open /\ t \in Listed(dlg) /\ Becomes(Select(dlg, t)) /\ UNCHANGED edits

Search ==
  /\ dlg.open /\ Becomes(RefreshDisplayedList([dlg EXCEPT !.search = ~@]))
  /\ UNCHANGED edits

DelayCheck == dlg.open /\ Counted /\ Becomes(RefreshDelayInfo([dlg EXCEPT !.delayOn = ~@]))

RepeatCheck == dlg.open /\ Counted /\ Becomes(RefreshRepeatInfo([dlg EXCEPT !.repeatOn = ~@]))

EndlessCheck ==
  /\ dlg.open /\ dlg.repeatOn /\ Counted
  /\ Becomes(IndefinitelyUpdated([dlg EXCEPT !.endless = ~@]))

TypeDelay(n) == dlg.open /\ dlg.delayOn /\ Counted /\ Becomes(SetValue(dlg, "delay", n))

TypeRepeat(n) ==
  /\ dlg.open /\ dlg.repeatOn /\ Counted
  /\ Becomes(SetValue(dlg, "repeat", n))

TypeCount(n) ==
  /\ dlg.open /\ dlg.repeatOn /\ ~dlg.endless /\ Counted
  /\ Becomes(SetValue(dlg, "count", n))

ChooseUnits(u) ==
  /\ dlg.open /\ Counted
  /\ \/ dlg.delayOn /\ Becomes([dlg EXCEPT !.delayUnits = u])
     \/ dlg.repeatOn /\ Becomes([dlg EXCEPT !.repeatUnits = u])

Accept ==
  /\ dlg.open /\ dlg.buttons
  /\ message' = Accepted(dlg) /\ dlg' = Closed
  /\ UNCHANGED edits

Reject == dlg.open /\ dlg' = Closed /\ UNCHANGED <<message, edits>>

Next ==
  \/ Open \/ Search \/ DelayCheck \/ RepeatCheck \/ EndlessCheck \/ Accept \/ Reject
  \/ \E t \in ToSet(MessageTypes) : SelectType(t)
  \/ \E n \in Typed : TypeDelay(n) \/ TypeRepeat(n) \/ TypeCount(n)
  \/ \E u \in {1, 2, 5} : ChooseUnits(u)

Spec == Init /\ [][Next]_vars

-----------------------------------------------------------------------------
(* The pane and the buttons follow the current type, whatever is searched     *)
(* for: OK and Reset, which read the current item, find one.                 *)
PaneIsCurrent ==
  dlg.open =>
    /\ dlg.pane = dlg.current /\ dlg.buttons = (dlg.current # None)
    /\ dlg.current \in Listed(dlg) \cup {None}

(* What the widgets show while they are on is remembered, and switching them   *)
(* off and on does not change it: no signal of a widget that is being set      *)
(* overwrites it.                                                           *)
Remembered(d) ==
  /\ d.delayOn => d.prevDelay = d.delay.value
  /\ d.repeatOn => d.prevRepeat = d.repeat.value /\ d.prevEndless = d.endless
  /\ d.repeatOn /\ ~d.endless => d.prevCount = d.count.value

NothingForgottenStep ==
  /\ dlg'.open => Remembered(dlg')
  /\ DelayCheck \/ RepeatCheck \/ EndlessCheck =>
       /\ dlg'.prevDelay = dlg.prevDelay /\ dlg'.prevRepeat = dlg.prevRepeat
       /\ AtLeast(2, dlg'.prevCount) = AtLeast(2, dlg.prevCount)
NothingForgotten == [][NothingForgottenStep]_vars

(* What is accepted comes back when the message is edited again: the times    *)
(* survive their conversion, the boxes are inferred right from zeroes.        *)
AcceptedComesBack ==
  dlg.open /\ dlg.buttons =>
    LET e == Opened(Accepted(dlg))
    IN  /\ e.delayOn = dlg.delayOn /\ e.delay = dlg.delay
        /\ e.repeatOn = dlg.repeatOn /\ e.repeat = dlg.repeat
        /\ e.endless = dlg.endless /\ e.count = dlg.count
        /\ dlg.delayOn => e.delayUnits = dlg.delayUnits
        /\ dlg.repeatOn => e.repeatUnits = dlg.repeatUnits

(* A message that is repeated has a period, and one that is not is sent once: *)
(* the paced sender is never given an endless repetition without a period.    *)
AcceptedCanBeSent ==
  message # NoMessage =>
    IF message.repeat = 0 THEN message.count = 1 ELSE message.count # 1
=============================================================================
