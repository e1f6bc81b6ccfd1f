------------------------------ MODULE TextFields ------------------------------
(***************************************************************************)
(* The widgets of strings and of raw data                                    *)
(* (app/cc_view/src/widget/field/StringFieldWidget.cpp,                      *)
(* ArrayListRawDataFieldWidget.cpp).  Their text boxes report every change of *)
(* the text, also when the widget itself sets it, and what a box gives back    *)
(* is not always what it was given.                                         *)
(*                                                                         *)
(* A string is made of letters, returns, which a text box takes for new lines *)
(* and drops here, and zeros, which end a string.  Raw data are shown as two   *)
(* digits for each byte, at first only a part when there are many.            *)
(***************************************************************************)
EXTENDS Integers, Sequences, SequencesExt

CONSTANTS
  MaxSize,      (* the greatest number of letters or bytes of the field       *)
  TruncateLength, (* the bytes shown of longer raw data                      *)
  MaxChanges    (* bound: changes                                          *)

VARIABLES
  kind,         (* "string", "raw", or "fixed": raw data of MaxSize bytes     *)
  value,        (* the value of the field, digits of whole bytes for raw data  *)
  text,         (* the text in the box                                      *)
  bytes,        (* the value shown as bytes                                 *)
  all,          (* m_forcedShowAll                                         *)
  editable,     (* isEditEnabled()                                         *)
  told,         (* history: the value last reported, or first shown          *)
  entered,      (* history: the text entered, or the value set, in the last step *)
  visible,      (* the constructor has shown the value                     *)
  changes       (* bound counter                                           *)

vars == <<kind, value, text, bytes, all, editable, told, entered, visible, changes>>

Letter == "a"
Return == "r"
Zero == "z"
Nothing == <<"nothing">>
Raw == kind # "string"

Over(chars, n) == UNION {[1 .. k -> chars] : k \in 0 .. n}
Without(char, s) ==
  LET rest[n \in 0 .. Len(s)] ==
        IF n = 0 THEN <<>> ELSE IF s[n] = char THEN rest[n - 1] ELSE Append(rest[n - 1], s[n])
  IN  rest[Len(s)]
Prefix(s, n) == SubSeq(s, 1, IF Len(s) < n THEN Len(s) ELSE n)
Pairs(n) == {s \in Over({"0", "1"}, 2 * n) : Len(s) % 2 = 0}

Stored ==
  CASE kind = "string" -> Over({Letter, Return, Zero}, MaxSize)
    [] kind = "raw" -> Pairs(MaxSize)
    [] kind = "fixed" -> {s \in Pairs(MaxSize) : Len(s) = 2 * MaxSize}

(* What QPlainTextEdit gives back.                                           *)
Plain(s) == IF Raw THEN s ELSE Without(Return, s)

-----------------------------------------------------------------------------
(* ToolsStringFieldImpl::setValueImpl() passes the characters up to a zero.    *)
UpToZero(s) ==
  IF Contains(s, Zero) THEN SubSeq(s, 1, (CHOOSE i \in DOMAIN s : s[i] = Zero /\ ~Contains(SubSeq(s, 1, i - 1), Zero)) - 1)
  ELSE s

(* An unfinished byte is left out.                                           *)
WrongWhole(s) == Prefix(s, Len(s) - (Len(s) % 2))

(* ToolsRawDataFieldImpl::setValueImpl(): an unfinished byte gets a zero.      *)
Whole(s) == IF Len(s) % 2 = 0 THEN s ELSE Append(s, "0")

(* No bytes cannot be read back, the data stay what they were.                *)
Set(a, s) ==
  IF ~Raw THEN [a EXCEPT !.value = UpToZero(s)]
  ELSE IF s = <<>> THEN a ELSE [a EXCEPT !.value = Whole(s)]

Truncated(a) == Raw /\ ~a.all /\ Len(a.value) > 2 * TruncateLength
Shown(a) == IF Truncated(a) THEN Prefix(a.value, 2 * TruncateLength) ELSE a.value

(* The limits of what is entered: too much is cut, fixed data are filled.      *)
Fill(s) == IF kind = "fixed" THEN s \o [i \in 1 .. 2 * MaxSize - Len(s) |-> "0"] ELSE s

(* What is shown limits what is entered.                                      *)
WrongLimited(s) == IF Raw THEN Fill(Prefix(s, 2 * TruncateLength)) ELSE Prefix(s, MaxSize)

Limited(s) == IF Raw THEN Fill(Prefix(s, 2 * MaxSize)) ELSE Prefix(s, MaxSize)

(* Digits that miss only the last zero are left to the user.                   *)
Same(shown, s) == shown = s \/ (Raw /\ s = Append(shown, "0"))

-----------------------------------------------------------------------------
(* Setting the text and reporting it call each other, until the box gives back  *)
(* the text it is given: `again` is the refreshing these calls end in.          *)
(*                                                                         *)
(* stringChanged(), valueChanged(): not even asked whether the field can be    *)
(* edited, since the text of one that cannot is changed only by refreshImpl(). *)
(* All of the data are shown from the first change on.                        *)
Changed(again, a) ==
  LET c == again[[Set(a, Limited(a.text)) EXCEPT !.all = TRUE]]
  IN  [c EXCEPT !.told = c.value]

(* The bytes are left when the text is right already.                         *)
WrongRefreshed(again, a) ==
  LET b == [a EXCEPT !.bytes = Shown(a), !.text = Plain(Shown(a))]
  IN  IF Same(a.text, Shown(a)) THEN a ELSE IF a.connected THEN Changed(again, b) ELSE b

(* refreshImpl(): setting another text reports it, once connected.             *)
Refreshed(again, a) ==
  LET b == [a EXCEPT !.bytes = Shown(a)]
      c == [b EXCEPT !.text = Plain(Shown(a))]
  IN  IF Same(a.text, Shown(a)) THEN b ELSE IF a.connected THEN Changed(again, c) ELSE c

Chars == {Letter, Return, Zero, "0", "1"}
States ==
  [value : Seq(Chars), text : Seq(Chars), bytes : Seq(Chars), all : BOOLEAN, told : Seq(Chars), connected : BOOLEAN]

refresh[a \in States] == Refreshed(refresh, a)
Refresh(a) == refresh[a]
TextChanged(a) == Changed(refresh, a)

State == [value |-> value, text |-> text, bytes |-> bytes, all |-> all, told |-> told, connected |-> TRUE]

Becomes(a) ==
  value' = a.value /\ text' = a.text /\ bytes' = a.bytes /\ all' = a.all /\ told' = a.told

-----------------------------------------------------------------------------
Init ==
  /\ kind \in {"string", "raw", "fixed"} /\ value \in Stored /\ told = value
  /\ text = <<>> /\ bytes = <<>> /\ all = FALSE
  /\ editable = FALSE /\ entered = Nothing /\ visible = FALSE /\ changes = 0

(* The constructors show the value.  The one for strings has connected the box  *)
(* before, and sets the field to what the box gives back; nobody has connected  *)
(* to the widget yet, so this is not told to anyone.                          *)
Show ==
  /\ ~visible /\ visible' = TRUE
  /\ LET a == Refresh([State EXCEPT !.connected = ~Raw])
     IN  Becomes([a EXCEPT !.told = told])
  /\ entered' = Nothing /\ UNCHANGED <<kind, editable, changes>>

Counted == changes < MaxChanges /\ changes' = changes + 1

(* editEnabledUpdatedImpl(): what is edited is shown as a whole.               *)
WrongEnabled == State

Enabled == IF Truncated(State) THEN Refresh([State EXCEPT !.all = TRUE]) ELSE [State EXCEPT !.all = Raw]

EnableEdit ==
  /\ visible /\ ~editable /\ editable' = TRUE /\ Becomes(Enabled)
  /\ entered' = Nothing /\ UNCHANGED <<kind, visible, changes>>

ShowAllPressed ==
  /\ visible /\ Truncated(State) /\ Becomes(Refresh([State EXCEPT !.all = TRUE]))
  /\ entered' = Nothing /\ UNCHANGED <<kind, editable, visible, changes>>

(* The user changes the text.                                               *)
Entered == IF Raw THEN Over({"0", "1"}, 2 * MaxSize + 1) ELSE Over({Letter}, MaxSize + 1)

Enter(s) ==
  /\ editable /\ s # text /\ Counted
  /\ Becomes(TextChanged([State EXCEPT !.text = s]))
  /\ entered' = s /\ UNCHANGED <<kind, editable, visible>>

(* The field is changed by an edit of another (doRefresh() of the message).    *)
MessageRefreshed(v) ==
  /\ editable /\ v # value /\ Counted
  /\ Becomes(Refresh([State EXCEPT !.value = v, !.told = v]))
  /\ entered' = v /\ UNCHANGED <<kind, editable, visible>>

Next ==
  \/ Show \/ EnableEdit \/ ShowAllPressed
  \/ \E s \in Entered : Enter(s)
  \/ \E v \in Stored : MessageRefreshed(v)

Spec == Init /\ [][Next]_vars

-----------------------------------------------------------------------------
(* What the box of a value can hold: a string without its returns, up to the    *)
(* first zero; raw data as they are.                                         *)
Held(v) == IF Raw THEN v ELSE UpToZero(Plain(v))

(* What the box and the bytes show is the value, or as much of it as is shown;  *)
(* the last digit may still be missing.                                       *)
TextIsValue == visible => bytes = Shown(State) /\ Same(text, Plain(Shown(State)))

(* What is entered, or set by an edit of another field, becomes the value, cut  *)
(* or filled to what the field can have (raw data are not emptied) and its box  *)
(* can hold, and data that are set are not cut to what is shown of them.       *)
EnteredIsValue ==
  entered # Nothing =>
    LET s == Limited(entered)
    IN  /\ Raw /\ s # <<>> => value = IF Len(s) % 2 = 1 THEN Append(s, "0") ELSE s
        /\ ~Raw => value = Held(s)
        /\ told = value

(* Showing a value, at first, the whole of it, or to be edited, leaves of it    *)
(* what its box can hold: raw data are not cut to what was shown of them, while *)
(* a string loses its returns and what follows a zero, though nobody edited it  *)
(* (StringFieldWidget.cpp:40-44), the first time it is shown and never again.   *)
ShowingKeepsStep ==
  changes' = changes => value' = IF visible THEN value ELSE Held(value)

ShowingKeeps == [][ShowingKeepsStep]_vars

(* What can be edited is shown as a whole.                                    *)
EditedIsWhole == editable => ~Truncated(State)
===============================================================================
