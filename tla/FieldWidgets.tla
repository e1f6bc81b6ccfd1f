----------------------------- MODULE FieldWidgets -----------------------------
(***************************************************************************)
(* The widgets that show and edit a field with a value                       *)
(* (app/cc_view/src/widget/field/): a line with its bytes, a spin box, line,  *)
(* list or check boxes with the value, and a list of special values.  Any of  *)
(* them changes the field and refreshes the others, which call back while     *)
(* they are being set; then the change is reported, so that the message is    *)
(* encoded and shown again.                                                  *)
(*                                                                         *)
(* Values are natural numbers; those up to MaxSer fit into the bytes of the   *)
(* field, its type goes up to MaxType.  The value of a bitmask has two bits.  *)
(***************************************************************************)
EXTENDS Integers

CONSTANTS
  MaxSer,       (* the greatest value the bytes can have                    *)
  MaxType,      (* the greatest value of the type                           *)
  Specials,     (* the values that have names                               *)
  Listed,       (* the values of an enum                                    *)
  MaxChanges    (* bound: changes                                          *)

VARIABLES
  kind,         (* which of the widgets it is                               *)
  how,          (* options of the field: offset of what is displayed, step of *)
                (* its decimals, whether values not in the list are invalid  *)
  editable,     (* isEditEnabled()                                         *)
  w,            (* the field and what the parts of the widget show           *)
  typed,        (* history: the bytes typed in the last step                 *)
  silent,       (* history: the field was changed by its being shown, or by   *)
                (* choosing a special value                                *)
  changes       (* bound counter                                           *)

vars == <<kind, how, editable, w, typed, silent, changes>>

Untyped == -1
NotSpecial == -1                  (* the first item of the special values     *)
Unknown == -1                     (* the first item of an enum: ???           *)
Nan == MaxType + 1
Inf == MaxType + 2
MinusInf == MaxType + 3
NotNumbers == {Nan, Inf, MinusInf}

SpinKinds == {"short", "long", "scaled", "float"}
Kinds == SpinKinds \cup {"longlong", "ulonglong", "enum", "bitmask"}
Bytes == 0 .. MaxSer \cup IF kind = "float" THEN NotNumbers ELSE {}

Check(a, cond) == [a EXCEPT !.ok = @ /\ cond]

-----------------------------------------------------------------------------
(* Fields: the display value wraps like the type it has.                      *)
Display(v) == IF v \in NotNumbers THEN v ELSE v + how.offset
FromDisplay(d) == IF d \in NotNumbers THEN d ELSE (d + MaxType + 1 - how.offset) % (MaxType + 1)
CanWrite(v) == v <= MaxSer \/ (kind = "float" /\ v \in NotNumbers)
Default == 0

(* One more than the greatest value of the list.                               *)
InvalidValue == CHOOSE v \in 1 .. MaxSer : v - 1 \in Listed /\ \A l \in Listed : l < v
Valid(v) == kind = "enum" /\ how.validated => v \in Listed

-----------------------------------------------------------------------------
(* What a box makes of a value: a spin box has a range and decimals; a line of *)
(* a 64 bit number without sign shows it as a double.                         *)
Bounded(d) == IF kind \in {"short", "long"} /\ d > MaxType THEN MaxType ELSE d
Fit(d) == IF kind \in {"scaled", "float", "ulonglong"} THEN d - (d % how.step) ELSE Bounded(d)

(* The value behind the text of a line: none is 0.                            *)
Parsed(text) == IF text = Untyped THEN 0 ELSE text

SpecialOf(v) == IF v \in Specials THEN v ELSE NotSpecial

(* Only values with a name are found.                                        *)
ItemOf(v) == IF v \in Listed THEN v ELSE Unknown

(* The first item of the list stands for a value that is not listed.          *)
ValueOf(item) == IF item = Unknown THEN InvalidValue ELSE item

Emit(a) == [a EXCEPT !.told = a.field]

(* What cannot be written is kept.                                           *)
WrongResetUnlessWritable(a) == a

ResetUnlessWritable(a) == IF CanWrite(a.field) THEN a ELSE [a EXCEPT !.field = Default]

-----------------------------------------------------------------------------
(* valueUpdated(), checkBoxUpdated(): what a change of the box does.  Changing   *)
(* the field refreshes the widget, and that sets the box, which reports it      *)
(* from within the call: `again` is the refreshing these calls end in.          *)
Take(again, a, v) ==
  Emit(again[ResetUnlessWritable([Check(a, editable \/ a.making) EXCEPT !.field = v])])

SpinUpdated(again, a, d) == IF d = Display(a.field) THEN a ELSE Take(again, a, FromDisplay(d))

(* The old value comes back when the new one cannot be written.               *)
LineUpdated(again, a, text) ==
  LET d == Fit(Parsed(text))
      v == IF kind = "ulonglong" /\ ~CanWrite(FromDisplay(d)) THEN a.field ELSE FromDisplay(d)
  IN  IF d = Display(a.field) THEN a ELSE Take(again, a, v)

(* The value is set whether the field can be edited or not.                    *)
WrongItemUpdated(again, a, item) ==
  IF ~Valid(a.field) /\ item = Unknown THEN a
  ELSE IF ValueOf(item) = a.field THEN a
  ELSE again[Emit(ResetUnlessWritable([a EXCEPT !.field = ValueOf(item)]))]

ItemUpdated(again, a, item) ==
  IF ~Valid(a.field) /\ item = Unknown THEN a
  ELSE IF ~editable THEN again[a]
  ELSE IF ValueOf(item) = a.field THEN a
  ELSE again[Emit(ResetUnlessWritable([a EXCEPT !.field = ValueOf(item)]))]

(* What was changed is not reported.                                         *)
WrongChecksUpdated(again, a, v) ==
  IF editable THEN again[ResetUnlessWritable([a EXCEPT !.field = v])] ELSE again[a]

ChecksUpdated(again, a, v) ==
  IF editable THEN Emit(again[ResetUnlessWritable([a EXCEPT !.field = v])]) ELSE again[a]

Updated(again, a, b) ==
  CASE kind \in SpinKinds -> SpinUpdated(again, a, b)
    [] kind = "enum" -> ItemUpdated(again, a, b)
    [] kind = "bitmask" -> ChecksUpdated(again, a, b)
    [] OTHER -> LineUpdated(again, a, b)

-----------------------------------------------------------------------------
(* refreshImpl() of the widgets, in parts.  The box of a bitmask is its value. *)
SetSpin(again, a, d) ==
  LET b == [a EXCEPT !.box = Fit(d)]
  IN  IF b.box # a.box /\ b.connected THEN Updated(again, b, b.box) ELSE b

SetItem(again, a) ==
  LET b == [a EXCEPT !.box = ItemOf(a.field)]
  IN  IF (~Valid(a.field) /\ a.box = Unknown) \/ a.field = ValueOf(a.box) THEN a
      ELSE IF b.connected /\ b.box # a.box THEN Updated(again, b, b.box) ELSE b

(* A check box that is set reports, from within the call.                     *)
SetChecks(again, a) ==
  IF a.box = a.field THEN a ELSE Updated(again, [a EXCEPT !.box = a.field], a.field)

(* The text of a number is kept while it means the same.                      *)
SetText(a) ==
  IF kind = "longlong"
  THEN IF Parsed(a.box) = Display(a.field) THEN a ELSE [a EXCEPT !.box = Display(a.field)]
  ELSE [a EXCEPT !.box = Fit(Display(a.field))]

(* What is not a number leaves the spin box of a float, which is hidden then.   *)
SetFloat(again, a) ==
  IF a.field \in NotNumbers THEN a
  ELSE LET b == SetSpin(again, a, a.field) IN [b EXCEPT !.old = b.field]

SetBox(again, a) ==
  CASE kind \in {"short", "long", "scaled"} -> SetSpin(again, a, Display(a.field))
    [] kind = "float" -> SetFloat(again, a)
    [] kind = "enum" -> SetItem(again, a)
    [] kind = "bitmask" -> SetChecks(again, a)
    [] OTHER -> SetText(a)

(* The special value is looked up before the box is set.                      *)
WrongRefreshed(again, a) ==
  [SetBox(again, [a EXCEPT !.line = a.field]) EXCEPT !.special = SpecialOf(a.field)]

Refreshed(again, a) ==
  LET b == SetBox(again, [Check(a, CanWrite(a.field)) EXCEPT !.line = a.field])
  IN  [b EXCEPT !.special = SpecialOf(b.field)]

Values == 0 .. MaxType \cup IF kind = "float" THEN NotNumbers ELSE {}
States ==
  [field : Values, line : Int, box : Int, special : Int, old : Int, told : Int,
   connected : BOOLEAN, making : BOOLEAN, ok : BOOLEAN]

refresh[a \in States] == Refreshed(refresh, a)
Refresh(a) == refresh[a]
BoxUpdated(a, b) == Updated(refresh, a, b)

-----------------------------------------------------------------------------
(* The constructors: ints connect their spin box before they show the value,   *)
(* the others after it, and editing is enabled until the message says not.    *)
ConnectedFirst == kind \in {"short", "long", "bitmask"}

Made(v) ==
  LET a == [field |-> v, line |-> v, box |-> IF kind = "enum" THEN Unknown ELSE 0, special |-> NotSpecial, old |-> 0,
            told |-> v, connected |-> ConnectedFirst, making |-> TRUE, ok |-> TRUE]
  IN  [Refresh(a) EXCEPT !.connected = TRUE, !.making = FALSE, !.told = v]

Options ==
  [offset : IF kind \in {"short", "long", "longlong"} THEN {0, 1, 2} ELSE {0},
   step : IF kind \in {"scaled", "float", "ulonglong"} THEN {1, 2} ELSE {1},
   validated : IF kind = "enum" THEN BOOLEAN ELSE {TRUE}]

Init ==
  /\ kind \in Kinds /\ how \in Options
  /\ editable = TRUE /\ \E v \in Bytes : w = Made(v)
  /\ typed = Untyped /\ silent = (w.field # w.told) /\ changes = 0

Counted == changes < MaxChanges /\ changes' = changes + 1
Unchanged == UNCHANGED <<kind, how>>

(* setEditEnabled(): a received message cannot be edited.                     *)
SetEditEnabled ==
  /\ Counted /\ editable' = ~editable /\ typed' = Untyped
  /\ Unchanged /\ UNCHANGED <<w, silent>>

(* The user changes the box.  Spin boxes and lines are read only when the     *)
(* field cannot be edited, lists and check boxes are not.                     *)
ReadOnly == ~editable /\ kind \notin {"enum", "bitmask"}

BoxValues ==
  CASE kind = "enum" -> Listed \cup {Unknown}
    [] kind = "bitmask" -> 0 .. MaxSer
    [] kind \in {"longlong", "ulonglong"} -> 0 .. MaxType \cup {Untyped}
    [] kind = "float" -> {d \in 0 .. MaxSer : Fit(d) = d}
    [] OTHER -> {d \in 0 .. MaxType : Fit(d) = d}

EditBox(b) ==
  /\ ~ReadOnly /\ b # w.box /\ b \in BoxValues /\ Counted
  /\ kind = "float" => w.field \notin NotNumbers
  /\ w' = BoxUpdated([w EXCEPT !.box = b], b)
  /\ typed' = Untyped /\ Unchanged /\ UNCHANGED <<editable, silent>>

(* handleNumericSerialisedValueUpdate(); the spin box of a scaled value does   *)
(* not report meanwhile.                                                     *)
WrongEditedBytes(v) == Emit(Refresh([w EXCEPT !.field = v]))

EditedBytes(v) ==
  Emit([Refresh([w EXCEPT !.field = v, !.connected = (kind # "scaled")]) EXCEPT !.connected = TRUE])

EditBytes(v) ==
  /\ editable /\ v # w.line /\ Counted
  /\ w' = EditedBytes(v)
  /\ typed' = v /\ Unchanged /\ UNCHANGED <<editable, silent>>

(* specialSelected(): the widget of floats sets its spin box, which reports it. *)
FloatSpecial(v) == SpinUpdated(refresh, w, v)

(* The others set the field and report nothing; one takes the special value for *)
(* what is displayed.                                                        *)
LongSpecial(v) == Refresh([w EXCEPT !.field = FromDisplay(v)])
IntSpecial(v) == Refresh([w EXCEPT !.field = v])

SpecialTaken(v) ==
  CASE kind = "float" -> FloatSpecial(v)
    [] kind = "long" -> LongSpecial(v)
    [] OTHER -> IntSpecial(v)

ChooseSpecial(v) ==
  /\ kind \notin {"enum", "bitmask"} /\ v # w.special /\ Counted
  /\ w' = LET a == [w EXCEPT !.special = v]
          IN  IF v = NotSpecial \/ ~editable THEN Refresh(a) ELSE SpecialTaken(v)
  /\ silent' = (silent \/ w'.told # w'.field)
  /\ typed' = Untyped /\ Unchanged /\ UNCHANGED editable

(* typeUpdated(): back to a number is back to the last one.                   *)
TypeTaken(v) == IF v = 0 THEN [w EXCEPT !.field = w.old] ELSE [w EXCEPT !.field = v]

ChooseType(v) ==
  /\ kind = "float" /\ Counted
  /\ IF v = 0 THEN w.field \in NotNumbers ELSE w.field # v
  /\ w' = IF editable THEN Emit(Refresh(TypeTaken(v))) ELSE Refresh(w)
  /\ typed' = Untyped /\ Unchanged /\ UNCHANGED <<editable, silent>>

(* The field is changed by an edit of another (doRefresh() of the message).    *)
MessageRefreshed(v) ==
  /\ editable /\ v # w.field /\ Counted
  /\ w' = Refresh([w EXCEPT !.field = v, !.told = v])
  /\ typed' = Untyped /\ silent' = (w'.told # w'.field) /\ Unchanged /\ UNCHANGED editable

Next ==
  \/ SetEditEnabled
  \/ \E b \in 0 .. MaxType \cup {Unknown} : EditBox(b)
  \/ \E v \in Bytes : EditBytes(v) \/ MessageRefreshed(v)
  \/ \E v \in Specials \cup {NotSpecial} : ChooseSpecial(v)
  \/ \E v \in NotNumbers \cup {0} : ChooseType(v)

Spec == Init /\ [][Next]_vars

-----------------------------------------------------------------------------
(* All parts of the widget show the value of the field, as well as they can,   *)
(* in whatever order they set each other.                                    *)
ShownIsField ==
  /\ w.line = w.field /\ w.special = SpecialOf(w.field)
  /\ CASE kind = "enum" -> w.box = ItemOf(w.field)
       [] kind = "bitmask" -> w.box = w.field
       [] kind \in {"longlong", "ulonglong"} -> Fit(Parsed(w.box)) = Fit(Display(w.field))
       [] w.field \in NotNumbers -> TRUE
       [] OTHER -> w.box = Fit(Display(w.field))

(* What was changed was reported, so that the message shows and sends it,      *)
(* unless a special value was chosen or the showing itself made the change.    *)
ChangesAreReported == w.told = w.field \/ silent

(* Bytes that were typed stay, when the box can show what they mean.           *)
TypedBytesStay ==
  LET showable == CASE kind = "enum" -> Valid(typed) => typed \in Listed
                    [] kind = "float" -> typed \in NotNumbers \/ Fit(typed) = typed
                    [] kind \in {"short", "long"} -> Fit(Display(typed)) = Display(typed)
                    [] OTHER -> TRUE
  IN  typed # Untyped /\ showable => w.field = typed

(* No box reports a change of a field that cannot be edited, and no value is   *)
(* shown that cannot be written (but for special values of 32 bit numbers      *)
(* without sign and with an offset, which are taken for what is displayed).    *)
NoAssertionFails == w.ok \/ (kind = "long" /\ how.offset > 0)

(* A field that cannot be edited keeps its value, whichever lists and boxes    *)
(* the user tries.                                                          *)
ReadOnlyStaysStep == ~editable => w'.field = w.field

ReadOnlyStays == [][ReadOnlyStaysStep]_vars
===============================================================================
