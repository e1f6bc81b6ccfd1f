----------------------------- MODULE MemberFields -----------------------------
(***************************************************************************)
(* The widgets of fields that are made of others                             *)
(* (app/cc_view/src/widget/field/ArrayListFieldWidget.cpp,                   *)
(* VariantFieldWidget.cpp, OptionalFieldWidget.cpp, BitfieldFieldWidget.cpp,  *)
(* BundleFieldWidget.cpp).  A widget keeps a copy of the field's description   *)
(* that refers to the same storage, and widgets for the members, which report  *)
(* their changes to it.                                                      *)
(*                                                                         *)
(* A member is a number up to MaxMember, which can always be written: its own   *)
(* widget sees to that.  In a list it takes one byte more than the number, and  *)
(* the length of the list, at most MaxBytes, goes before it.                  *)
(***************************************************************************)
EXTENDS Integers, Sequences, SequencesExt

CONSTANTS
  MaxMember,    (* the greatest member                                      *)
  MaxBytes,     (* the greatest length of a list                            *)
  Named,        (* the members of a variant that have names, from 0          *)
  MaxChanges    (* bound: changes                                          *)

VARIABLES
  kind,         (* which of the widgets it is; "listed" is a variant that is  *)
                (* an element of a list                                      *)
  editable,     (* isEditEnabled()                                         *)
  w,            (* the field and what the parts of the widget show           *)
  full,         (* history: an element was added to a list that had no room   *)
  changes       (* bound counter                                           *)

vars == <<kind, editable, w, full, changes>>

Kinds == {"list", "fixed", "variant", "listed", "optional", "bitfield", "bundle"}
Lists == {"list", "fixed"}
Variants == {"variant", "listed"}
FixedSize == 2
LastIndex == 2
NoIndex == -1
Unknown == -1                     (* the item ??? of a variant's members       *)
Missing == 0
Tentative == 1
Exists == 2
Default == 0
Members == 0 .. MaxMember

Check(a, cond) == [a EXCEPT !.ok = @ /\ cond]
Value(a) == <<a.index, a.field>>

-----------------------------------------------------------------------------
(* Fields.                                                                   *)
Length(field) ==
  LET sum[n \in 0 .. Len(field)] == IF n = 0 THEN 0 ELSE sum[n - 1] + 1 + field[n]
  IN  sum[Len(field)]
CanWrite(a) == kind = "list" => Length(a.field) <= MaxBytes

Emit(a) == [a EXCEPT !.told = Value(a)]

(* updateCurrent() asks the creator of the field for the member; a field that  *)
(* was copied as a member of another one does not have it.                     *)
UpdateCurrent(a) == [Check(a, a.creates) EXCEPT !.field = <<Default>>, !.parts = <<Default>>]

Storage ==
  CASE kind = "list" -> {s \in UNION {[1 .. n -> Members] : n \in 0 .. MaxBytes} : Length(s) <= MaxBytes}
    [] kind = "fixed" -> [1 .. FixedSize -> Members]
    [] kind \in {"bitfield", "bundle"} -> [1 .. 2 -> Members]
    [] OTHER -> [1 .. 1 -> Members]

Indexes ==
  CASE kind \in Variants -> NoIndex .. LastIndex
    [] kind = "optional" -> {Missing, Tentative, Exists}
    [] OTHER -> {0}

-----------------------------------------------------------------------------
(* What the widgets show.                                                    *)
ItemOf(index) == IF index \in Named THEN index ELSE Unknown

(* refreshInternal(): bundles and optional fields show no bytes.               *)
RefreshInternal(a) ==
  [Check(a, CanWrite(a)) EXCEPT
     !.bytes = IF kind \in {"bundle", "optional"} THEN @ ELSE Value(a),
     !.checked = (a.index = Exists)]

(* A list keeps the widgets of the elements it had.                            *)
WrongRefreshMembers(a) ==
  IF kind \in Lists
  THEN LET n == IF Len(a.parts) < Len(a.field) THEN Len(a.parts) ELSE Len(a.field)
       IN  [a EXCEPT !.parts = SubSeq(a.parts, 1, n) \o SubSeq(a.field, n + 1, Len(a.field))]
  ELSE [a EXCEPT !.parts = a.field]

(* The widget of a list deletes those of its elements and makes new ones.       *)
RefreshMembers(a) == [a EXCEPT !.parts = a.field]

(* refreshImpl(): the index of a variant and its list of names are not touched. *)
Refresh(a) == RefreshMembers(RefreshInternal(a))

(* The constructors, and the calls that give them the widgets of their members. *)
Made(a) ==
  LET b == Refresh([a EXCEPT !.spin = a.index, !.item = ItemOf(a.index),
                             !.index = IF kind = "optional" /\ @ = Tentative THEN Missing ELSE @])
  IN  [b EXCEPT !.told = Value(b)]

(* What a message has is shown; the creator is lost in the copy of a list.      *)
Start(field, index) ==
  Made([field |-> field, index |-> index, creates |-> kind # "listed", parts |-> <<>>, spin |-> 0, item |-> Unknown,
        bytes |-> <<>>, checked |-> FALSE, told |-> <<>>, ok |-> TRUE])

Init ==
  /\ kind \in Kinds
  /\ \E s \in Storage, i \in Indexes :
       w = Start(IF kind \in Variants /\ i = NoIndex THEN <<>> ELSE s, i)
  /\ editable = TRUE /\ full = FALSE /\ changes = 0

Counted == w.ok /\ changes < MaxChanges /\ changes' = changes + 1

-----------------------------------------------------------------------------
(* A member reported that it was changed.  An element that makes the list too   *)
(* long is reset.                                                            *)
WrongMemberUpdated(a, i) == Emit(RefreshInternal(a))

MemberUpdated(a, i) ==
  LET b == IF CanWrite(a) THEN a ELSE [a EXCEPT !.field[i] = Default, !.parts[i] = Default]
  IN  Emit(RefreshInternal(b))

(* Enabling or disabling reaches the members and the buttons.                  *)
SetEditEnabled == Counted /\ editable' = ~editable /\ UNCHANGED <<kind, w, full>>

EditMember(i, m) ==
  /\ editable /\ i \in DOMAIN w.parts /\ m # w.parts[i] /\ Counted
  /\ kind = "optional" => w.index = Exists
  /\ w' = MemberUpdated([w EXCEPT !.field[i] = m, !.parts[i] = m], i)
  /\ UNCHANGED <<kind, editable, full>>

(* addNewField(): nothing looks whether there is room.                         *)
AddNewField ==
  /\ editable /\ kind = "list" /\ Counted
  /\ w' = Emit(Refresh([w EXCEPT !.field = Append(@, Default)]))
  /\ full' = (full \/ Length(w.field) + 1 > MaxBytes)
  /\ UNCHANGED <<kind, editable>>

(* The removal is not reported.                                               *)
WrongRemoved(a, i) == Refresh([a EXCEPT !.field = RemoveAt(@, i)])

Removed(a, i) == Emit(Refresh([a EXCEPT !.field = RemoveAt(@, i)]))

RemoveField(i) ==
  /\ editable /\ kind = "list" /\ i \in DOMAIN w.parts /\ Counted
  /\ w' = Removed(w, i)
  /\ UNCHANGED <<kind, editable, full>>

-----------------------------------------------------------------------------
(* Variants: destroyMemberWidget(), then the new member.                       *)
Destroyed(a) == [a EXCEPT !.field = <<>>, !.parts = <<>>, !.index = NoIndex]

(* The old member stays.                                                     *)
WrongSelected(a, index) == IF index = NoIndex THEN Destroyed(a) ELSE [a EXCEPT !.index = index]

Selected(a, index) ==
  IF index = NoIndex THEN Destroyed(a) ELSE UpdateCurrent([Destroyed(a) EXCEPT !.index = index])

(* The list of names is left.                                                *)
WrongIndexUpdated(a, index) ==
  IF index = a.index THEN a ELSE Emit(Refresh(Selected(a, index)))

IndexUpdated(a, index) ==
  IF index = a.index THEN a
  ELSE LET b == Selected(a, index) IN Emit(Refresh([b EXCEPT !.item = ItemOf(b.index)]))

(* A name that is chosen changes the index.                                    *)
MemberComboUpdated(a, item) ==
  IF item = Unknown /\ a.index = NoIndex THEN a
  ELSE LET b == Selected(a, item) IN Emit(Refresh([b EXCEPT !.spin = b.index]))

ChooseIndex(index) ==
  /\ editable /\ kind \in Variants /\ index # w.spin /\ Counted
  /\ w' = IndexUpdated([w EXCEPT !.spin = index], index)
  /\ UNCHANGED <<kind, editable, full>>

ChooseItem(item) ==
  /\ editable /\ kind \in Variants /\ item # w.item /\ Counted
  /\ w' = MemberComboUpdated([w EXCEPT !.item = item], item)
  /\ UNCHANGED <<kind, editable, full>>

-----------------------------------------------------------------------------
(* The field comes and goes with its check box, whether it can be edited or not. *)
WrongAvailabilityChanged(a) ==
  LET mode == IF a.checked THEN Exists ELSE Missing
  IN  IF mode = a.index THEN a ELSE Emit(Refresh([a EXCEPT !.index = mode]))

(* availabilityChanged(): the box is set back when the field cannot be edited.  *)
AvailabilityChanged(a) ==
  LET mode == IF a.checked THEN Exists ELSE Missing
  IN  IF mode = a.index THEN a
      ELSE IF ~editable THEN RefreshInternal(a)
      ELSE Emit(Refresh([a EXCEPT !.index = mode]))

ToggleAvailable ==
  /\ kind = "optional" /\ Counted
  /\ w' = AvailabilityChanged([w EXCEPT !.checked = ~@])
  /\ UNCHANGED <<kind, editable, full>>

(* serialisedValueUpdated(): the members follow the bytes.                     *)
EditBytes(s) ==
  /\ editable /\ kind = "bitfield" /\ s # w.field /\ Counted
  /\ w' = RefreshMembers(Emit(Refresh([w EXCEPT !.field = s])))
  /\ UNCHANGED <<kind, editable, full>>

(* The fields are changed by an edit of another (doRefresh() of the message):   *)
(* a variant keeps its member, and a list makes its members anew.               *)
MessageRefreshed(s, i) ==
  /\ editable /\ Counted
  /\ IF kind \in Variants THEN i = w.index /\ Len(s) = Len(w.field) ELSE i \in Indexes \ {Tentative}
  /\ LET a == [w EXCEPT !.field = s, !.index = i, !.told = <<i, s>>]
     IN  w' = IF kind = "listed" THEN Made([a EXCEPT !.creates = TRUE]) ELSE Refresh(a)
  /\ UNCHANGED <<kind, editable, full>>

Next ==
  \/ SetEditEnabled \/ AddNewField \/ ToggleAvailable
  \/ \E i \in 1 .. MaxBytes : RemoveField(i) \/ \E m \in Members : EditMember(i, m)
  \/ \E i \in NoIndex .. LastIndex : ChooseIndex(i)
  \/ \E i \in Named \cup {Unknown} : ChooseItem(i)
  \/ \E s \in Storage : EditBytes(s) \/ \E i \in Indexes : MessageRefreshed(s, i)

Spec == Init /\ [][Next]_vars

-----------------------------------------------------------------------------
(* There is a widget for every member, in the order of the members, and it     *)
(* shows that member, whatever was added, removed and selected before.          *)
PartsAreMembers == w.ok => w.parts = w.field

(* The index, the name and the member of a variant belong together, whichever   *)
(* of the first two was changed; and so do the check box and the presence of    *)
(* an optional field.                                                       *)
SelectionIsCurrent ==
  /\ kind \in Variants /\ w.ok =>
       w.spin = w.index /\ w.item = ItemOf(w.index) /\ (w.index = NoIndex <=> w.field = <<>>)
  /\ kind = "optional" => w.checked = (w.index = Exists)

(* A member that is selected starts with its default, it is not the old one.    *)
SelectedIsNewStep ==
  (kind \in Variants /\ w'.index # w.index /\ w'.index # NoIndex) => w'.field = <<Default>>

SelectedIsNew == [][SelectedIsNewStep]_vars

(* The bytes are those of the field, and what was changed was reported.         *)
BytesAreShown ==
  w.ok => w.told = Value(w) /\ (kind \notin {"bundle", "optional"} => w.bytes = Value(w))

(* No field is shown that cannot be written, but for a list that got one        *)
(* element too many; elements that grow too long are reset.                    *)
NoAssertionFails == w.ok \/ full \/ kind = "listed"

(* Another member of a variant can be selected wherever the variant is.        *)
MembersCanBeSelected == kind \in Variants => w.ok

(* A field that cannot be edited keeps its value.                              *)
ReadOnlyStaysStep == ~editable => Value(w') = Value(w)

ReadOnlyStays == [][ReadOnlyStaysStep]_vars
===============================================================================
