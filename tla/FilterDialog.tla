----------------------------- MODULE FilterDialog ----------------------------
(***************************************************************************)
(* Choosing the messages that are not shown when received                    *)
(* (app/cc_view/src/widget/MessagesFilterDialog.cpp) and the question         *)
(* GuiAppMgr asks of the result, a binary search.  A message type is a number *)
(* in the order of the descriptions the lists are sorted by.                 *)
(***************************************************************************)
EXTENDS Naturals, Sequences, SequencesExt, Lists

CONSTANTS
  TypesOf,      (* the types of the protocols: a sequence of sets          *)
  Found         (* the types whose description has the text searched for    *)

VARIABLES
  filter,       (* the dialog, see Opened; Closed when there is none        *)
  filtered,     (* m_filteredMessages                                      *)
  plugged       (* the protocol that is applied                            *)

vars == <<filter, filtered, plugged>>

AllTypes == UNION {TypesOf[p] : p \in DOMAIN TypesOf}
Ordered(list) == \A i \in 1 .. Len(list) - 1 : list[i] <= list[i + 1]

(* std::sort(): the same elements, in order.                                 *)
Sorted(list) ==
  CHOOSE s \in [DOMAIN list -> ToSet(list)] : Ordered(s) /\ ToBag(s) = ToBag(list)

(* std::lower_bound()                                                        *)
LowerBound(list, t) == Bisect(Len(list), {i \in DOMAIN list : list[i] < t})

(* The lookup of canAddToRecvList() and of the constructor.                  *)
Finds(list, t) ==
  LET i == LowerBound(list, t) IN i <= Len(list) /\ list[i] = t

-----------------------------------------------------------------------------
Closed == [open |-> FALSE, ok |-> TRUE]

Displayed(d, list) == {t \in ToSet(d[list]) : d.search => t \in Found}

RefreshButtons(d) ==
  [d EXCEPT !.bar = [hideAll |-> d.visible # <<>>, showAll |-> d.hidden # <<>>,
                     hide |-> d.sel["visible"] # {}, show |-> d.sel["hidden"] # {}]]

(* refresh(): the lists are filled again, which gives up what was selected.   *)
Refresh(d) == RefreshButtons([d EXCEPT !.sel = [visible |-> {}, hidden |-> {}]])

Opened ==
  LET hidden == Sorted(filtered)
      all == Sorted(SetToSeq(TypesOf[plugged]))
  IN  Refresh([open |-> TRUE, ok |-> filter.ok, search |-> FALSE, hidden |-> hidden,
               visible |-> AtPositions(all, {i \in DOMAIN all : ~Finds(hidden, all[i])}), sel |-> <<>>, bar |-> <<>>])

(* moveSelectedItem(), for one after the other and without the final update:  *)
(* it is found in the one list, put at the end of the other and erased.       *)
MoveItems(d, from, to, order) ==
  [d EXCEPT !.ok = @ /\ ToSet(order) \subseteq ToSet(d[from]), ![to] = @ \o order,
            ![from] = Without(@, ToSet(order))]

(* What was moved stays at the end of the list.                              *)
WrongMoveTypes(d, from, to, order) == Refresh(MoveItems(d, from, to, order))

(* moveSelectedMessages(), hideVisible(), showHidden()                        *)
MoveTypes(d, from, to, order) ==
  Refresh([MoveItems(d, from, to, order) EXCEPT ![to] = Sorted(@)])

(* They stay where they are, too.                                            *)
WrongMoveAll(d, from, to) == Refresh([d EXCEPT ![to] = Sorted(@ \o d[from])])

(* moveAllMessages(): all of them, found or not.                             *)
MoveAll(d, from, to) == Refresh([d EXCEPT ![to] = Sorted(@ \o d[from]), ![from] = <<>>])

(* The other list keeps its selection.                                       *)
WrongSelect(d, list, other, types) == RefreshButtons([d EXCEPT !.sel[list] = types])

(* visibleSelected(), hiddenSelected(): an empty selection changes nothing    *)
(* else, the button stays as it was.                                        *)
Select(d, list, other, types) ==
  LET e == [d EXCEPT !.sel[list] = types]
  IN  IF types = {} THEN e ELSE RefreshButtons([e EXCEPT !.sel[other] = {}])

-----------------------------------------------------------------------------
Init == filter = Closed /\ filtered = <<>> /\ plugged \in DOMAIN TypesOf

(* recvFilterDialog()                                                        *)
OpenFilter == ~filter.open /\ filter' = Opened /\ UNCHANGED <<filtered, plugged>>

(* applyNewPlugins(): what was hidden stays hidden.                          *)
Replug(p) == ~filter.open /\ plugged' = p /\ UNCHANGED <<filter, filtered>>

Becomes(d) == filter' = d /\ UNCHANGED <<filtered, plugged>>

Sides == {<<"visible", "hidden">>, <<"hidden", "visible">>}
AllButton(from) == IF from = "visible" THEN "hideAll" ELSE "showAll"
Button(from) == IF from = "visible" THEN "hide" ELSE "show"

MoveAllClicked(from, to) ==
  filter.open /\ filter.bar[AllButton(from)] /\ Becomes(MoveAll(filter, from, to))

MoveSelectedClicked(from, to) ==
  /\ filter.open /\ filter.bar[Button(from)]
  /\ Becomes(MoveTypes(filter, from, to, SetToSeq(filter.sel[from])))

DoubleClicked(from, to, t) ==
  /\ filter.open /\ t \in Displayed(filter, from)
  /\ Becomes(MoveTypes(Select(filter, from, to, {t}), from, to, <<t>>))

SelectTypes(list, other, types) ==
  /\ filter.open /\ types \subseteq Displayed(filter, list) /\ types # filter.sel[list]
  /\ Becomes(Select(filter, list, other, types))

(* refreshDisplayedLists()                                                   *)
SearchFilter == filter.open /\ Becomes(Refresh([filter EXCEPT !.search = ~@]))

AcceptFilter ==
  /\ filter.open /\ filtered' = filter.hidden
  /\ filter' = [Closed EXCEPT !.ok = filter.ok /\ Ordered(filter.hidden)]
  /\ UNCHANGED plugged

RejectFilter == filter.open /\ Becomes([Closed EXCEPT !.ok = filter.ok])

Next ==
  \/ OpenFilter \/ SearchFilter \/ AcceptFilter \/ RejectFilter
  \/ \E p \in DOMAIN TypesOf : Replug(p)
  \/ \E s \in Sides :
       \/ MoveAllClicked(s[1], s[2]) \/ MoveSelectedClicked(s[1], s[2])
       \/ \E t \in AllTypes : DoubleClicked(s[1], s[2], t)
       \/ \E types \in SUBSET AllTypes : SelectTypes(s[1], s[2], types)

Spec == Init /\ [][Next]_vars

-----------------------------------------------------------------------------
(* The binary search of canAddToRecvList() finds every type that was hidden,  *)
(* however the types were moved: the list is sorted whenever it is used, the  *)
(* assertion of accept().                                                   *)
HiddenIsFound ==
  filter.ok /\ \A t \in AllTypes : Finds(filtered, t) <=> t \in ToSet(filtered)

(* Every type of the protocol is in exactly one of the two lists, and what    *)
(* was hidden for another protocol is still there.                          *)
ListsAreParts ==
  filter.open =>
    /\ ToSet(filter.visible) \cap ToSet(filter.hidden) = {}
    /\ IsInjective(filter.visible) /\ IsInjective(filter.hidden)
    /\ ToSet(filter.visible) \cup ToSet(filter.hidden) = TypesOf[plugged] \cup ToSet(filtered)

(* Only one list has a selection, it is part of what is displayed, and there  *)
(* is a button to move it.                                                  *)
SelectionOfOne ==
  filter.open =>
    /\ filter.sel["visible"] = {} \/ filter.sel["hidden"] = {}
    /\ \A s \in Sides : filter.sel[s[1]] \subseteq Displayed(filter, s[1])
    /\ \A s \in Sides : filter.sel[s[1]] # {} => filter.bar[Button(s[1])]
=============================================================================
