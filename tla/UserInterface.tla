---------------------------- MODULE UserInterface -----------------------------
(***************************************************************************)
(* The parts of the main window that keep a state of their own: the send     *)
(* area, the display of a message, and the dialogs, which are modal: while   *)
(* one is open the user cannot reach another.  One of them runs, the others  *)
(* wait.                                                                     *)
(***************************************************************************)
EXTENDS Naturals, Sequences, FiniteSets

CONSTANTS
  PluginsOf, Configurable, Broken, Searched, GivenLists,   (* PluginDialog     *)
  MessageTypes, Matching, Typed,                           (* UpdateDialog     *)
  TypesOf, Found,                                          (* FilterDialog     *)
  Refreshed,                                               (* MsgDisplay       *)
  MaxRows,      (* bound: messages in the send list                        *)
  MaxChanges    (* bound: changes made in a dialog                         *)

ASSUME UserInterfaceAssumption == MaxRows \in Nat /\ MaxChanges \in Nat \ {0}

(* A message that was refreshed is left as it is when it is refreshed again.   *)
ASSUME RefreshAssumption ==
  /\ 1 \in DOMAIN Refreshed /\ 0 \notin DOMAIN Refreshed
  /\ \A v \in DOMAIN Refreshed : Refreshed[v] \in DOMAIN Refreshed /\ Refreshed[Refreshed[v]] = Refreshed[v]

(* The dialog for a message lists at least one type.                          *)
ASSUME EditorAssumption ==
  /\ MessageTypes # <<>> /\ MessageTypes \in Seq({MessageTypes[i] : i \in DOMAIN MessageTypes})
  /\ \A i \in DOMAIN MessageTypes : MessageTypes[i] # "none"
  /\ Typed \subseteq Nat

(* The protocols have finitely many messages.                                 *)
ASSUME FilterAssumption ==
  \A p \in DOMAIN TypesOf : TypesOf[p] \subseteq Nat /\ IsFiniteSet(TypesOf[p])

(* A plug-in has one type.                                                    *)
ASSUME PluginsAssumption ==
  /\ DOMAIN PluginsOf = {"socket", "filter", "protocol"}
  /\ \A t, u \in DOMAIN PluginsOf : t # u => PluginsOf[t] \cap PluginsOf[u] = {}
  /\ \A t \in DOMAIN PluginsOf : "none" \notin PluginsOf[t]

VARIABLES
  subject,                                                 (* the part that runs *)
  area, protocol, sending,                                 (* SendArea         *)
  dlg, started, libs, applied, running, files, aborted, loadedOver, shows,  (* PluginDialog *)
  editor, message,                                         (* UpdateDialog     *)
  filter, filtered, plugged,                               (* FilterDialog     *)
  msgs, clicked, shown, tree, pane, editing, queued, stray, forgotten, chosen,  (* MsgDisplay *)
  changes                                                  (* bound counter    *)

Send == INSTANCE SendArea WITH Protocols <- {"p", "q"}, NumMsgs <- MaxRows + 1
Plugins == INSTANCE PluginDialog
Editor == INSTANCE UpdateDialog WITH dlg <- editor, edits <- changes, MaxEdits <- MaxChanges + 1
Filter == INSTANCE FilterDialog
Display == INSTANCE MsgDisplay WITH edits <- changes, MaxEdits <- MaxChanges

(* The configuration files are such as the dialog writes them: by type, with   *)
(* no plug-in twice, one socket and one protocol at most.                     *)
ASSUME ListsAssumption ==
  \A list \in GivenLists :
    /\ list \in Seq(Plugins!Plugins) /\ Plugins!IsInjective(list)
    /\ list = Plugins!OfType(list, "socket") \o Plugins!OfType(list, "filter") \o Plugins!OfType(list, "protocol")
    /\ Len(Plugins!OfType(list, "socket")) <= 1 /\ Len(Plugins!OfType(list, "protocol")) <= 1

sendVars == <<area, protocol, sending>>
pluginVars == <<dlg, started, libs, applied, running, files, aborted, loadedOver, shows>>
editorVars == <<editor, message>>
filterVars == <<filter, filtered, plugged>>
displayVars == <<msgs, clicked, shown, tree, pane, editing, queued, stray, forgotten, chosen>>
vars == <<subject, sendVars, pluginVars, editorVars, filterVars, displayVars, changes>>

Init ==
  /\ subject \in {"send_area", "plugins", "editor", "filter", "display"}
  /\ Send!Init /\ Plugins!Init /\ Editor!Init /\ Filter!Init /\ Display!Init
  /\ subject # "send_area" => protocol = "p"
  /\ subject # "editor" => message = Editor!NoMessage
  /\ subject # "filter" => plugged = 1
  /\ subject # "display" => msgs["loaded"].value = 1 /\ msgs["loaded"].extra = ""

SendStep ==
  /\ subject = "send_area" /\ Send!Next
  /\ UNCHANGED <<pluginVars, editorVars, filterVars, displayVars, changes>>

PluginsStep ==
  /\ subject = "plugins" /\ Plugins!Next
  /\ UNCHANGED <<sendVars, editorVars, filterVars, displayVars>>

EditorStep ==
  /\ subject = "editor" /\ Editor!Next
  /\ UNCHANGED <<sendVars, pluginVars, filterVars, displayVars>>

FilterStep ==
  /\ subject = "filter" /\ Filter!Next
  /\ UNCHANGED <<sendVars, pluginVars, editorVars, displayVars, changes>>

DisplayStep ==
  /\ subject = "display" /\ Display!Next
  /\ UNCHANGED <<sendVars, pluginVars, editorVars, filterVars>>

Next ==
  /\ UNCHANGED subject
  /\ SendStep \/ PluginsStep \/ EditorStep \/ FilterStep \/ DisplayStep

Spec == Init /\ [][Next]_vars

-----------------------------------------------------------------------------
(* No assertion of the send area and of the plug-in dialog fails, in whatever *)
(* order their lists, buttons and tool bars call each other.  Two exceptions, *)
(* where the code's assertions do fail: a configuration file that names a     *)
(* plug-in whose library cannot be loaded ends the program (it is the only    *)
(* way to that end), and a move button pressed after a key, and not a click,  *)
(* has made another row current.                                             *)
NoAssertionFails ==
  /\ subject = "send_area" => Send!NoAssertionFails
  /\ subject = "plugins" => Plugins!NoAssertionFails

(* The row of the send list, the tool bar and the displayed message are the   *)
(* same one; list, tool bar and manager count the same messages, all of the   *)
(* protocol in use.                                                          *)
SendAreaAgrees == subject = "send_area" => Send!SelectedIsCurrent /\ Send!ListsAgree

(* One socket and one protocol can be selected; the configuration widgets are *)
(* those of the selected plug-ins; a loaded list is the one that is saved or  *)
(* applied; and no plug-in that runs is unloaded, whether the dialog is       *)
(* accepted, cancelled or answered with no.                                  *)
PluginsAgree ==
  subject = "plugins" =>
    /\ Plugins!OneOfEach /\ Plugins!WidgetsOfSelected
    /\ Plugins!ShowsLoaded /\ Plugins!RunningIsLoaded

(* The pane and the buttons of the message dialog follow its list; delay and  *)
(* repetition survive being accepted and edited again; and no message is      *)
(* accepted that repeats for ever without a period, as the sender asserts.    *)
AcceptedComesBack ==
  subject = "editor" =>
    Editor!PaneIsCurrent /\ Editor!AcceptedComesBack /\ Editor!AcceptedCanBeSent

(* The binary search finds exactly what was hidden, every type is in one of   *)
(* the two lists, and one of them has the selection.                         *)
HiddenIsFound ==
  subject = "filter" => Filter!HiddenIsFound /\ Filter!ListsAreParts /\ Filter!SelectionOfOne

(* The items and the pane are those of the message as it is, its bytes and    *)
(* extra information are sent as they are shown, and what is edited is the    *)
(* selected message, which was not sent yet.  Two exceptions, where the code  *)
(* does otherwise: what is edited after a click came before the display that  *)
(* an edit had posted, and the items of garbage that is clicked while it is   *)
(* displayed because it arrived.                                             *)
ShowsMessage ==
  subject = "display" =>
    /\ Display!ShowsMessage /\ Display!DerivedAgree
    /\ Display!ExtraIsSent /\ Display!EditsOwnMessage

(* A message that is moved, or that others are loaded after, stays selected;  *)
(* the send list is emptied, unasked, exactly when the protocol that runs is  *)
(* another one, unless a list has two protocols; widgets that call back while *)
(* they are being set forget nothing that was entered; received messages are  *)
(* never edited.                                                            *)
StepsKeep ==
  [][/\ subject = "send_area" => Send!KeepsSelectionStep
     /\ subject = "plugins" => Plugins!ProtocolFollowsStep
     /\ subject = "editor" => Editor!NothingForgottenStep
     /\ subject = "display" => Display!ReceivedStaysStep]_vars
===============================================================================
