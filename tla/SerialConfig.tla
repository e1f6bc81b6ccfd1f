---------------------------- MODULE SerialConfig -----------------------------
(***************************************************************************)
(* How the name of the serial device is chosen in the widget of the plug-in  *)
(* (plugin/serial_socket/SerialSocketConfigWidget.cpp): from the list of the *)
(* devices of the computer, or typed into a line when the device is not in   *)
(* the list or the edit button is pressed.  Only one of the two is visible.  *)
(***************************************************************************)
EXTENDS FiniteSets

CONSTANTS
  Names,        (* names of devices                                        *)
  NoName        (* the empty text                                          *)

VARIABLES
  name,         (* m_socket.name()                                         *)
  devices,      (* the devices the computer has                            *)
  open,         (* there is a widget                                       *)
  text,         (* m_deviceLineEdit                                        *)
  items,        (* the entries of m_deviceComboBox                         *)
  current,      (* the entry that is selected, NoName when none is         *)
  forced,       (* m_deviceEditForced                                      *)
  checked,      (* m_deviceEditToolButton is pressed                       *)
  enabled,      (* and can be pressed                                      *)
  editMode      (* m_editMode: the line is visible, the list is not        *)

widgetVars == <<open, text, items, current, forced, checked, enabled, editMode>>
vars == <<name, devices, widgetVars>>

Init ==
  /\ name \in Names \cup {NoName} /\ devices \in SUBSET Names
  /\ open = FALSE /\ text = NoName /\ items = {} /\ current = NoName
  /\ forced = FALSE /\ checked = FALSE /\ enabled = TRUE /\ editMode = FALSE

(* refreshDeviceConfigComboSignalsBlocked(): a device that is not listed has  *)
(* to be edited; pressing the button runs deviceEditClicked() within.         *)
Refresh(force, pressed) ==
  LET found == name' \in items'
  IN  /\ current' = IF found THEN name' ELSE NoName
      /\ forced' = (force \/ ~found) /\ checked' = (pressed \/ ~found)
      /\ enabled' = found /\ editMode' = forced'

(* The constructor of the widget, also when a configuration was loaded.       *)
Open ==
  /\ name' \in IF open THEN Names \cup {NoName} ELSE {name}
  /\ open' = TRUE /\ text' = name' /\ items' = devices
  /\ Refresh(FALSE, FALSE)
  /\ UNCHANGED devices

Close ==
  /\ open /\ open' = FALSE
  /\ UNCHANGED <<name, devices, text, items, current, forced, checked, enabled, editMode>>

(* nameChanged()                                                            *)
Type(n) ==
  /\ open /\ editMode
  /\ text' = n /\ name' = n /\ UNCHANGED <<devices, open, items>>
  /\ Refresh(forced, checked)

(* The line is left as it was.                                              *)
WrongPicked(n) == text

Picked(n) == n

(* deviceChanged()                                                          *)
Pick(n) ==
  /\ open /\ ~editMode /\ n \in items \ {current}
  /\ current' = n /\ name' = n /\ text' = Picked(n)
  /\ UNCHANGED <<devices, open, items, forced, checked, enabled, editMode>>

(* deviceRefreshClicked()                                                   *)
RefreshClicked ==
  /\ open /\ ~editMode
  /\ items' = devices /\ UNCHANGED <<name, devices, open, text>>
  /\ Refresh(forced, checked)

(* deviceEditClicked()                                                      *)
EditToggled ==
  /\ open /\ enabled
  /\ UNCHANGED <<name, devices, open, text, items>>
  /\ Refresh(~checked, ~checked)

(* A device is plugged in or pulled out.                                    *)
Plug(n) ==
  /\ devices' = IF n \in devices THEN devices \ {n} ELSE devices \cup {n}
  /\ UNCHANGED <<name, widgetVars>>

Next ==
  \/ Open \/ Close \/ RefreshClicked \/ EditToggled
  \/ \E n \in Names \cup {NoName} : Type(n) \/ Pick(n)
  \/ \E n \in Names : Plug(n)

Spec == Init /\ [][Next]_vars

-----------------------------------------------------------------------------
(* The one that is visible, the line or the list, shows the device in use,    *)
(* and the list is visible only for a device that is in it, while devices     *)
(* come and go and the user changes between the two.                          *)
VisibleIsUsed ==
  open => /\ editMode => text = name
          /\ ~editMode => current = name /\ name \in items
          /\ ~enabled => editMode
=============================================================================
