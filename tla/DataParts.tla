------------------------------ MODULE DataParts -------------------------------
(***************************************************************************)
(* The parts that keep, convert and show data and do not call each other:     *)
(* the settings of the sockets with their widgets and files, the frame that    *)
(* finds messages among bytes, the files of messages, the way any file is      *)
(* replaced, and the widgets of fields.  One of them runs, the others wait.    *)
(***************************************************************************)
EXTENDS Naturals, Sequences

CONSTANTS
  MaxPort,                                                 (* SocketConfig     *)
  Names, NoName,                                           (* SerialConfig     *)
  Clients, GarbageLimit, MinTransport, MaxBytes, MaxChunk, MaxListed, (* FrameRead *)
  FormsOf, Noises, MaxTime, DelayLimit, MaxMsgs,           (* MsgFileMgr       *)
  MaxSaves, MaxTmp,                                        (* FileSave         *)
  MaxSer, MaxType, Specials, Listed,                       (* FieldWidgets     *)
  MaxSize, TruncateLength,                                 (* TextFields       *)
  MaxMember, MaxLength, Named,                             (* MemberFields     *)
  MaxChanges    (* bound: edits of settings and of fields                   *)

(* There is a temporary name to save under, and a port to connect to; members, *)
(* sizes and lengths are numbers, and so are the indexes with names.          *)
ASSUME DataPartsAssumption ==
  /\ MaxSaves \in Nat /\ MaxTmp \in Nat \ {0} /\ MaxPort \in Nat \ {0}
  /\ MaxMember \in Nat /\ MaxLength \in Nat /\ Named \subseteq Nat
  /\ MaxSize \in Nat /\ TruncateLength \in Nat

(* Values that can be written, have names or are listed are of the type, which  *)
(* has room for an offset; and the value above the greatest one of an enum's    *)
(* list, which its first item stands for, can be written.                      *)
ASSUME ValuesAssumption ==
  /\ MaxSer \in Nat /\ MaxType \in Nat /\ MaxSer <= MaxType /\ 2 <= MaxType
  /\ Specials \subseteq 0 .. MaxSer /\ Listed \subseteq 0 .. MaxSer
  /\ \E v \in 1 .. MaxSer : v - 1 \in Listed /\ \A l \in Listed : l < v

(* Noise is kept up to a limit that is not zero (GarbageLimit of               *)
(* ToolsFrameBase.h), and what is read comes in pieces.                       *)
ASSUME FrameAssumption == GarbageLimit \in Nat \ {0} /\ MaxChunk \in Nat

(* The forms of a message are numbered, and time stamps, of which there are   *)
(* some, are numbers that the type of a delay has.                           *)
ASSUME MsgFilesAssumption ==
  /\ \A p \in DOMAIN FormsOf : \A id \in DOMAIN FormsOf[p] :
       Len(FormsOf[p][id]) \in Nat /\ DOMAIN FormsOf[p][id] = 1 .. Len(FormsOf[p][id])
  /\ MaxTime \in Nat \ {0} /\ DelayLimit \in Nat /\ MaxTime <= DelayLimit /\ MaxMsgs \in Nat

VARIABLES
  subject,                                                 (* the part that runs *)
  plugin, config, shown, conf, confSaved, restored, asked, untold, (* SocketConfig *)
  name, devices, open, text, items, current, forced, checked, enabled, editMode, (* SerialConfig *)
  frame, sendList, input, out, flushed, written, ok,       (* FrameRead        *)
  msgs, protocol, savedAs, file, tokens, recorded, loaded, (* MsgFileMgr       *)
  disk, step, tmp, version, buffered, result, full, ended, read, (* FileSave   *)
  number, how, numberEditable, numberWidget, typed, silent, (* FieldWidgets    *)
  textual, value, box, bytes, all, textEditable, told, entered, visible, (* TextFields *)
  compound, editable, w, overfull,                         (* MemberFields     *)
  changes                                                  (* bound counter    *)

Settings == INSTANCE SocketConfig WITH file <- conf, saved <- confSaved
Serial == INSTANCE SerialConfig
Frame == INSTANCE FrameRead
MsgFiles == INSTANCE MsgFileMgr WITH kind <- savedAs, text <- tokens
Files == INSTANCE FileSave
Number == INSTANCE FieldWidgets WITH kind <- number, editable <- numberEditable, w <- numberWidget
Text == INSTANCE TextFields WITH kind <- textual, text <- box, editable <- textEditable
Member == INSTANCE MemberFields WITH kind <- compound, full <- overfull, MaxBytes <- MaxLength

settingsVars == <<plugin, config, shown, conf, confSaved, restored, asked, untold>>
serialVars == <<name, devices, open, text, items, current, forced, checked, enabled, editMode>>
frameVars == <<frame, sendList, input, out, flushed, written, ok>>
msgFileVars == <<msgs, protocol, savedAs, file, tokens, recorded, loaded>>
fileVars == <<disk, step, tmp, version, buffered, result, full, ended, read>>
numberVars == <<number, how, numberEditable, numberWidget, typed, silent>>
textVars == <<textual, value, box, bytes, all, textEditable, told, entered, visible>>
memberVars == <<compound, editable, w, overfull>>

keepVars == <<settingsVars, serialVars, frameVars, msgFileVars, fileVars>>
fieldVars == <<numberVars, textVars, memberVars>>
vars == <<subject, keepVars, fieldVars, changes>>

Init ==
  /\ subject \in {"settings", "serial", "frame", "msg_files", "files", "number", "text", "member"}
  /\ Settings!Init /\ (subject # "settings" => plugin = "tcp_server")
  /\ Serial!Init /\ (subject # "serial" => name = NoName /\ devices = {})
  /\ Frame!Init
  /\ Files!Init /\ (subject # "files" => version = 0)
  /\ Number!Init /\ (subject # "number" => number = "bitmask" /\ numberWidget.field = 0)
  /\ Text!Init /\ (subject # "text" => textual = "string" /\ value = <<>>)
  /\ Member!Init /\ (subject # "member" => compound = "bundle" /\ w.field = <<0, 0>>)
  /\ IF subject = "msg_files" THEN MsgFiles!Init
     ELSE /\ protocol = "p" /\ msgs = <<>> /\ savedAs = "none" /\ file = <<>>
          /\ tokens = <<>> /\ recorded = 0 /\ loaded = MsgFiles!Unloaded

SettingsStep ==
  /\ subject = "settings" /\ Settings!Next
  /\ UNCHANGED <<serialVars, frameVars, msgFileVars, fileVars, fieldVars>>

SerialStep ==
  /\ subject = "serial" /\ Serial!Next
  /\ UNCHANGED <<settingsVars, frameVars, msgFileVars, fileVars, fieldVars, changes>>

FrameStep ==
  /\ subject = "frame" /\ Frame!Next
  /\ UNCHANGED <<settingsVars, serialVars, msgFileVars, fileVars, fieldVars, changes>>

MsgFilesStep ==
  /\ subject = "msg_files" /\ MsgFiles!Next
  /\ UNCHANGED <<settingsVars, serialVars, frameVars, fileVars, fieldVars, changes>>

FilesStep ==
  /\ subject = "files" /\ Files!Next
  /\ UNCHANGED <<settingsVars, serialVars, frameVars, msgFileVars, fieldVars, changes>>

NumberStep ==
  /\ subject = "number" /\ Number!Next
  /\ UNCHANGED <<keepVars, textVars, memberVars>>

TextStep ==
  /\ subject = "text" /\ Text!Next
  /\ UNCHANGED <<keepVars, numberVars, memberVars>>

MemberStep ==
  /\ subject = "member" /\ Member!Next
  /\ UNCHANGED <<keepVars, numberVars, textVars>>

Next ==
  /\ UNCHANGED subject
  /\ \/ SettingsStep \/ SerialStep \/ FrameStep \/ MsgFilesStep \/ FilesStep
     \/ NumberStep \/ TextStep \/ MemberStep

Spec == Init /\ [][Next]_vars

-----------------------------------------------------------------------------
(* Settings that were saved come back, but for a baud rate of 0 and the SSL     *)
(* client's key; what a configuration widget shows is what the socket has and  *)
(* the device it opens, but for what the SSL client's is not told; and of the   *)
(* keys another plug-in uses the most specific one wins, but that the generic  *)
(* UDP socket takes its local port for the port it sends to.                  *)
SettingsAreKept ==
  /\ subject = "settings" =>
       Settings!RestoresSaved /\ Settings!ShownIsSet /\ Settings!ClosestKeyWins
  /\ subject = "serial" => Serial!VisibleIsUsed

(* Every byte read is in one message, in order, or kept by the frame, which    *)
(* finds all messages and does not keep noise for ever.  A message is said to  *)
(* come from whoever sent the last of its bytes, and is sent as it is listed.  *)
BytesBecomeMessages ==
  subject = "frame" =>
    /\ Frame!NothingLost /\ Frame!FramesFound /\ Frame!LittleIsKept
    /\ Frame!NamesLastSource /\ Frame!SentAsListed

(* Received and composed lists come back from their files, but for the bytes    *)
(* that were no message and for what another protocol cannot decode; a          *)
(* recording is such a file, and a received list is replayed at the pace it was *)
(* received.                                                                 *)
ListsComeBack ==
  subject = "msg_files" =>
    /\ MsgFiles!RecvComesBack /\ MsgFiles!SendComesBack
    /\ MsgFiles!ReplayKeepsPace /\ MsgFiles!RecordingIsList

(* Wherever a save fails or the program ends, a file that is read was written  *)
(* as a whole and what was reported as saved is there; a save that fails leaves *)
(* some whole copy on the disk.                                              *)
FilesSurvive ==
  subject = "files" => Files!NeverPartial /\ Files!SavedIsThere /\ Files!OneCopyRemains

(* The parts of a widget show the value of its field, whichever of them was    *)
(* changed last, changes are reported, and what was typed becomes the value:   *)
(* numbers, texts with the bytes behind them, and fields with members.         *)
WidgetsShowFields ==
  /\ subject = "number" =>
       Number!ShownIsField /\ Number!ChangesAreReported /\ Number!TypedBytesStay
  /\ subject = "text" => Text!TextIsValue /\ Text!EnteredIsValue /\ Text!EditedIsWhole
  /\ subject = "member" =>
       Member!PartsAreMembers /\ Member!SelectionIsCurrent /\ Member!BytesAreShown

(* No field is set or shown that cannot be, in whatever order the boxes of a    *)
(* widget, or the widgets of members, call back.                              *)
NoAssertionFails ==
  /\ subject = "number" => Number!NoAssertionFails
  /\ subject = "member" => Member!NoAssertionFails

(* A save leaves the temporary files of others alone; a field that cannot be    *)
(* edited keeps its value; showing raw data does not cut them, and showing a    *)
(* string leaves what its box can hold; and a member that is selected starts   *)
(* with its default.                                                         *)
StepsKeep ==
  [][/\ subject = "files" => Files!LeftoversStayStep
     /\ subject = "number" => Number!ReadOnlyStaysStep
     /\ subject = "text" => Text!ShowingKeepsStep
     /\ subject = "member" => Member!ReadOnlyStaysStep /\ Member!SelectedIsNewStep]_vars
===============================================================================
