---------------------------- MODULE DataParts_proofs ---------------------------
(***************************************************************************)
(* What TLAPS proves of the parts that keep data, for every number of saves,  *)
(* of temporary names, of ends of the program, of devices and of ports, and    *)
(* for every size of values, texts and lists, as DataParts composes them.      *)
(* Files: one is never there in part, what was saved is there, what fails      *)
(* leaves a copy, and what an earlier program left behind is not written over.  *)
(* Settings: what was saved comes back, what is shown is what is set, and the   *)
(* closest key wins.  Fields: the parts of a widget agree with its field, no    *)
(* assertion fails in the calls they make back, and what cannot be edited or    *)
(* is only shown stays.                                                      *)
(***************************************************************************)
EXTENDS DataParts, Integers, Sequences, SequenceTheorems, WellFoundedInduction, TLAPS

-----------------------------------------------------------------------------
(* The saving of files.                                                      *)

Contents == Nat \cup {Files!Partial}

(* Where save() stands: a file that is open is empty, one that is written    *)
(* has its contents on the disk or in the buffer, unless the disk is full,   *)
(* and the old file is gone only after that.                                 *)
SaveProgress ==
  /\ step = "idle" => ~buffered
  /\ step # "idle" => version > 0
  /\ step = "open" => disk[tmp] = Files!Partial /\ ~buffered
  /\ step \in {"written", "removed"} /\ ~full => buffered \/ disk[tmp] = version
  /\ step = "removed" => disk[Files!Target] = Files!Absent

FileTypes ==
  /\ disk \in [Files!FileNames -> Contents] /\ version \in Nat /\ tmp \in Files!FileNames \ {Files!Target}
  /\ step \in {"idle", "open", "written", "removed"}
  /\ buffered \in BOOLEAN /\ result \in BOOLEAN /\ full \in BOOLEAN
  /\ ended \in Nat /\ read \in Contents

FilesSound == FileTypes /\ SaveProgress /\ Files!NeverPartial /\ Files!SavedIsThere /\ Files!OneCopyRemains

-----------------------------------------------------------------------------
(* The search for a temporary name goes through the names in their order, so *)
(* that it needs the least number of a set.                                  *)
LEMMA NatLess == IsWellFoundedOn({ss \in Nat \X Nat : ss[1] < ss[2]}, Nat)
BY NatLessThanWellFounded, Zenon DEF OpToRel

LEMMA Least ==
  ASSUME NEW T, T \subseteq Nat, T # {}
  PROVE  \E x \in T : \A y \in T : x <= y
<1> DEFINE R == {ss \in Nat \X Nat : ss[1] < ss[2]}
<1>1. IsWellFoundedOn(R, Nat)
  BY NatLess
<1>2. \A a, b \in Nat : a < b => <<a, b>> \in R
  OBVIOUS
<1> HIDE DEF R
<1>3. PICK x \in T : \A y \in T : <<y, x>> \notin R
  BY <1>1, WFMin, Zenon
<1>4. ASSUME NEW y \in T PROVE x <= y
  <2>1. x \in Nat /\ y \in Nat
    OBVIOUS
  <2>2. ~(y < x)
    BY <1>2, <1>3, <2>1
  <2> QED BY <2>1, <2>2
<1> QED BY <1>4

(* The temporary name is that of no file.                                    *)
LEMMA TmpNameIsFree ==
  ASSUME Files!Bounds, FileTypes, \E n \in Files!FileNames \ {Files!Target} : disk[n] = Files!Absent
  PROVE  Files!TmpName \in Files!FileNames \ {Files!Target} /\ disk[Files!TmpName] = Files!Absent
<1> DEFINE T == {n \in Files!FileNames \ {Files!Target} : disk[n] = Files!Absent}
<1>1. T \subseteq Nat /\ T # {}
  BY DEF Files!FileNames
<1>2. PICK x \in T : \A y \in T : x <= y
  BY <1>1, Least
<1>3. ASSUME NEW k \in 1 .. x - 1 PROVE disk[k] # Files!Absent
  <2>1. x \in 1 .. MaxTmp /\ k \in Files!FileNames \ {Files!Target} /\ k < x
    BY <1>2 DEF Files!FileNames, Files!Target, Files!Bounds
  <2>2. k \notin T
    BY <1>2, <2>1 DEF Files!FileNames
  <2> QED BY <2>1, <2>2
<1>4. \E n \in Files!FileNames \ {Files!Target} : disk[n] = Files!Absent /\ \A k \in 1 .. n - 1 : disk[k] # Files!Absent
  BY <1>2, <1>3
<1> QED BY <1>4 DEF Files!TmpName

LEMMA FilesInit == Files!Bounds /\ Files!Init => FilesSound
<1> SUFFICES ASSUME Files!Bounds, Files!Init PROVE FilesSound
  OBVIOUS
<1>1. Files!Target \in Files!FileNames /\ tmp \in Files!FileNames \ {Files!Target}
  BY DEF Files!Init, Files!FileNames, Files!Target, Files!Bounds
<1>2. disk \in [Files!FileNames -> Contents] /\ disk[Files!Target] \in {0, 1}
  BY <1>1 DEF Files!Init, Contents, Files!Absent
<1>3. FileTypes
  <2>1. version \in Nat /\ ended \in Nat /\ read \in Contents
    BY <1>2 DEF Files!Init, Contents, Files!Absent
  <2>2. buffered \in BOOLEAN /\ result \in BOOLEAN /\ full \in BOOLEAN /\ step = "idle"
    BY DEF Files!Init
  <2> QED BY <1>1, <1>2, <2>1, <2>2 DEF FileTypes
<1>4. SaveProgress /\ Files!NeverPartial /\ Files!SavedIsThere
  BY <1>2 DEF Files!Init, SaveProgress, Files!NeverPartial, Files!SavedIsThere, Files!Partial
<1>5. Files!OneCopyRemains
  BY <1>1, <1>2 DEF Files!Init, Files!OneCopyRemains
<1> QED BY <1>3, <1>4, <1>5 DEF FilesSound

LEMMA FilesNext == Files!Bounds /\ FilesSound /\ [Files!Next]_fileVars => FilesSound'
<1> SUFFICES ASSUME Files!Bounds, FilesSound, [Files!Next]_fileVars PROVE FilesSound'
  OBVIOUS
<1>a. FileTypes /\ SaveProgress /\ Files!NeverPartial /\ Files!SavedIsThere /\ Files!OneCopyRemains
  BY DEF FilesSound
<1>b. /\ Files!Target \in Files!FileNames /\ Files!Target # tmp /\ tmp \in Files!FileNames
      /\ disk \in [Files!FileNames -> Contents] /\ version \in Contents /\ version \in Nat /\ Files!Absent \in Contents /\ Files!Partial \in Contents
      /\ Files!Partial # Files!Absent
  BY <1>a DEF FileTypes, Files!FileNames, Files!Target, Files!Bounds, Contents, Files!Absent, Files!Partial
<1>1. CASE Files!Open
  <2>1. CASE Files!Return(FALSE) /\ UNCHANGED <<version, tmp, disk, buffered, full, ended, read>>
    <3>1. step = "idle" /\ step' = "idle" /\ result' = FALSE
      BY <1>1, <2>1 DEF Files!Open, Files!Return
    <3>2. FileTypes'
      BY <1>a, <2>1, <3>1 DEF FileTypes
    <3>3. SaveProgress' /\ Files!NeverPartial' /\ Files!SavedIsThere' /\ Files!OneCopyRemains'
      BY <1>a, <2>1, <3>1 DEF SaveProgress, Files!NeverPartial, Files!SavedIsThere, Files!OneCopyRemains
    <3> QED BY <3>2, <3>3 DEF FilesSound
  <2>2. CASE /\ version' = version + 1 /\ tmp' = Files!TmpName
             /\ disk' = [disk EXCEPT ![Files!TmpName] = Files!Partial] /\ step' = "open"
             /\ UNCHANGED <<result, buffered, full, ended, read>>
    <3>1. Files!TmpName \in Files!FileNames \ {Files!Target} /\ disk[Files!TmpName] = Files!Absent
      BY <1>1, <1>a, TmpNameIsFree DEF Files!Open
    <3>2. /\ disk' \in [Files!FileNames -> Contents] /\ disk'[Files!Target] = disk[Files!Target] /\ disk'[tmp'] = Files!Partial
          /\ version' \in Nat /\ version' > 0
      BY <1>b, <2>2, <3>1
    <3>3. FileTypes'
      BY <1>a, <2>2, <3>1, <3>2 DEF FileTypes
    <3>4. SaveProgress' /\ Files!NeverPartial' /\ Files!SavedIsThere' /\ Files!OneCopyRemains'
      BY <1>1, <1>a, <2>2, <3>2 DEF Files!Open, SaveProgress, Files!NeverPartial, Files!SavedIsThere, Files!OneCopyRemains
    <3> QED BY <3>3, <3>4 DEF FilesSound
  <2> QED BY <1>1, <2>1, <2>2 DEF Files!Open
<1>2. CASE Files!Write
  <2>1. /\ disk' \in [Files!FileNames -> Contents] /\ disk'[Files!Target] = disk[Files!Target]
        /\ buffered' \in BOOLEAN /\ full' \in BOOLEAN /\ step' = "written" /\ full => full'
        /\ ~full' => buffered' \/ disk'[tmp] = version
    BY <1>2, <1>a, <1>b DEF Files!Write, FileTypes
  <2>2. FileTypes'
    BY <1>2, <1>a, <2>1 DEF Files!Write, FileTypes
  <2>3. SaveProgress' /\ Files!NeverPartial' /\ Files!SavedIsThere' /\ Files!OneCopyRemains'
    BY <1>2, <1>a, <2>1 DEF Files!Write, SaveProgress, Files!NeverPartial, Files!SavedIsThere, Files!OneCopyRemains
  <2> QED BY <2>2, <2>3 DEF FilesSound
<1>3. CASE Files!RemoveOld
  <2>1. CASE disk' = [disk EXCEPT ![Files!Target] = Files!Absent] /\ step' = "removed" /\ UNCHANGED <<result, buffered>>
    <3>1. disk' \in [Files!FileNames -> Contents] /\ disk'[Files!Target] = Files!Absent /\ disk'[tmp] = disk[tmp]
      BY <1>b, <2>1
    <3>2. FileTypes'
      BY <1>3, <1>a, <2>1, <3>1 DEF Files!RemoveOld, FileTypes
    <3>3. SaveProgress' /\ Files!NeverPartial' /\ Files!SavedIsThere' /\ Files!OneCopyRemains'
      BY <1>3, <1>a, <1>b, <2>1, <3>1 DEF Files!RemoveOld, SaveProgress, Files!NeverPartial, Files!SavedIsThere, Files!OneCopyRemains
    <3> QED BY <3>2, <3>3 DEF FilesSound
  <2>2. CASE /\ disk[Files!Target] # Files!Absent
             /\ disk' = [disk EXCEPT ![tmp] = Files!Absent] /\ Files!Return(FALSE) /\ buffered' = FALSE
    <3>1. disk' \in [Files!FileNames -> Contents] /\ disk'[Files!Target] = disk[Files!Target] /\ disk[Files!Target] \in Contents
      BY <1>b, <2>2
    <3>2. FileTypes'
      BY <1>3, <1>a, <2>2, <3>1 DEF Files!RemoveOld, Files!Return, FileTypes
    <3>3. ~full => disk'[Files!Target] > 0
      BY <1>a, <2>2, <3>1 DEF Files!NeverPartial, Contents, Files!Absent, Files!Partial
    <3>4. SaveProgress' /\ Files!NeverPartial' /\ Files!SavedIsThere' /\ Files!OneCopyRemains'
      BY <1>3, <1>a, <1>b, <2>2, <3>1, <3>3
         DEF Files!RemoveOld, Files!Return, SaveProgress, Files!NeverPartial, Files!SavedIsThere, Files!OneCopyRemains
    <3> QED BY <3>2, <3>4 DEF FilesSound
  <2> QED BY <1>3, <2>1, <2>2 DEF Files!RemoveOld
<1>4. CASE Files!Rename
  <2>1. /\ version > 0 /\ version # Files!Partial /\ disk[Files!Target] = Files!Absent
        /\ ~full => Files!Flushed[tmp] = version
    BY <1>4, <1>a, <1>b DEF Files!Rename, SaveProgress, Files!Flushed, Files!Partial
  <2>2. /\ Files!Flushed \in [Files!FileNames -> Contents] /\ Files!Flushed[Files!Target] = disk[Files!Target]
    BY <1>b DEF Files!Flushed
  <2>3. CASE disk' = Files!Moved /\ Files!Return(TRUE) /\ UNCHANGED full
    <3>1. disk' \in [Files!FileNames -> Contents] /\ disk'[Files!Target] = Files!Flushed[tmp]
      BY <1>b, <2>2, <2>3 DEF Files!Moved, Files!Renamed
    <3>2. FileTypes'
      BY <1>4, <1>a, <2>3, <3>1 DEF Files!Rename, Files!Return, FileTypes
    <3>3. SaveProgress' /\ Files!NeverPartial' /\ Files!SavedIsThere' /\ Files!OneCopyRemains'
      BY <1>4, <1>a, <1>b, <2>1, <2>3, <3>1
         DEF Files!Rename, Files!Return, SaveProgress, Files!NeverPartial, Files!SavedIsThere, Files!OneCopyRemains
    <3> QED BY <3>2, <3>3 DEF FilesSound
  <2>4. CASE disk' = Files!Left /\ Files!Return(FALSE) /\ UNCHANGED full
    <3>1. disk' = Files!Flushed
      BY <2>4 DEF Files!Left
    <3>2. FileTypes'
      BY <1>4, <1>a, <2>2, <2>4, <3>1 DEF Files!Rename, Files!Return, FileTypes
    <3>3. SaveProgress' /\ Files!NeverPartial' /\ Files!SavedIsThere' /\ Files!OneCopyRemains'
      BY <1>4, <1>a, <1>b, <2>1, <2>2, <2>4, <3>1
         DEF Files!Rename, Files!Return, SaveProgress, Files!NeverPartial, Files!SavedIsThere, Files!OneCopyRemains
    <3> QED BY <3>2, <3>3 DEF FilesSound
  <2>5. CASE buffered /\ full' = TRUE /\ Files!Return(FALSE) /\ UNCHANGED disk
    <3>1. FileTypes'
      BY <1>4, <1>a, <2>5 DEF Files!Rename, Files!Return, FileTypes
    <3>2. SaveProgress' /\ Files!NeverPartial' /\ Files!SavedIsThere' /\ Files!OneCopyRemains'
      BY <1>4, <1>a, <2>5 DEF Files!Rename, Files!Return, SaveProgress, Files!NeverPartial, Files!SavedIsThere, Files!OneCopyRemains
    <3> QED BY <3>1, <3>2 DEF FilesSound
  <2> QED BY <1>4, <2>3, <2>4, <2>5 DEF Files!Rename
<1>5. CASE Files!EndProgram
  <2>1. FileTypes'
    <3>1. ended' \in Nat
      BY <1>5, <1>a DEF Files!EndProgram, FileTypes
    <3>2. buffered' = FALSE /\ result' = FALSE /\ full' = full /\ step' = "idle"
      BY <1>5 DEF Files!EndProgram
    <3>3. disk' = disk /\ tmp' = tmp /\ version' = version /\ read' \in Contents
      BY <1>5, <1>b DEF Files!EndProgram
    <3> QED BY <1>a, <3>1, <3>2, <3>3, Zenon DEF FileTypes
  <2>2. ended' # 0
    BY <1>5, <1>a DEF Files!EndProgram, FileTypes
  <2>3. SaveProgress' /\ Files!NeverPartial' /\ Files!SavedIsThere' /\ Files!OneCopyRemains'
    BY <1>5, <1>a, <2>2 DEF Files!EndProgram, SaveProgress, Files!NeverPartial, Files!SavedIsThere, Files!OneCopyRemains
  <2> QED BY <2>1, <2>3 DEF FilesSound
<1>6. CASE Files!Load
  <2>1. FileTypes'
    BY <1>6, <1>a, <1>b DEF Files!Load, FileTypes
  <2>2. SaveProgress' /\ Files!NeverPartial' /\ Files!SavedIsThere' /\ Files!OneCopyRemains'
    BY <1>6, <1>a DEF Files!Load, SaveProgress, Files!NeverPartial, Files!SavedIsThere, Files!OneCopyRemains
  <2> QED BY <2>1, <2>2 DEF FilesSound
<1>7. CASE UNCHANGED fileVars
  BY <1>7, <1>a DEF fileVars, FilesSound, FileTypes, SaveProgress, Files!NeverPartial, Files!SavedIsThere, Files!OneCopyRemains
<1> QED BY <1>1, <1>2, <1>3, <1>4, <1>5, <1>6, <1>7 DEF Files!Next

-----------------------------------------------------------------------------
(* The saving of files is all that happens to them.                          *)
FilesRun == subject = "files" => FilesSound

LEMMA FilesBounded == Files!Bounds
BY DataPartsAssumption DEF Files!Bounds

LEMMA FilesInvariant == Spec => []FilesRun
<1>1. Init => FilesRun
  BY FilesBounded, FilesInit DEF Init, FilesRun
<1>2. FilesRun /\ [Next]_vars => FilesRun'
  <2> SUFFICES ASSUME FilesRun, [Next]_vars, subject' = "files" PROVE FilesSound'
    BY DEF FilesRun
  <2>1. subject = "files" /\ [Files!Next]_fileVars
    BY DEF Next, vars, keepVars, SettingsStep, SerialStep, FrameStep, MsgFilesStep, FilesStep, NumberStep, TextStep,
           MemberStep
  <2> QED BY <2>1, FilesBounded, FilesNext DEF FilesRun
<1> QED BY <1>1, <1>2, PTL DEF Spec

(* Whenever the program ends, and whatever fails (a full disk aside), there   *)
(* is no file of that name or all of one, what was reported as saved is there, *)
(* and a save that fails leaves the old contents or the new ones              *)
(* (ToolsConfigMgr::saveConfig(), ToolsMsgFileMgr::save()).                   *)
THEOREM FilesAreSafe == Spec => []FilesSurvive
<1>1. FilesRun => FilesSurvive
  BY DEF FilesRun, FilesSound, FilesSurvive
<1> QED BY <1>1, FilesInvariant, PTL

(* What an earlier program left behind under a temporary name is not written   *)
(* over (the loop at the beginning of saveConfig()).                          *)
THEOREM NothingOverwritten == Spec => [][subject = "files" => Files!LeftoversStayStep]_vars
<1>1. ASSUME FilesRun, Next PROVE subject = "files" => Files!LeftoversStayStep
  <2> SUFFICES ASSUME subject = "files", NEW n \in Files!FileNames \ {Files!Target}, step = "idle", disk[n] # Files!Absent
               PROVE  disk'[n] = disk[n]
    BY DEF Files!LeftoversStayStep
  <2>1. Files!Next /\ FilesSound
    BY <1>1 DEF Next, SettingsStep, SerialStep, FrameStep, MsgFilesStep, FilesStep, NumberStep, TextStep, MemberStep,
                FilesRun
  <2>2. CASE Files!Open
    <3>1. CASE UNCHANGED disk
      BY <3>1
    <3>2. CASE disk' = [disk EXCEPT ![Files!TmpName] = Files!Partial]
      <4>1. Files!TmpName \in Files!FileNames \ {Files!Target} /\ disk[Files!TmpName] = Files!Absent
        BY <2>1, <2>2, FilesBounded, TmpNameIsFree DEF Files!Open, FilesSound
      <4> QED BY <2>1, <3>2, <4>1 DEF FilesSound, FileTypes
    <3> QED BY <2>2, <3>1, <3>2 DEF Files!Open
  <2>3. CASE Files!Load
    BY <2>3 DEF Files!Load
  <2> QED BY <2>1, <2>2, <2>3 DEF Files!Next, Files!Write, Files!RemoveOld, Files!Rename, Files!EndProgram
<1>2. FilesRun /\ [Next]_vars => [subject = "files" => Files!LeftoversStayStep]_vars
  BY <1>1
<1> QED BY <1>2, FilesInvariant, PTL DEF Spec

-----------------------------------------------------------------------------
(* The name of the serial device.  The line always has the name; the list is   *)
(* visible unless editing is forced, and then it has the name too.            *)
SerialRuns ==
  subject = "serial" /\ open =>
    /\ text = name /\ (editMode <=> forced)
    /\ ~editMode => current = name /\ name \in items
    /\ ~enabled => editMode

SerialBoolean == forced \in BOOLEAN /\ checked \in BOOLEAN

LEMMA SerialRefreshed ==
  ASSUME NEW force \in BOOLEAN, NEW pressed, Serial!Refresh(force, pressed), text' = name'
  PROVE  SerialRuns'
BY DEF Serial!Refresh, SerialRuns

LEMMA SerialNext ==
  ASSUME SerialRuns, SerialBoolean, Serial!Next, subject = "serial"
  PROVE  SerialRuns' /\ SerialBoolean'
<1>1. CASE Serial!Open
  <2>1. Serial!Refresh(FALSE, FALSE) /\ text' = name'
    BY <1>1 DEF Serial!Open
  <2> QED BY <2>1, SerialRefreshed DEF SerialBoolean, Serial!Refresh
<1>2. CASE Serial!Close
  BY <1>2 DEF Serial!Close, SerialRuns, SerialBoolean
<1>3. ASSUME NEW n, Serial!Type(n) PROVE SerialRuns' /\ SerialBoolean'
  <2>1. Serial!Refresh(forced, checked) /\ text' = name'
    BY <1>3 DEF Serial!Type
  <2> QED BY <2>1, SerialRefreshed DEF SerialBoolean, Serial!Refresh
<1>4. ASSUME NEW n, Serial!Pick(n) PROVE SerialRuns' /\ SerialBoolean'
  BY <1>4 DEF Serial!Pick, Serial!Picked, SerialRuns, SerialBoolean
<1>5. CASE Serial!RefreshClicked
  <2>1. Serial!Refresh(forced, checked) /\ text' = name'
    BY <1>5 DEF Serial!RefreshClicked, SerialRuns
  <2> QED BY <2>1, SerialRefreshed DEF SerialBoolean, Serial!Refresh
<1>6. CASE Serial!EditToggled
  <2>1. Serial!Refresh(~checked, ~checked) /\ text' = name'
    BY <1>6 DEF Serial!EditToggled, SerialRuns
  <2> QED BY <2>1, SerialRefreshed DEF SerialBoolean, Serial!Refresh
<1>7. ASSUME NEW n, Serial!Plug(n) PROVE SerialRuns' /\ SerialBoolean'
  BY <1>7 DEF Serial!Plug, Serial!widgetVars, SerialRuns, SerialBoolean
<1> QED BY <1>1, <1>2, <1>3, <1>4, <1>5, <1>6, <1>7 DEF Serial!Next

LEMMA SerialInvariant == Spec => [](SerialRuns /\ SerialBoolean)
<1>1. Init => SerialRuns /\ SerialBoolean
  BY DEF Init, Serial!Init, SerialRuns, SerialBoolean
<1>2. SerialRuns /\ SerialBoolean /\ [Next]_vars => SerialRuns' /\ SerialBoolean'
  <2> SUFFICES ASSUME SerialRuns, SerialBoolean, [Next]_vars PROVE SerialRuns' /\ SerialBoolean'
    OBVIOUS
  <2>1. CASE SerialStep /\ UNCHANGED subject
    BY <2>1, SerialNext DEF SerialStep
  <2>2. CASE UNCHANGED <<subject, serialVars>>
    BY <2>2 DEF serialVars, SerialRuns, SerialBoolean
  <2>3. (SerialStep /\ UNCHANGED subject) \/ UNCHANGED <<subject, serialVars>>
    BY DEF Next, vars, keepVars, SettingsStep, FrameStep, MsgFilesStep, FilesStep, NumberStep, TextStep, MemberStep
  <2> QED BY <2>1, <2>2, <2>3
<1> QED BY <1>1, <1>2, PTL DEF Spec

LEMMA SerialIsRight == SerialRuns => (subject = "serial" => Serial!VisibleIsUsed)
BY DEF SerialRuns, Serial!VisibleIsUsed

-----------------------------------------------------------------------------
(* The settings of the sockets.  What the plug-ins have in common: there is a  *)
(* box for every setting, other plug-ins ask by one key at least for a setting *)
(* that is there, and all but the SSL client save what they have.             *)
LEMMA PluginFacts ==
  ASSUME plugin \in Settings!Plugins
  PROVE  /\ Settings!Own # {} /\ DOMAIN Settings!Keys \subseteq Settings!Own
         /\ plugin # "ssl_client" => Settings!Stored = Settings!Own
         /\ "baud" \in Settings!Own <=> plugin = "serial"
<1>1. plugin \in {"tcp_server", "tcp_client", "tcp_proxy", "udp_generic", "udp_proxy", "serial", "ssl_client"}
  BY DEF Settings!Plugins, Settings!WidgetOf
<1>2. CASE plugin = "tcp_server"
  BY <1>2 DEF Settings!Own, Settings!WidgetOf, Settings!Keys, Settings!Stored, Settings!TcpServerWidget,
              Settings!TcpServerKeys, Settings!TcpServerStored
<1>3. CASE plugin = "tcp_client"
  BY <1>3 DEF Settings!Own, Settings!WidgetOf, Settings!Keys, Settings!Stored, Settings!TcpClientWidget,
              Settings!TcpClientKeys, Settings!TcpClientStored
<1>4. CASE plugin = "tcp_proxy"
  BY <1>4 DEF Settings!Own, Settings!WidgetOf, Settings!Keys, Settings!Stored, Settings!TcpProxyWidget,
              Settings!TcpProxyKeys, Settings!TcpProxyStored
<1>5. CASE plugin = "udp_generic"
  BY <1>5 DEF Settings!Own, Settings!WidgetOf, Settings!Keys, Settings!Stored, Settings!UdpGenericWidget,
              Settings!UdpGenericKeys, Settings!UdpGenericStored
<1>6. CASE plugin = "udp_proxy"
  BY <1>6 DEF Settings!Own, Settings!WidgetOf, Settings!Keys, Settings!Stored, Settings!UdpProxyWidget,
              Settings!UdpProxyKeys, Settings!UdpProxyStored
<1>7. CASE plugin = "serial"
  BY <1>7 DEF Settings!Own, Settings!WidgetOf, Settings!Keys, Settings!Stored, Settings!SerialWidget,
              Settings!SerialLists, Settings!SerialBoxes, Settings!Nothing, Settings!SerialStored
<1>8. CASE plugin = "ssl_client"
  BY <1>8 DEF Settings!Own, Settings!WidgetOf, Settings!Keys, Settings!Stored, Settings!SslWidget,
              Settings!SslLists, Settings!SslLines, Settings!SslKeys
<1> QED BY <1>1, <1>2, <1>3, <1>4, <1>5, <1>6, <1>7, <1>8

LEMMA SerialFacts ==
  ASSUME plugin = "serial"
  PROVE  DOMAIN Settings!Keys = {} /\ \A s \in Settings!Own : Settings!BoxRange(s) = {0, 1}
BY DEF Settings!Own, Settings!BoxRange, Settings!WidgetOf, Settings!SerialWidget, Settings!Keys, Settings!Nothing

(* Each setting that others may ask for has a list of keys.                   *)
Listing(keys) == Len(keys) \in Nat \ {0} /\ DOMAIN keys = 1..Len(keys)

LEMMA Listings ==
  ASSUME NEW a, NEW b, NEW c, NEW d
  PROVE  Listing(<<a>>) /\ Listing(<<a, b>>) /\ Listing(<<a, b, c, d>>)
BY DEF Listing

LEMMA KeysAreListed ==
  ASSUME plugin \in Settings!Plugins, NEW s \in DOMAIN Settings!Keys
  PROVE  Listing(Settings!Keys[s])
<1>0. \A own : Listing(Settings!Host(own)) /\ Listing(Settings!Port(own)) /\ Listing(Settings!LocalPort(own))
  BY Listings DEF Settings!Host, Settings!Port, Settings!LocalPort
<1>1. plugin \in {"tcp_server", "tcp_client", "tcp_proxy", "udp_generic", "udp_proxy", "serial", "ssl_client"}
  BY DEF Settings!Plugins, Settings!WidgetOf
<1>2. CASE plugin = "tcp_server"
  <2>1. Settings!Keys = Settings!TcpServerKeys
    BY <1>2 DEF Settings!Keys
  <2>2. s = "port" /\ Settings!Keys[s] = <<"network.local_port", "network.port", "tcp.local_port", "tcp.port">>
    BY <2>1 DEF Settings!TcpServerKeys
  <2> QED BY <2>2, Listings
<1>3. CASE plugin = "tcp_client"
  <2>1. Settings!Keys = Settings!TcpClientKeys
    BY <1>3 DEF Settings!Keys
  <2>2. Settings!Keys[s] \in {Settings!Host("tcp.host"), Settings!Port("tcp.port")}
    BY <2>1 DEF Settings!TcpClientKeys
  <2> QED BY <1>0, <2>2
<1>4. CASE plugin = "tcp_proxy"
  <2>1. Settings!Keys = Settings!TcpProxyKeys
    BY <1>4 DEF Settings!Keys
  <2>2. Settings!Keys[s] \in {Settings!Host("tcp.host"), Settings!Port("tcp.port"), Settings!LocalPort("tcp.local_port")}
    BY <2>1 DEF Settings!TcpProxyKeys
  <2> QED BY <1>0, <2>2
<1>5. CASE plugin = "udp_generic"
  <2>1. Settings!Keys = Settings!UdpGenericKeys
    BY <1>5 DEF Settings!Keys
  <2>2. Settings!Keys[s] \in {Settings!Host("udp.host"), <<"network.broadcast_mask", "udp.broadcast_mask">>,
                             <<"network.port", "udp.port", "network.local_port", "udp.local_port">>}
    BY <2>1 DEF Settings!UdpGenericKeys
  <2> QED BY <1>0, <2>2, Listings
<1>6. CASE plugin = "udp_proxy"
  <2>1. Settings!Keys = Settings!UdpProxyKeys
    BY <1>6 DEF Settings!Keys
  <2>2. s \in {"host", "port", "localPort"}
    BY <2>1 DEF Settings!UdpProxyKeys
  <2>3. /\ Settings!Keys["host"] = Settings!Host("udp.host") /\ Settings!Keys["port"] = Settings!Port("udp.port")
        /\ Settings!Keys["localPort"] = Settings!LocalPort("udp.local_port")
    BY <2>1 DEF Settings!UdpProxyKeys
  <2> QED BY <1>0, <2>2, <2>3
<1>7. CASE plugin = "serial"
  BY <1>7, SerialFacts
<1>8. CASE plugin = "ssl_client"
  <2>1. Settings!Keys = Settings!SslKeys
    BY <1>8 DEF Settings!Keys
  <2>2. s \in {"host", "port", "verifyName"}
    BY <2>1 DEF Settings!SslKeys
  <2>3. /\ Settings!Keys["host"] = Settings!Host("ssl.host") /\ Settings!Keys["port"] = Settings!Port("ssl.port")
        /\ Settings!Keys["verifyName"] = <<"ssl.verify_name">>
    BY <2>1 DEF Settings!SslKeys
  <2> QED BY <1>0, <2>2, <2>3, Listings
<1> QED BY <1>1, <1>2, <1>3, <1>4, <1>5, <1>6, <1>7, <1>8

(* A key overrides the others when none of those behind it is there.          *)
LEMMA KeyWins ==
  ASSUME NEW keys, Listing(keys), NEW props, NEW n \in 1 .. Len(keys), keys[n] \in DOMAIN props,
         \A k \in n + 1 .. Len(keys) : keys[k] \notin DOMAIN props, NEW v
  PROVE  Settings!Override(v, keys, props) = props[keys[n]]
<1> DEFINE there == {k \in DOMAIN keys : keys[k] \in DOMAIN props}
<1>1. n \in there /\ n \in Nat /\ there \subseteq 1 .. n
  BY DEF Listing
<1> HIDE DEF there
<1>2. ASSUME NEW x \in there, \A y \in there : x >= y PROVE x = n
  <2>1. x >= n /\ x \in 1 .. n
    BY <1>1, <1>2
  <2> QED BY <1>1, <2>1
<1>3. \A y \in there : n >= y
  BY <1>1
<1>4. Settings!Max(there) = n
  BY <1>1, <1>2, <1>3 DEF Settings!Max
<1>5. there # {}
  BY <1>1
<1> QED BY <1>4, <1>5 DEF there, Settings!Override

(* The closest key overrides the others, but for the port of the generic UDP    *)
(* socket when its local port is asked for.                                   *)
LEMMA ClosestIsTaken ==
  ASSUME plugin \in Settings!Plugins, NEW s \in DOMAIN Settings!Keys, NEW props, NEW v,
         Settings!Closest(s) \in DOMAIN props,
         Settings!UdpPort(s) => Settings!LocalPortKeys \cap DOMAIN props = {}
  PROVE  Settings!Override(v, Settings!Keys[s], props) = props[Settings!Closest(s)]
<1> DEFINE keys == Settings!Keys[s]
<1>1. Listing(keys)
  BY KeysAreListed
<1>2. CASE Settings!UdpPort(s)
  <2>1. keys = <<"network.port", "udp.port", "network.local_port", "udp.local_port">> /\ Settings!Closest(s) = keys[2]
    BY <1>2 DEF Settings!UdpPort, Settings!Keys, Settings!UdpGenericKeys, Settings!Closest
  <2>2. \A k \in 2 + 1 .. Len(keys) : keys[k] \in Settings!LocalPortKeys
    BY <2>1 DEF Settings!LocalPortKeys
  <2>3. 2 \in 1 .. Len(keys) /\ keys[2] \in DOMAIN props /\ \A k \in 2 + 1 .. Len(keys) : keys[k] \notin DOMAIN props
    BY <1>2, <2>1, <2>2
  <2> HIDE DEF keys
  <2>4. Settings!Override(v, keys, props) = props[keys[2]]
    BY <1>1, <2>3, KeyWins
  <2> QED BY <2>1, <2>4 DEF keys
<1>3. CASE ~Settings!UdpPort(s)
  <2>1. Settings!Closest(s) = keys[Len(keys)]
    BY <1>3 DEF Settings!Closest
  <2> HIDE DEF keys
  <2>2. Len(keys) \in 1 .. Len(keys) /\ \A k \in Len(keys) + 1 .. Len(keys) : FALSE
    BY <1>1 DEF Listing
  <2>3. Settings!Override(v, keys, props) = props[keys[Len(keys)]]
    BY <1>1, <2>1, <2>2, KeyWins
  <2> QED BY <2>1, <2>3 DEF keys
<1> QED BY <1>2, <1>3

LEMMA LocalPortIsTaken ==
  ASSUME plugin = "udp_generic", NEW props, NEW v, "udp.local_port" \in DOMAIN props
  PROVE  /\ "port" \in DOMAIN Settings!Keys
         /\ Settings!Override(v, Settings!Keys["port"], props) = props["udp.local_port"]
<1> DEFINE keys == Settings!Keys["port"]
<1>1. "port" \in DOMAIN Settings!Keys /\ keys = <<"network.port", "udp.port", "network.local_port", "udp.local_port">>
  BY DEF Settings!Keys, Settings!UdpGenericKeys
<1>2. Listing(keys) /\ Len(keys) = 4 /\ keys[4] = "udp.local_port"
  BY <1>1 DEF Listing
<1> HIDE DEF keys
<1>3. 4 \in 1 .. Len(keys) /\ \A k \in 4 + 1 .. Len(keys) : FALSE
  BY <1>2
<1>4. Settings!Override(v, keys, props) = props[keys[4]]
  BY <1>2, <1>3, KeyWins
<1> QED BY <1>1, <1>2, <1>4 DEF keys

(* A box bounds what was bounded to the same.                                *)
LEMMA BoundedTwice ==
  ASSUME NEW s, NEW v
  PROVE  Settings!Bounded(s, Settings!Bounded(s, v)) = Settings!Bounded(s, v)
BY DEF Settings!Bounded

(* A value that the box has is shown as it is.                               *)
LEMMA InRangeIsShown ==
  ASSUME plugin \in Settings!Plugins, NEW s \in Settings!Own, NEW v, v \in Settings!BoxRange(s)
  PROVE  Settings!Bounded(s, v) = v
<1>1. ~(v = 0 /\ Settings!BoxRange(s) = Settings!TcpPort)
  BY DataPartsAssumption DEF Settings!TcpPort
<1>2. s = "baud" => v \in {0, 1}
  BY PluginFacts, SerialFacts
<1> QED BY <1>1, <1>2 DEF Settings!Bounded

LEMMA ClosedHasNothing ==
  ASSUME NEW f, NEW s \in DOMAIN f
  PROVE  f # Settings!Closed /\ f # Settings!Nothing
BY DEF Settings!Closed, Settings!Nothing

(* The invariant of the settings: socket, widget and a saved configuration      *)
(* have the settings of the plug-in, what the file has after a save is what was *)
(* saved, and the serial port has only values its lists and boxes know.        *)
Small(c) == plugin = "serial" => \A s \in DOMAIN c : c[s] \in {0, 1, 2}

Kept(c) == DOMAIN c = Settings!Own /\ Small(c)

SavedIsInFile ==
  confSaved # Settings!Nothing =>
    Kept(confSaved) /\ conf = [s \in Settings!Stored |-> confSaved[s]]

FileIsKnown == plugin = "serial" => \A s \in DOMAIN conf : conf[s] \in {0, 1, 2, Settings!Damaged}

WidgetIsWhole == shown = Settings!Closed \/ DOMAIN shown = Settings!Own

SettingsSound ==
  /\ plugin \in Settings!Plugins /\ Kept(config) /\ WidgetIsWhole /\ SavedIsInFile /\ FileIsKnown
  /\ Settings!RestoresSaved /\ Settings!ShownIsSet /\ Settings!ClosestKeyWins

SettingsRun == subject = "settings" => SettingsSound

LEMMA ShownAfresh ==
  ASSUME plugin \in Settings!Plugins, NEW c, DOMAIN c = Settings!Own
  PROVE  /\ DOMAIN Settings!Shown(c) = Settings!Own
         /\ \A s \in Settings!Own : c[s] \in Settings!BoxRange(s) => Settings!Shown(c)[s] = c[s]
BY InRangeIsShown DEF Settings!Shown

(* Nothing was asked for and nothing was restored in most of the steps.        *)
LEMMA NothingAsked ==
  ASSUME asked = Settings!Nothing
  PROVE  Settings!ClosestKeyWins
<1>1. DOMAIN asked = {}
  BY DEF Settings!Nothing
<1> QED BY <1>1 DEF Settings!ClosestKeyWins

LEMMA NothingNow ==
  ASSUME restored' = FALSE, asked' = Settings!Nothing
  PROVE  Settings!RestoresSaved' /\ Settings!ClosestKeyWins'
<1>1. DOMAIN asked' = {}
  BY DEF Settings!Nothing
<1> QED BY <1>1 DEF Settings!RestoresSaved, Settings!ClosestKeyWins

LEMMA SettingsInit == Init => SettingsRun
<1> SUFFICES ASSUME Init, subject = "settings" PROVE SettingsSound
  BY DEF SettingsRun
<1>1. /\ plugin \in Settings!Plugins /\ config = [s \in Settings!Own |-> Settings!Bounded(s, 0)]
      /\ shown = Settings!Closed /\ conf = Settings!Nothing /\ confSaved = Settings!Nothing
      /\ restored = FALSE /\ asked = Settings!Nothing /\ untold = {}
  BY DEF Init, Settings!Init
<1>2. Kept(config)
  BY <1>1 DEF Kept, Small, Settings!Bounded
<1>3. WidgetIsWhole /\ SavedIsInFile /\ Settings!ShownIsSet /\ Settings!RestoresSaved
  BY <1>1 DEF WidgetIsWhole, SavedIsInFile, Settings!ShownIsSet, Settings!RestoresSaved
<1>4. \A f : f = Settings!Nothing => \A s \in DOMAIN f : FALSE
  BY DEF Settings!Nothing
<1>5. FileIsKnown /\ Settings!ClosestKeyWins
  BY <1>1, <1>4, NothingAsked DEF FileIsKnown
<1> QED BY <1>1, <1>2, <1>3, <1>5 DEF SettingsSound

-----------------------------------------------------------------------------
(* The steps, one after the other.                                           *)
LEMMA WidgetOpens ==
  ASSUME SettingsSound, Settings!Open PROVE SettingsSound'
<1>1. /\ shown' = Settings!Shown(config) /\ restored' = FALSE /\ asked' = Settings!Nothing /\ untold' = {}
      /\ UNCHANGED <<plugin, config, conf, confSaved>>
  BY DEF Settings!Open
<1>2. DOMAIN config = Settings!Own
  BY DEF SettingsSound, Kept
<1>3. Settings!Own' = Settings!Own /\ \A s : Settings!BoxRange(s)' = Settings!BoxRange(s)
  BY <1>1 DEF Settings!Own, Settings!BoxRange
<1>4. WidgetIsWhole' /\ Settings!ShownIsSet'
  BY <1>1, <1>2, <1>3, ShownAfresh DEF SettingsSound, WidgetIsWhole, Settings!ShownIsSet
<1>5. Settings!RestoresSaved' /\ Settings!ClosestKeyWins'
  BY <1>1, NothingNow
<1> QED BY <1>1, <1>4, <1>5 DEF SettingsSound, Kept, Small, SavedIsInFile, FileIsKnown, Settings!Own, Settings!Stored

LEMMA WidgetCloses ==
  ASSUME SettingsSound, Settings!Close PROVE SettingsSound'
<1>1. /\ shown' = Settings!Closed /\ restored' = FALSE /\ asked' = Settings!Nothing /\ untold' = {}
      /\ UNCHANGED <<plugin, config, conf, confSaved>>
  BY DEF Settings!Close
<1>2. WidgetIsWhole' /\ Settings!ShownIsSet'
  BY <1>1 DEF WidgetIsWhole, Settings!ShownIsSet, Settings!Closed, Settings!Nothing
<1>3. Settings!RestoresSaved' /\ Settings!ClosestKeyWins'
  BY <1>1, NothingNow
<1> QED BY <1>1, <1>2, <1>3 DEF SettingsSound, Kept, Small, SavedIsInFile, FileIsKnown, Settings!Own, Settings!Stored

LEMMA BoxIsEdited ==
  ASSUME SettingsSound, NEW r \in Settings!Own, Settings!Edit(r) PROVE SettingsSound'
<1>1. PICK v \in Settings!BoxRange(r) : shown' = [shown EXCEPT ![r] = v] /\ config' = [config EXCEPT ![r] = v]
  BY DEF Settings!Edit
<1>2. /\ shown # Settings!Closed /\ restored' = FALSE /\ asked' = Settings!Nothing /\ untold' = untold \ {r}
      /\ UNCHANGED <<plugin, conf, confSaved>>
  BY DEF Settings!Edit
<1>3. DOMAIN config = Settings!Own /\ DOMAIN shown = Settings!Own
  BY <1>2 DEF SettingsSound, Kept, WidgetIsWhole
<1>4. /\ DOMAIN config' = Settings!Own /\ DOMAIN shown' = Settings!Own
      /\ config'[r] = v /\ shown'[r] = v
      /\ \A s \in Settings!Own : s # r => config'[s] = config[s] /\ shown'[s] = shown[s]
  BY <1>1, <1>3
<1>5. Settings!Own' = Settings!Own /\ \A s : Settings!BoxRange(s)' = Settings!BoxRange(s)
  BY <1>2 DEF Settings!Own, Settings!BoxRange
<1>6. Kept(config)'
  <2>1. plugin = "serial" => v \in {0, 1}
    BY SerialFacts
  <2> QED BY <1>2, <1>3, <1>4, <1>5, <2>1 DEF SettingsSound, Kept, Small
<1>7. WidgetIsWhole' /\ Settings!ShownIsSet'
  <2>1. \A s \in Settings!Own \ untold : config[s] \in Settings!BoxRange(s) => shown[s] = config[s]
    BY <1>2 DEF SettingsSound, Settings!ShownIsSet
  <2>2. Settings!Listens => untold = {}
    BY DEF SettingsSound, Settings!ShownIsSet
  <2> QED BY <1>2, <1>4, <1>5, <2>1, <2>2 DEF WidgetIsWhole, Settings!ShownIsSet, Settings!Listens
<1>8. Settings!RestoresSaved' /\ Settings!ClosestKeyWins'
  BY <1>2, NothingNow
<1> QED BY <1>2, <1>6, <1>7, <1>8 DEF SettingsSound, Kept, Small, SavedIsInFile, FileIsKnown, Settings!Own, Settings!Stored

LEMMA ConfigurationIsSaved ==
  ASSUME SettingsSound, Settings!Save PROVE SettingsSound'
<1>1. /\ conf' = [s \in Settings!Stored |-> config[s]] /\ confSaved' = config
      /\ restored' = FALSE /\ asked' = Settings!Nothing /\ UNCHANGED <<plugin, config, shown, untold>>
  BY DEF Settings!Save
<1>2. Kept(confSaved)' /\ SavedIsInFile'
  BY <1>1 DEF SettingsSound, Kept, Small, SavedIsInFile, Settings!Own, Settings!Stored
<1>3. FileIsKnown'
  <2>1. plugin = "serial" => Settings!Stored = Settings!Own
    BY PluginFacts DEF SettingsSound
  <2> QED BY <1>1, <2>1 DEF SettingsSound, Kept, Small, FileIsKnown
<1>4. Settings!RestoresSaved' /\ Settings!ClosestKeyWins'
  BY <1>1, NothingNow
<1>5. WidgetIsWhole' /\ Settings!ShownIsSet'
  BY <1>1 DEF SettingsSound, WidgetIsWhole, Settings!ShownIsSet, Settings!Own, Settings!BoxRange, Settings!Listens
<1> QED BY <1>1, <1>2, <1>3, <1>4, <1>5 DEF SettingsSound, Kept, Small, Settings!Own

LEMMA FileIsEdited ==
  ASSUME SettingsSound, NEW r, Settings!EditFile(r) PROVE SettingsSound'
<1>1. /\ confSaved' = Settings!Nothing /\ restored' = FALSE /\ asked' = Settings!Nothing
      /\ UNCHANGED <<plugin, config, shown, untold>>
  BY DEF Settings!EditFile
<1>2. FileIsKnown'
  <2> SUFFICES ASSUME plugin = "serial" PROVE \A s \in DOMAIN conf' : conf'[s] \in {0, 1, 2, Settings!Damaged}
    BY <1>1 DEF FileIsKnown
  <2>1. \A s \in DOMAIN conf : conf[s] \in {0, 1, 2, Settings!Damaged}
    BY DEF SettingsSound, FileIsKnown
  <2>2. r \in DOMAIN conf
    BY DEF Settings!EditFile
  <2>3. \/ conf' = [s \in DOMAIN conf \ {r} |-> conf[s]]
        \/ \E v \in {0, 2, Settings!Damaged} : conf' = [conf EXCEPT ![r] = v]
    BY DEF Settings!EditFile
  <2> QED BY <2>1, <2>2, <2>3
<1>3. SavedIsInFile'
  BY <1>1 DEF SavedIsInFile, Settings!Nothing
<1>4. Settings!RestoresSaved' /\ Settings!ClosestKeyWins'
  BY <1>1, NothingNow
<1>5. WidgetIsWhole' /\ Settings!ShownIsSet'
  BY <1>1 DEF SettingsSound, WidgetIsWhole, Settings!ShownIsSet, Settings!Own, Settings!BoxRange, Settings!Listens
<1> QED BY <1>1, <1>2, <1>3, <1>4, <1>5 DEF SettingsSound, Kept, Small, Settings!Own

(* What is taken from a file that is as it was saved.                         *)
LEMMA OnlySslHasKeys ==
  ASSUME plugin \in {"tcp_server", "tcp_client", "tcp_proxy", "udp_generic", "udp_proxy", "serial"}
  PROVE  "privKeyFile" \notin Settings!Own
BY DEF Settings!Own, Settings!WidgetOf, Settings!TcpServerWidget, Settings!TcpClientWidget, Settings!TcpProxyWidget,
       Settings!UdpGenericWidget, Settings!UdpProxyWidget, Settings!SerialWidget, Settings!SerialLists,
       Settings!SerialBoxes

LEMMA TakenIsSaved ==
  ASSUME SettingsSound, confSaved # Settings!Nothing, plugin # "ssl_client", NEW s \in Settings!Own
  PROVE  /\ \/ s \in DOMAIN Settings!Taken /\ Settings!Taken[s] = confSaved[s]
            \/ s = "baud" /\ confSaved[s] = 0
         /\ s # "privKeyFile"
<1>7. plugin \in {"tcp_server", "tcp_client", "tcp_proxy", "udp_generic", "udp_proxy", "serial"}
  BY DEF SettingsSound, Settings!Plugins, Settings!WidgetOf
<1> SUFFICES \/ s \in DOMAIN Settings!Taken /\ Settings!Taken[s] = confSaved[s]
             \/ s = "baud" /\ confSaved[s] = 0
  BY <1>7, OnlySslHasKeys
<1>1. DOMAIN conf = Settings!Own /\ Settings!Stored = Settings!Own /\ conf[s] = confSaved[s]
  BY PluginFacts DEF SettingsSound, SavedIsInFile
<1>2. plugin = "serial" => confSaved[s] \in {0, 1, 2}
  BY DEF SettingsSound, SavedIsInFile, Kept, Small
<1>3. CASE plugin = "tcp_server"
  <2>1. Settings!Taken = Settings!TcpServerTaken /\ Settings!Stored = Settings!TcpServerStored
    BY <1>3 DEF Settings!Taken, Settings!Stored
  <2> QED BY <1>1, <2>1 DEF Settings!TcpServerTaken
<1>4. CASE plugin = "tcp_proxy"
  <2>1. Settings!Taken = Settings!TcpProxyTaken /\ Settings!Stored = Settings!TcpProxyStored
    BY <1>4 DEF Settings!Taken, Settings!Stored
  <2> QED BY <1>1, <2>1 DEF Settings!TcpProxyTaken
<1>5. CASE plugin \in {"tcp_client", "udp_generic", "udp_proxy"}
  <2>1. Settings!Taken = conf
    BY <1>5 DEF Settings!Taken, Settings!TcpClientTaken, Settings!UdpGenericTaken, Settings!UdpProxyTaken
  <2> QED BY <1>1, <2>1
<1>6. CASE plugin = "serial"
  <2>1. Settings!Taken = Settings!SerialTaken
    BY <1>6 DEF Settings!Taken
  <2>2. conf[s] \in {0, 1, 2}
    BY <1>1, <1>2, <1>6
  <2>3. Settings!Valid(s) \/ (s = "baud" /\ conf[s] = 0)
    BY <2>2 DEF Settings!Valid, Settings!Damaged
  <2> QED BY <1>1, <2>1, <2>3 DEF Settings!SerialTaken
<1> QED BY <1>3, <1>4, <1>5, <1>6, <1>7

LEMMA SslTakesSaved ==
  ASSUME SettingsSound, confSaved # Settings!Nothing, plugin = "ssl_client", NEW s \in Settings!Own, s # "privKeyPass"
  PROVE  /\ s \in DOMAIN Settings!Taken /\ s # "baud"
         /\ Settings!Taken[s] = confSaved[IF s = "privKeyFile" THEN "certFile" ELSE s]
<1>1. Settings!Own = DOMAIN Settings!SslWidget /\ Settings!Stored = Settings!Own \ {"privKeyPass"}
  BY DEF Settings!Own, Settings!WidgetOf, Settings!Stored, Settings!SslStored
<1>2. "certFile" \in Settings!Own \ {"privKeyPass"} /\ "baud" \notin Settings!Own
  BY <1>1 DEF Settings!SslWidget, Settings!SslLists, Settings!SslLines
<1>3. conf = [r \in Settings!Own \ {"privKeyPass"} |-> confSaved[r]]
  BY <1>1 DEF SettingsSound, SavedIsInFile
<1>4. Settings!Taken = Settings!SslTaken
  BY DEF Settings!Taken
<1> QED BY <1>2, <1>3, <1>4 DEF Settings!SslTaken

LEMMA ConfigurationIsLoaded ==
  ASSUME SettingsSound, Settings!Load PROVE SettingsSound'
<1>1. /\ config' = [s \in Settings!Own |-> IF s \in DOMAIN Settings!Taken THEN Settings!Taken[s] ELSE config[s]]
      /\ shown' = IF shown = Settings!Closed THEN Settings!Closed ELSE Settings!Shown(config')
      /\ restored' = (confSaved # Settings!Nothing) /\ asked' = Settings!Nothing /\ untold' = {}
      /\ UNCHANGED <<plugin, conf, confSaved>>
  BY DEF Settings!Load, Settings!Shown, Settings!Bounded, Settings!BoxRange, Settings!Own
<1>2. DOMAIN config' = Settings!Own /\ plugin \in Settings!Plugins
  BY <1>1 DEF SettingsSound
<1>3. Settings!Own' = Settings!Own /\ \A s : Settings!BoxRange(s)' = Settings!BoxRange(s)
  BY <1>1 DEF Settings!Own, Settings!BoxRange
<1>4. Kept(config)'
  <2>1. ASSUME plugin = "serial", NEW s \in DOMAIN Settings!Taken PROVE Settings!Taken[s] \in {0, 1, 2}
    <3>1. Settings!Taken = Settings!SerialTaken
      BY <2>1 DEF Settings!Taken
    <3>2. s \in DOMAIN conf /\ Settings!Valid(s) /\ Settings!Taken[s] = conf[s]
      BY <3>1, <2>1 DEF Settings!SerialTaken
    <3> QED BY <2>1, <3>2 DEF SettingsSound, FileIsKnown, Settings!Valid
  <2>2. plugin = "serial" => \A s \in Settings!Own : config[s] \in {0, 1, 2}
    BY DEF SettingsSound, Kept, Small
  <2>3. plugin = "serial" => \A s \in Settings!Own : config'[s] \in {0, 1, 2}
    BY <1>1, <2>1, <2>2
  <2> QED BY <1>1, <1>2, <1>3, <2>3 DEF Kept, Small
<1>5. WidgetIsWhole' /\ Settings!ShownIsSet'
  <2>1. CASE shown = Settings!Closed
    BY <1>1, <2>1 DEF WidgetIsWhole, Settings!ShownIsSet, Settings!Closed, Settings!Nothing
  <2>2. CASE shown # Settings!Closed
    BY <1>1, <1>2, <1>3, <2>2, ShownAfresh DEF WidgetIsWhole, Settings!ShownIsSet
  <2> QED BY <2>1, <2>2
<1>6. Settings!RestoresSaved'
  <2> SUFFICES ASSUME restored', NEW s \in Settings!Own PROVE Settings!Back(s)'
    BY <1>3 DEF Settings!RestoresSaved
  <2>1. confSaved # Settings!Nothing
    BY <1>1
  <2>2. CASE plugin = "ssl_client"
    BY <1>1, <2>1, <2>2, SslTakesSaved DEF Settings!Back
  <2>3. CASE plugin # "ssl_client"
    BY <1>1, <2>1, <2>3, TakenIsSaved DEF Settings!Back
  <2> QED BY <2>2, <2>3
<1>7. Settings!ClosestKeyWins'
  <2>1. DOMAIN asked' = {}
    BY <1>1 DEF Settings!Nothing
  <2> QED BY <2>1 DEF Settings!ClosestKeyWins
<1>8. SavedIsInFile' /\ FileIsKnown'
  BY <1>1 DEF SettingsSound, SavedIsInFile, FileIsKnown, Kept, Small, Settings!Own, Settings!Stored, Settings!Nothing
<1> QED BY <1>1, <1>4, <1>5, <1>6, <1>7, <1>8 DEF SettingsSound

(* Another plug-in asks: what the closest key says is taken, and a box that     *)
(* shows it writes back what it shows.                                       *)
LEMMA OthersAsk ==
  ASSUME SettingsSound, NEW r \in DOMAIN Settings!Keys, NEW props, Settings!ApplyInterPluginConfig(props)
  PROVE  SettingsSound'
<1> DEFINE answer == [s \in Settings!Own |-> IF s \in DOMAIN Settings!Keys
                         THEN Settings!Narrow(s, Settings!Override(config[s], Settings!Keys[s], props))
                         ELSE config[s]]
           now == Settings!Shown(answer)
<1>1. shown # Settings!Closed /\ restored' = FALSE /\ asked' = props /\ UNCHANGED <<plugin, conf, confSaved>>
  BY DEF Settings!ApplyInterPluginConfig
<1>2. IF Settings!Listens THEN shown' = now /\ config' = Settings!WrittenBack(answer, shown, now) /\ UNCHANGED untold
      ELSE /\ config' = answer /\ UNCHANGED shown
           /\ untold' = untold \cup {s \in Settings!Own : answer[s] # config[s]}
  BY DEF Settings!ApplyInterPluginConfig
<1>3. plugin \in Settings!Plugins /\ r \in Settings!Own /\ plugin # "serial" /\ DOMAIN shown = Settings!Own
  BY <1>1, PluginFacts, SerialFacts DEF SettingsSound, WidgetIsWhole
<1>4. /\ Settings!Own' = Settings!Own /\ \A s : Settings!BoxRange(s)' = Settings!BoxRange(s)
      /\ \A s, v : Settings!Bounded(s, v)' = Settings!Bounded(s, v)
      /\ Settings!Keys' = Settings!Keys
  BY <1>1 DEF Settings!Own, Settings!BoxRange, Settings!Bounded, Settings!Keys
<1>5. DOMAIN answer = Settings!Own
  OBVIOUS
<1>6. /\ \A s \in DOMAIN Settings!Keys :
           Settings!Closest(s) \in DOMAIN props /\ (Settings!UdpPort(s) => Settings!LocalPortKeys \cap DOMAIN props = {})
             => answer[s] = Settings!Narrow(s, props[Settings!Closest(s)])
      /\ plugin = "udp_generic" /\ "udp.local_port" \in DOMAIN props =>
           "port" \in Settings!Own /\ answer["port"] = Settings!Narrow("port", props["udp.local_port"])
  <2>1. DOMAIN Settings!Keys \subseteq Settings!Own
    BY <1>3, PluginFacts
  <2> QED BY <1>3, <2>1, ClosestIsTaken, LocalPortIsTaken
<1> HIDE DEF answer
<1>7. /\ DOMAIN now = Settings!Own /\ \A s \in Settings!Own : now[s] = Settings!Bounded(s, answer[s])
      /\ \A s \in Settings!Own : answer[s] \in Settings!BoxRange(s) => now[s] = answer[s]
  BY <1>3, <1>5, ShownAfresh DEF Settings!Shown
<1> HIDE DEF now
<1>8. /\ DOMAIN config' = Settings!Own /\ DOMAIN shown' = Settings!Own
      /\ \A s \in Settings!Own : config'[s] \in {answer[s], Settings!Bounded(s, answer[s])}
  BY <1>2, <1>3, <1>5, <1>7 DEF Settings!WrittenBack
<1>9. Kept(config)' /\ WidgetIsWhole'
  BY <1>1, <1>3, <1>4, <1>8 DEF Kept, Small, WidgetIsWhole
<1>10. Settings!ShownIsSet'
  <2>1. CASE Settings!Listens
    <3>1. \A s \in Settings!Own : config'[s] \in Settings!BoxRange(s) => shown'[s] = config'[s]
      <4> TAKE s \in Settings!Own
      <4>1. shown'[s] = now[s] /\ config'[s] = IF shown[s] # now[s] THEN now[s] ELSE answer[s]
        BY <1>2, <2>1 DEF Settings!WrittenBack
      <4> QED BY <1>7, <4>1
    <3>2. untold' = {}
      BY <1>2, <2>1 DEF SettingsSound, Settings!ShownIsSet
    <3> QED BY <1>4, <3>1, <3>2 DEF Settings!ShownIsSet
  <2>2. CASE ~Settings!Listens
    <3>1. ~Settings!Listens'
      BY <1>1, <2>2 DEF Settings!Listens
    <3>2. \A s \in Settings!Own \ untold' : config'[s] = config[s] /\ s \notin untold /\ shown'[s] = shown[s]
      BY <1>2, <2>2
    <3> QED BY <1>1, <1>4, <3>1, <3>2 DEF SettingsSound, Settings!ShownIsSet
  <2> QED BY <2>1, <2>2
<1>11. Settings!ClosestKeyWins'
  <2>1. \A s \in Settings!Own : Settings!Bounded(s, config'[s]) = Settings!Bounded(s, answer[s])
    BY <1>8, BoundedTwice
  <2>2. \A s : /\ Settings!Closest(s)' = Settings!Closest(s) /\ Settings!UdpPort(s)' = Settings!UdpPort(s)
               /\ \A v : Settings!Narrow(s, v)' = Settings!Narrow(s, v)
    BY <1>1, <1>4 DEF Settings!Closest, Settings!UdpPort, Settings!Narrow
  <2>3. DOMAIN Settings!Keys \subseteq Settings!Own
    BY <1>3, PluginFacts
  <2>4. ASSUME NEW s \in DOMAIN Settings!Keys, Settings!Closest(s) \in DOMAIN props, ~Settings!Overridden(s)'
        PROVE  Settings!HeldAs(s, props[Settings!Closest(s)])'
    <3>1. Settings!UdpPort(s) => Settings!LocalPortKeys \cap DOMAIN props = {}
      BY <1>1, <2>2, <2>4 DEF Settings!Overridden, Settings!LocalPortKeys
    <3>2. answer[s] = Settings!Narrow(s, props[Settings!Closest(s)])
      BY <1>6, <2>4, <3>1
    <3> QED BY <1>4, <2>1, <2>2, <2>3, <3>2 DEF Settings!HeldAs
  <2>5. plugin = "udp_generic" /\ "udp.local_port" \in DOMAIN props => Settings!HeldAs("port", props["udp.local_port"])'
    BY <1>4, <1>6, <2>1, <2>2 DEF Settings!HeldAs
  <2> QED BY <1>1, <1>4, <2>2, <2>4, <2>5 DEF Settings!ClosestKeyWins
<1>12. Settings!RestoresSaved' /\ SavedIsInFile' /\ FileIsKnown'
  BY <1>1 DEF SettingsSound, Settings!RestoresSaved, SavedIsInFile, FileIsKnown, Kept, Small, Settings!Own, Settings!Stored,
              Settings!Nothing
<1> QED BY <1>1, <1>3, <1>9, <1>10, <1>11, <1>12 DEF SettingsSound

LEMMA SettingsNext ==
  ASSUME SettingsSound, Settings!Next PROVE SettingsSound'
BY WidgetOpens, WidgetCloses, BoxIsEdited, ConfigurationIsSaved, FileIsEdited, ConfigurationIsLoaded, OthersAsk
   DEF Settings!Next

LEMMA SettingsInvariant == Spec => []SettingsRun
<1>1. Init => SettingsRun
  BY SettingsInit
<1>2. SettingsRun /\ [Next]_vars => SettingsRun'
  <2> SUFFICES ASSUME SettingsRun, [Next]_vars PROVE SettingsRun'
    OBVIOUS
  <2>1. CASE SettingsStep /\ UNCHANGED subject
    BY <2>1, SettingsNext DEF SettingsStep, SettingsRun
  <2>2. CASE UNCHANGED <<subject, settingsVars>>
    BY <2>2 DEF settingsVars, SettingsRun, SettingsSound, WidgetIsWhole, SavedIsInFile, FileIsKnown, Kept, Small,
                Settings!RestoresSaved, Settings!ShownIsSet, Settings!ClosestKeyWins, Settings!Own, Settings!Stored,
                Settings!BoxRange, Settings!Bounded, Settings!Narrow, Settings!Listens, Settings!Back, Settings!Keys,
                Settings!Closest, Settings!UdpPort, Settings!Overridden, Settings!HeldAs, Settings!LocalPortKeys
  <2>3. (SettingsStep /\ UNCHANGED subject) \/ UNCHANGED <<subject, settingsVars>>
    BY DEF Next, vars, keepVars, SerialStep, FrameStep, MsgFilesStep, FilesStep, NumberStep, TextStep, MemberStep
  <2> QED BY <2>1, <2>2, <2>3
<1> QED BY <1>1, <1>2, PTL DEF Spec

(* What was saved comes back when it is loaded, in all seven plug-ins, but for a *)
(* baud rate of 0, the SSL passphrase, and the SSL key file, which is read from  *)
(* the entry of the certificate; what a widget shows is what the socket has, but *)
(* for what the SSL client's is not told; a request by the closest key holds     *)
(* over the others, but that the generic UDP socket takes a local port for the  *)
(* port it sends to; and the name of the serial device that is visible is the    *)
(* one in use (getCurrentConfigImpl(), reconfigureImpl(),                       *)
(* applyInterPluginConfigImpl()).                                             *)
THEOREM SettingsComeBack == Spec => []SettingsAreKept
<1>1. SettingsRun /\ SerialRuns => SettingsAreKept
  BY SerialIsRight DEF SettingsRun, SettingsSound, SettingsAreKept
<1> QED BY <1>1, SettingsInvariant, SerialInvariant, PTL

-----------------------------------------------------------------------------
(* What is true of 0, and of k + 1 when of k, is true up to any bound.          *)
LEMMA UpTo ==
  ASSUME NEW n \in Nat, NEW T, 0 \in T, \A k \in 0 .. n : k < n /\ k \in T => k + 1 \in T
  PROVE  \A k \in 0 .. n : k \in T
<1> DEFINE U == {k \in 0 .. n : k \notin T}
<1> SUFFICES ASSUME U # {} PROVE FALSE
  OBVIOUS
<1>1. PICK x \in U : \A y \in U : x <= y
  <2>1. U \subseteq Nat
    OBVIOUS
  <2> HIDE DEF U
  <2> QED BY <2>1, Least
<1>2. x \in 0 .. n /\ x # 0 /\ x \notin T
  BY <1>1
<1>3. x - 1 \in 0 .. n /\ x - 1 < n /\ x - 1 \notin U /\ (x - 1) + 1 = x
  BY <1>1, <1>2
<1> QED BY <1>2, <1>3

(* The sums that Length adds up.                                             *)
Sums(f, g) == g = [n \in 0 .. Len(f) |-> IF n = 0 THEN 0 ELSE g[n - 1] + 1 + f[n]]

LEMMA SumsExist ==
  ASSUME NEW f \in Seq(Nat) PROVE \E g : Sums(f, g)
<1> DEFINE Part(n, g) == g = [i \in 0 .. n |-> IF i = 0 THEN 0 ELSE g[i - 1] + 1 + f[i]]
           T == {n \in Nat : \E g : Part(n, g)}
<1>1. 0 \in T
  <2>1. Part(0, [i \in {0} |-> 0])
    BY 0 .. 0 = {0}
  <2> QED BY <2>1
<1>2. ASSUME NEW n \in Nat, n \in T PROVE n + 1 \in T
  <2>1. PICK g : Part(n, g)
    BY <1>2
  <2> DEFINE h == [i \in 0 .. n + 1 |-> IF i \in 0 .. n THEN g[i] ELSE g[n] + 1 + f[n + 1]]
  <2>2. Part(n + 1, h)
    <3>1. ASSUME NEW i \in 0 .. n + 1 PROVE h[i] = IF i = 0 THEN 0 ELSE h[i - 1] + 1 + f[i]
      <4>1. CASE i \in 0 .. n
        <5>1. g[i] = IF i = 0 THEN 0 ELSE g[i - 1] + 1 + f[i]
          BY <2>1, <4>1
        <5>2. i # 0 => i - 1 \in 0 .. n
          BY <4>1
        <5> QED BY <4>1, <5>1, <5>2
      <4>2. CASE i = n + 1
        <5>1. n \in 0 .. n /\ n + 1 \notin 0 .. n /\ i # 0 /\ i - 1 = n
          BY <4>2
        <5> QED BY <4>2, <5>1
      <4> QED BY <4>1, <4>2
    <3>2. h = [i \in 0 .. n + 1 |-> h[i]]
      OBVIOUS
    <3> HIDE DEF h
    <3> QED BY <3>1, <3>2
  <2>3. \E x : Part(n + 1, x)
    <3> HIDE DEF h, Part
    <3> QED BY <2>2
  <2> HIDE DEF h, Part
  <2> QED BY <2>3
<1> HIDE DEF T
<1>3. Len(f) \in Nat
  OBVIOUS
<1>4. Len(f) \in T
  <2> DEFINE m == Len(f)
  <2>1. \A k \in 0 .. m : k \in T
    <3>1. m \in Nat /\ \A k \in 0 .. m : k < m /\ k \in T => k + 1 \in T
      BY <1>2, <1>3
    <3> HIDE DEF m
    <3> QED BY <1>1, <3>1, UpTo
  <2> QED BY <1>3, <2>1
<1> QED BY <1>4 DEF T, Sums

LEMMA LengthIsSum ==
  ASSUME NEW f \in Seq(Nat) PROVE \E g : Sums(f, g) /\ Member!Length(f) = g[Len(f)]
<1> DEFINE g == CHOOSE g : Sums(f, g)
<1>1. Sums(f, g)
  BY SumsExist
<1>2. Member!Length(f) = g[Len(f)]
  BY DEF Member!Length, Sums
<1> QED BY <1>1, <1>2

(* Elements that are no greater, and one element more or less.                 *)
LEMMA LengthGrows ==
  ASSUME NEW f \in Seq(Nat), NEW h \in Seq(Nat), Len(h) = Len(f), \A i \in 1 .. Len(f) : h[i] <= f[i]
  PROVE  Member!Length(h) <= Member!Length(f)
<1>1. PICK p : Sums(f, p) /\ Member!Length(f) = p[Len(f)]
  BY LengthIsSum
<1>2. PICK q : Sums(h, q) /\ Member!Length(h) = q[Len(h)]
  BY LengthIsSum
<1> DEFINE m == Len(f)
           T == {n \in 0 .. m : p[n] \in Nat /\ q[n] \in Nat /\ q[n] <= p[n]}
<1>3. m \in Nat /\ Len(h) = m
  OBVIOUS
<1>4. p[0] = 0 /\ q[0] = 0 /\ \A n \in 1 .. m : p[n] = p[n - 1] + 1 + f[n] /\ q[n] = q[n - 1] + 1 + h[n]
  <2>1. p = [n \in 0 .. m |-> IF n = 0 THEN 0 ELSE p[n - 1] + 1 + f[n]]
    BY <1>1 DEF Sums
  <2>2. q = [n \in 0 .. m |-> IF n = 0 THEN 0 ELSE q[n - 1] + 1 + h[n]]
    BY <1>2, <1>3 DEF Sums
  <2> HIDE DEF m
  <2> QED BY <1>3, <2>1, <2>2
<1>5. \A n \in 1 .. m : f[n] \in Nat /\ h[n] \in Nat /\ h[n] <= f[n]
  BY <1>3
<1> HIDE DEF m
<1>6. 0 \in T
  BY <1>3, <1>4
<1>7. ASSUME NEW k \in 0 .. m, k < m, k \in T PROVE k + 1 \in T
  <2>1. k + 1 \in 1 .. m /\ k + 1 - 1 = k
    BY <1>3, <1>7
  <2>2. p[k + 1] = p[k] + 1 + f[k + 1] /\ q[k + 1] = q[k] + 1 + h[k + 1]
    BY <1>4, <2>1
  <2>3. f[k + 1] \in Nat /\ h[k + 1] \in Nat /\ h[k + 1] <= f[k + 1]
    BY <1>5, <2>1
  <2>4. p[k] \in Nat /\ q[k] \in Nat /\ q[k] <= p[k]
    BY <1>7
  <2> DEFINE pk == p[k]
             qk == q[k]
             fk == f[k + 1]
             hk == h[k + 1]
  <2>5. p[k + 1] = pk + 1 + fk /\ q[k + 1] = qk + 1 + hk /\ pk \in Nat /\ qk \in Nat /\ fk \in Nat /\ hk \in Nat
        /\ qk <= pk /\ hk <= fk
    BY <2>2, <2>3, <2>4
  <2> HIDE DEF pk, qk, fk, hk
  <2>6. p[k + 1] \in Nat /\ q[k + 1] \in Nat /\ q[k + 1] <= p[k + 1]
    BY <2>5
  <2>7. k + 1 \in 0 .. m
    BY <1>3, <1>7
  <2> QED BY <2>6, <2>7
<1> HIDE DEF T
<1>8. \A k \in 0 .. m : k \in T
  BY <1>3, <1>6, <1>7, UpTo
<1>9. m \in T
  BY <1>3, <1>8
<1> QED BY <1>1, <1>2, <1>3, <1>9 DEF T, m
LEMMA LengthOfOneLess ==
  ASSUME NEW f \in Seq(Nat), NEW h \in Seq(Nat), NEW j \in 1 .. Len(f), Len(h) = Len(f) - 1,
         \A i \in 1 .. j - 1 : h[i] = f[i], \A i \in j .. Len(h) : h[i] = f[i + 1]
  PROVE  Member!Length(f) \in Nat /\ Member!Length(h) \in Nat /\ Member!Length(f) = Member!Length(h) + 1 + f[j]
<1>1. PICK p : Sums(f, p) /\ Member!Length(f) = p[Len(f)]
  BY LengthIsSum
<1>2. PICK q : Sums(h, q) /\ Member!Length(h) = q[Len(h)]
  BY LengthIsSum
<1> DEFINE m == Len(f)
           fj == f[j]
           T == {n \in 0 .. m : /\ p[n] \in Nat
                               /\ (n < j => q[n] = p[n])
                               /\ (n >= j => (q[n - 1] \in Nat /\ p[n] = q[n - 1] + 1 + fj))}
<1>3. m \in Nat /\ Len(h) = m - 1 /\ j \in 1 .. m /\ fj \in Nat
  OBVIOUS
<1>4. p[0] = 0 /\ q[0] = 0 /\ \A n \in 1 .. m : p[n] = p[n - 1] + 1 + f[n]
  <2>1. p = [n \in 0 .. m |-> IF n = 0 THEN 0 ELSE p[n - 1] + 1 + f[n]]
    BY <1>1 DEF Sums
  <2>2. q = [n \in 0 .. m - 1 |-> IF n = 0 THEN 0 ELSE q[n - 1] + 1 + h[n]]
    BY <1>2, <1>3 DEF Sums
  <2> HIDE DEF m
  <2>3. 0 \in 0 .. m - 1 /\ 0 \in 0 .. m
    <3>1. m \in Nat /\ 1 <= m
      BY <1>3
    <3> QED BY <3>1
  <2>4. p[0] = 0 /\ q[0] = 0
    BY <2>1, <2>2, <2>3
  <2>5. ASSUME NEW n \in 1 .. m PROVE p[n] = p[n - 1] + 1 + f[n]
    <3>1. n \in 0 .. m /\ n # 0
      BY <1>3
    <3> QED BY <2>1, <3>1
  <2> QED BY <2>4, <2>5
<1>5. \A n \in 1 .. m - 1 : q[n] = q[n - 1] + 1 + h[n]
  <2>2. q = [n \in 0 .. m - 1 |-> IF n = 0 THEN 0 ELSE q[n - 1] + 1 + h[n]]
    BY <1>2, <1>3 DEF Sums
  <2> HIDE DEF m
  <2> SUFFICES ASSUME NEW n \in 1 .. m - 1 PROVE q[n] = q[n - 1] + 1 + h[n]
    OBVIOUS
  <2>3. n \in 0 .. m - 1 /\ n # 0
    BY <1>3
  <2> QED BY <2>2, <2>3
<1>6. \A n \in 1 .. m : f[n] \in Nat
  BY <1>3
<1>7. /\ \A i \in 1 .. j - 1 : h[i] = f[i]
      /\ \A i \in j .. m - 1 : h[i] = f[i + 1]
  BY <1>3
<1> HIDE DEF m
<1>8. 0 \in T
  BY <1>3, <1>4
<1>9. ASSUME NEW k \in 0 .. m, k < m, k \in T PROVE k + 1 \in T
  <2>0. \A n \in 0 .. m : p[n] \in Nat /\ ~(n < j) /\ q[n - 1] \in Nat /\ p[n] = q[n - 1] + 1 + fj => n \in T
    OBVIOUS
  <2>1. k + 1 \in 1 .. m /\ k + 1 - 1 = k /\ k \in Nat /\ j \in Nat
    BY <1>3, <1>9
  <2>2. p[k + 1] = p[k] + 1 + f[k + 1] /\ f[k + 1] \in Nat /\ p[k] \in Nat
    BY <1>4, <1>6, <1>9, <2>1
  <2>3. p[k + 1] \in Nat
    <3> DEFINE x == p[k]
               y == f[k + 1]
    <3>1. x \in Nat /\ y \in Nat /\ p[k + 1] = x + 1 + y
      BY <2>2
    <3> HIDE DEF x, y
    <3> QED BY <3>1
  <2>4. CASE k + 1 < j
    <3>1. q[k] = p[k] /\ k + 1 \in 1 .. m - 1 /\ h[k + 1] = f[k + 1]
      BY <1>3, <1>7, <1>9, <2>1, <2>4
    <3>2. q[k + 1] = q[k] + 1 + h[k + 1]
      BY <1>5, <2>1, <3>1
    <3>3. q[k + 1] = p[k + 1]
      <4>1. p[k + 1] = p[k] + 1 + f[k + 1]
        BY <2>2
      <4> QED BY ONLY <3>1, <3>2, <4>1
    <3> QED BY <1>3, <2>1, <2>4, <2>3, <3>3
  <2>5. CASE k + 1 = j
    <3>1. q[k] = p[k] /\ f[k + 1] = fj
      BY <1>3, <1>9, <2>1, <2>5
    <3>2. q[k + 1 - 1] = p[k] /\ p[k + 1] = p[k] + 1 + fj
      BY <2>1, <2>2, <3>1
    <3>3. q[k + 1 - 1] \in Nat /\ p[k + 1] = q[k + 1 - 1] + 1 + fj
      BY <2>2, <3>2
    <3>4. k + 1 \in 0 .. m /\ ~(k + 1 < j)
      BY <2>1, <2>5
    <3> HIDE DEF fj, T
    <3> QED BY ONLY <2>0, <2>3, <3>3, <3>4
  <2>6. CASE k >= j
    <3> HIDE DEF fj
    <3>1. q[k - 1] \in Nat /\ p[k] = q[k - 1] + 1 + fj /\ k \in 1 .. m - 1 /\ h[k] = f[k + 1]
      BY <1>3, <1>7, <1>9, <2>1, <2>6
    <3>2. q[k] = q[k - 1] + 1 + h[k]
      BY <1>5, <3>1
    <3> DEFINE a == q[k - 1]
               b == f[k + 1]
    <3>3. a \in Nat /\ b \in Nat /\ q[k] = a + 1 + b /\ p[k] = a + 1 + fj /\ p[k + 1] = p[k] + 1 + b
      BY <2>2, <3>1, <3>2
    <3> HIDE DEF a, b
    <3>4. q[k] \in Nat /\ p[k + 1] \in Nat /\ p[k + 1] = q[k] + 1 + fj
      <4>1. fj \in Nat
        BY <1>3
      <4>2. p[k + 1] = (a + 1 + fj) + 1 + b
        BY <3>3
      <4>3. (a + 1 + fj) + 1 + b \in Nat /\ (a + 1 + fj) + 1 + b = (a + 1 + b) + 1 + fj /\ a + 1 + b \in Nat
        <5>1. \A x, y, z \in Nat :
                (x + 1 + z) + 1 + y \in Nat /\ (x + 1 + z) + 1 + y = (x + 1 + y) + 1 + z /\ x + 1 + y \in Nat
          OBVIOUS
        <5> QED BY <3>3, <4>1, <5>1
      <4> QED BY <3>3, <4>2, <4>3
    <3>5. q[k + 1 - 1] \in Nat /\ p[k + 1] = q[k + 1 - 1] + 1 + fj
      BY <2>1, <3>4
    <3>6. k + 1 \in 0 .. m /\ ~(k + 1 < j)
      BY <2>1, <2>6
    <3> HIDE DEF T
    <3> QED BY ONLY <2>0, <3>4, <3>5, <3>6
  <2> QED BY <2>1, <2>4, <2>5, <2>6
<1>10. \A k \in 0 .. m : k \in T
  <2> HIDE DEF T
  <2> QED BY <1>3, <1>8, <1>9, UpTo
<1>11. p[m] \in Nat /\ q[m - 1] \in Nat /\ p[m] = q[m - 1] + 1 + fj
  <2>1. m \in T /\ m >= j
    BY <1>3, <1>10
  <2> HIDE DEF fj
  <2> QED BY <2>1
<1> QED BY <1>1, <1>2, <1>3, <1>11 DEF m, fj

LEMMA LengthOfAppend ==
  ASSUME NEW f \in Seq(Nat), NEW n \in Nat
  PROVE  Member!Length(f) \in Nat /\ Member!Length(Append(f, n)) = Member!Length(f) + 1 + n
<1> DEFINE h == Append(f, n)
<1>1. h \in Seq(Nat) /\ Len(h) = Len(f) + 1 /\ h[Len(h)] = n /\ \A i \in 1 .. Len(f) : h[i] = f[i]
  BY AppendProperties
<1>2. Len(f) \in Nat /\ Len(h) \in 1 .. Len(h) /\ Len(f) = Len(h) - 1
  BY <1>1
<1> HIDE DEF h
<1>3. /\ \A i \in 1 .. Len(h) - 1 : f[i] = h[i]
      /\ \A i \in Len(h) .. Len(f) : f[i] = h[i + 1]
  BY <1>1, <1>2
<1>4. Member!Length(f) \in Nat /\ Member!Length(h) = Member!Length(f) + 1 + n
  BY <1>1, <1>2, <1>3, LengthOfOneLess
<1> QED BY <1>4 DEF h

LEMMA RemovedFrom ==
  ASSUME NEW S, NEW f \in Seq(S), NEW j \in 1 .. Len(f)
  PROVE  /\ Member!RemoveAt(f, j) \in Seq(S) /\ Len(Member!RemoveAt(f, j)) = Len(f) - 1
         /\ \A i \in 1 .. j - 1 : Member!RemoveAt(f, j)[i] = f[i]
         /\ \A i \in j .. Len(f) - 1 : Member!RemoveAt(f, j)[i] = f[i + 1]
<1> DEFINE a == SubSeq(f, 1, j - 1)
           b == SubSeq(f, j + 1, Len(f))
<1>1. a \in Seq(S) /\ Len(a) = j - 1 /\ \A i \in 1 .. j - 1 : a[i] = f[i]
  BY SubSeqProperties
<1>2. b \in Seq(S) /\ Len(b) = Len(f) - j /\ \A i \in 1 .. Len(f) - j : b[i] = f[j + i]
  BY SubSeqProperties
<1>3. Member!RemoveAt(f, j) = a \o b
  BY DEF Member!RemoveAt
<1>4. Len(f) \in Nat /\ j \in Nat /\ j <= Len(f) /\ 1 <= j
  OBVIOUS
<1> DEFINE n == Len(f)
<1> HIDE DEF a, b, n
<1>5. /\ a \o b \in Seq(S) /\ Len(a \o b) = n - 1
      /\ \A i \in 1 .. n - 1 : (a \o b)[i] = IF i <= j - 1 THEN a[i] ELSE b[i - (j - 1)]
  <2>1. Len(a) + Len(b) = n - 1 /\ n \in Nat
    BY <1>1, <1>2, <1>4 DEF n
  <2>2. /\ a \o b \in Seq(S) /\ Len(a \o b) = Len(a) + Len(b)
        /\ \A i \in 1 .. Len(a) + Len(b) : (a \o b)[i] = IF i <= Len(a) THEN a[i] ELSE b[i - Len(a)]
    BY <1>1, <1>2, ConcatProperties
  <2>3. Len(a) = j - 1
    BY <1>1
  <2> QED BY <2>1, <2>2, <2>3
<1>6. \A i \in 1 .. j - 1 : (a \o b)[i] = f[i]
  BY <1>1, <1>4, <1>5 DEF n
<1>7. ASSUME NEW i \in j .. n - 1 PROVE (a \o b)[i] = f[i + 1]
  <2>1. n \in Nat /\ i - (j - 1) \in 1 .. n - j /\ i \in 1 .. n - 1 /\ ~(i <= j - 1) /\ j + (i - (j - 1)) = i + 1
    BY <1>4 DEF n
  <2> QED BY <1>2, <1>5, <2>1 DEF n
<1> QED BY <1>3, <1>5, <1>6, <1>7 DEF n

LEMMA LengthOfRemoved ==
  ASSUME NEW f \in Seq(Nat), NEW j \in 1 .. Len(f)
  PROVE  Member!Length(Member!RemoveAt(f, j)) <= Member!Length(f)
<1> DEFINE h == Member!RemoveAt(f, j)
<1>1. /\ h \in Seq(Nat) /\ Len(h) = Len(f) - 1
      /\ \A i \in 1 .. j - 1 : h[i] = f[i]
      /\ \A i \in j .. Len(f) - 1 : h[i] = f[i + 1]
  BY RemovedFrom
<1> HIDE DEF h
<1>2. Member!Length(f) \in Nat /\ Member!Length(h) \in Nat /\ Member!Length(f) = Member!Length(h) + 1 + f[j]
  BY <1>1, LengthOfOneLess
<1>3. f[j] \in Nat
  OBVIOUS
<1> QED BY <1>2, <1>3 DEF h

-----------------------------------------------------------------------------
(* The widgets of fields with members.                                       *)
Reports == (Int \X Seq(Nat)) \cup {<<>>}

MemberWidgets ==
  [field : Seq(Nat), index : Int, creates : BOOLEAN, parts : Seq(Nat), spin : Int, item : Int,
   bytes : Reports, checked : BOOLEAN, told : Reports, ok : BOOLEAN]

(* What refreshing does to a widget, and what it leaves alone.                 *)
IsRefreshed(a, b) ==
  /\ b \in MemberWidgets /\ b.field = a.field /\ b.index = a.index /\ b.spin = a.spin /\ b.item = a.item
  /\ b.told = a.told /\ b.parts = a.field /\ (b.creates <=> a.creates)
  /\ compound \notin {"bundle", "optional"} => b.bytes = Member!Value(a)
  /\ b.checked <=> a.index = Member!Exists
  /\ b.ok <=> a.ok /\ Member!CanWrite(a)

(* The same without the widgets of members.                                   *)
IsShown(a, b) ==
  /\ b \in MemberWidgets /\ b.field = a.field /\ b.index = a.index /\ b.spin = a.spin /\ b.item = a.item
  /\ b.told = a.told /\ b.parts = a.parts /\ (b.creates <=> a.creates)
  /\ compound \notin {"bundle", "optional"} => b.bytes = Member!Value(a)
  /\ b.checked <=> a.index = Member!Exists
  /\ b.ok <=> a.ok /\ Member!CanWrite(a)

(* A report changes nothing else.                                             *)
IsReported(a, b) ==
  /\ b \in MemberWidgets /\ b.field = a.field /\ b.index = a.index /\ b.spin = a.spin /\ b.item = a.item
  /\ b.parts = a.parts /\ b.bytes = a.bytes /\ b.told = Member!Value(a)
  /\ (b.creates <=> a.creates) /\ (b.checked <=> a.checked) /\ (b.ok <=> a.ok)

LEMMA ValuesAreReports ==
  ASSUME NEW a \in MemberWidgets PROVE Member!Value(a) \in Reports
BY DEF Member!Value, MemberWidgets, Reports

LEMMA Shows ==
  ASSUME NEW a \in MemberWidgets PROVE IsShown(a, Member!RefreshInternal(a))
<1>1. Member!CanWrite(a) \in BOOLEAN
  BY DEF Member!CanWrite
<1> QED BY <1>1, ValuesAreReports DEF Member!RefreshInternal, Member!Check, IsShown, MemberWidgets

LEMMA Refreshes ==
  ASSUME NEW a \in MemberWidgets PROVE IsRefreshed(a, Member!Refresh(a))
<1>1. IsShown(a, Member!RefreshInternal(a))
  BY Shows
<1> DEFINE b == Member!RefreshInternal(a)
<1>2. Member!Refresh(a) = [b EXCEPT !.parts = b.field]
  BY DEF Member!Refresh, Member!RefreshMembers
<1> HIDE DEF b
<1> QED BY <1>1, <1>2 DEF IsShown, IsRefreshed, MemberWidgets, b

LEMMA Emits ==
  ASSUME NEW a \in MemberWidgets PROVE IsReported(a, Member!Emit(a))
BY ValuesAreReports DEF Member!Emit, IsReported, MemberWidgets

LEMMA Stores ==
  ASSUME compound \in Member!Kinds, NEW s \in Member!Storage
  PROVE  /\ s \in Seq(Nat)
         /\ compound = "list" => Member!Length(s) <= MaxLength
         /\ compound \in Member!Variants => s # <<>>
<1>1. \A n \in Nat : [1 .. n -> Member!Members] \subseteq Seq(Nat)
  BY DataPartsAssumption DEF Member!Members
<1>2. Member!Members \subseteq Nat
  BY DataPartsAssumption DEF Member!Members
<1>3. CASE compound = "list"
  <2>1. PICK n \in 0 .. MaxLength : s \in [1 .. n -> Member!Members]
    BY <1>3 DEF Member!Storage
  <2>2. Member!Length(s) <= MaxLength
    BY <1>3 DEF Member!Storage
  <2> QED BY <1>1, <1>3, <2>1, <2>2, DataPartsAssumption DEF Member!Variants
<1>4. CASE compound # "list"
  <2>1. s \in [1 .. 2 -> Member!Members] \/ s \in [1 .. 1 -> Member!Members]
    BY <1>4 DEF Member!Storage, Member!FixedSize
  <2>2. s \in Seq(Nat)
    BY <1>1, <2>1
  <2>3. 1 \in DOMAIN s
    BY <2>1
  <2> QED BY <1>4, <2>2, <2>3
<1> QED BY <1>3, <1>4

(* The invariant.  A list that is shown can be written; only a variant that is  *)
(* an element of a list has lost its creator.                                *)
Fits == compound = "list" /\ w.ok => Member!Length(w.field) <= MaxLength

MemberSound ==
  /\ compound \in Member!Kinds /\ w \in MemberWidgets
  /\ Member!PartsAreMembers /\ Member!SelectionIsCurrent /\ Member!BytesAreShown
  /\ Member!NoAssertionFails /\ Fits /\ (compound # "listed" => w.creates)

MemberRun == subject = "member" => MemberSound

(* What a widget with its parts is like that has refreshed and reported.        *)
Settled(b) ==
  /\ b \in MemberWidgets /\ b.parts = b.field /\ b.told = Member!Value(b)
  /\ compound \notin {"bundle", "optional"} => b.bytes = Member!Value(b)
  /\ compound = "optional" => (b.checked <=> b.index = Member!Exists)
  /\ compound = "list" /\ b.ok => Member!Length(b.field) <= MaxLength

Belongs(b) ==
  compound \in Member!Variants =>
    b.spin = b.index /\ b.item = Member!ItemOf(b.index) /\ (b.index = Member!NoIndex <=> b.field = <<>>)

Safe(b) == (b.ok \/ overfull' \/ compound = "listed") /\ (compound # "listed" => b.creates)

LEMMA SettledIsSound ==
  ASSUME compound \in Member!Kinds, compound' = compound, Settled(w'), w'.ok => Belongs(w'), Safe(w')
  PROVE  MemberSound'
<1>1. Member!PartsAreMembers' /\ Member!BytesAreShown'
  BY DEF Settled, Member!PartsAreMembers, Member!BytesAreShown, Member!Value
<1>2. Member!SelectionIsCurrent'
  <2>1. compound = "optional" => w'.checked = (w'.index = Member!Exists)
    <3>1. w'.checked \in BOOLEAN
      BY DEF Settled, MemberWidgets
    <3> QED BY <3>1 DEF Settled
  <2>2. compound \in Member!Variants /\ w'.ok =>
          /\ w'.spin = w'.index /\ w'.item = Member!ItemOf(w'.index)
          /\ (w'.index = Member!NoIndex <=> w'.field = <<>>)
    BY DEF Belongs
  <2> QED BY <2>1, <2>2 DEF Member!SelectionIsCurrent, Member!Variants, Member!ItemOf, Member!NoIndex, Member!Unknown
<1>3. Fits'
  BY DEF Settled, Fits, Member!Length
<1> QED BY <1>1, <1>2, <1>3 DEF MemberSound, Settled, Safe, Member!NoAssertionFails, Member!Kinds

(* Refreshing what was reported, and reporting what was refreshed.              *)
LEMMA RefreshSettles ==
  ASSUME NEW a \in MemberWidgets, a.told = Member!Value(a)
  PROVE  Settled(Member!Refresh(a))
<1>1. IsRefreshed(a, Member!Refresh(a))
  BY Refreshes
<1> DEFINE b == Member!Refresh(a)
<1> HIDE DEF b
<1>2. b.field = a.field /\ b.index = a.index /\ Member!Value(b) = Member!Value(a)
  BY <1>1 DEF IsRefreshed, b, Member!Value
<1>3. compound = "list" /\ b.ok => Member!Length(b.field) <= MaxLength
  BY <1>1, <1>2 DEF IsRefreshed, b, Member!CanWrite
<1> QED BY <1>1, <1>2, <1>3 DEF IsRefreshed, Settled, b

LEMMA EmitSettles ==
  ASSUME NEW a \in MemberWidgets
  PROVE  Settled(Member!Emit(Member!Refresh(a)))
<1> DEFINE b == Member!Refresh(a)
           c == Member!Emit(b)
<1>1. IsRefreshed(a, b)
  BY Refreshes
<1>2. b \in MemberWidgets
  BY <1>1 DEF IsRefreshed
<1> HIDE DEF b
<1>3. IsReported(b, c)
  BY <1>2, Emits
<1> HIDE DEF c
<1>4. /\ b.field = a.field /\ b.index = a.index /\ Member!Value(b) = Member!Value(a)
      /\ c.field = b.field /\ c.index = b.index /\ Member!Value(c) = Member!Value(b)
  BY <1>1, <1>3 DEF IsRefreshed, IsReported, Member!Value
<1>5. compound = "list" /\ c.ok => Member!Length(c.field) <= MaxLength
  BY <1>1, <1>3, <1>4 DEF IsRefreshed, IsReported, Member!CanWrite
<1> QED BY <1>1, <1>3, <1>4, <1>5 DEF IsRefreshed, IsReported, Settled, b, c

(* How a widget is made for what a message has.                               *)
LEMMA MadeIsSound ==
  ASSUME NEW a \in MemberWidgets, compound \in Member!Kinds
  PROVE  LET b == Member!Made(a)
         IN  /\ Settled(b) /\ (b.creates <=> a.creates)
             /\ (compound \in Member!Variants => (a.index = Member!NoIndex <=> a.field = <<>>)) => Belongs(b)
             /\ a.ok /\ Member!CanWrite(a) => b.ok
             /\ compound \in Member!Variants => b.index = a.index
<1> DEFINE a0 == [a EXCEPT !.spin = a.index, !.item = Member!ItemOf(a.index),
                           !.index = IF compound = "optional" /\ @ = Member!Tentative THEN Member!Missing ELSE @]
           b == Member!Refresh(a0)
           c == [b EXCEPT !.told = Member!Value(b)]
<1>1. Member!Made(a) = c
  BY DEF Member!Made
<1>2. /\ a0 \in MemberWidgets /\ a0.field = a.field /\ (a0.creates <=> a.creates) /\ (a0.ok <=> a.ok)
      /\ compound \in Member!Variants => a0.index = a.index /\ a0.spin = a.index /\ a0.item = Member!ItemOf(a.index)
  <2> DEFINE n == Member!ItemOf(a.index)
             x == IF compound = "optional" /\ a.index = Member!Tentative THEN Member!Missing ELSE a.index
  <2>1. n \in Int /\ x \in Int /\ a.index \in Int /\ (compound \in Member!Variants => x = a.index)
    BY DataPartsAssumption DEF MemberWidgets, Member!ItemOf, Member!Unknown, Member!Missing, Member!Variants
  <2>2. a0 = [a EXCEPT !.spin = a.index, !.item = n, !.index = x]
    BY DEF MemberWidgets
  <2> HIDE DEF a0, n, x
  <2>3. /\ a0 \in MemberWidgets /\ a0.field = a.field /\ (a0.creates <=> a.creates) /\ (a0.ok <=> a.ok)
        /\ a0.index = x /\ a0.spin = a.index /\ a0.item = n
    BY <2>1, <2>2 DEF MemberWidgets
  <2> QED BY <2>1, <2>3 DEF n
<1> HIDE DEF a0
<1>3. IsRefreshed(a0, b)
  BY <1>2, Refreshes
<1> HIDE DEF b
<1>4. b \in MemberWidgets /\ Member!Value(b) \in Reports
  BY <1>3, ValuesAreReports DEF IsRefreshed
<1>5. /\ c \in MemberWidgets /\ c.field = b.field /\ c.index = b.index /\ c.spin = b.spin /\ c.item = b.item
      /\ c.parts = b.parts /\ c.bytes = b.bytes /\ c.told = Member!Value(b)
      /\ (c.creates <=> b.creates) /\ (c.checked <=> b.checked) /\ (c.ok <=> b.ok)
  BY <1>4 DEF MemberWidgets
<1> HIDE DEF c
<1>6. Member!Value(c) = Member!Value(b) /\ Member!Value(b) = Member!Value(a0)
  BY <1>3, <1>5 DEF IsRefreshed, Member!Value
<1>7. compound = "list" /\ c.ok => Member!Length(c.field) <= MaxLength
  BY <1>3, <1>5 DEF IsRefreshed, Member!CanWrite
<1>8. Settled(c)
  BY <1>3, <1>5, <1>6, <1>7 DEF IsRefreshed, Settled
<1>9. a.ok /\ Member!CanWrite(a) => c.ok
  BY <1>2, <1>3, <1>5 DEF IsRefreshed, Member!CanWrite
<1>10. (compound \in Member!Variants => (a.index = Member!NoIndex <=> a.field = <<>>)) => Belongs(c)
  BY <1>2, <1>3, <1>5 DEF IsRefreshed, Belongs
<1>11. c.creates <=> a.creates
  BY <1>2, <1>3, <1>5 DEF IsRefreshed
<1>12. compound \in Member!Variants => c.index = a.index
  BY <1>2, <1>3, <1>5 DEF IsRefreshed
<1> QED BY <1>1, <1>8, <1>9, <1>10, <1>11, <1>12

LEMMA MemberInit ==
  ASSUME Member!Init PROVE MemberSound
<1>1. PICK s \in Member!Storage, i \in Member!Indexes :
        w = Member!Start(IF compound \in Member!Variants /\ i = Member!NoIndex THEN <<>> ELSE s, i)
  BY DEF Member!Init
<1> DEFINE f == IF compound \in Member!Variants /\ i = Member!NoIndex THEN <<>> ELSE s
           a == [field |-> f, index |-> i, creates |-> compound # "listed", parts |-> <<>>, spin |-> 0,
                 item |-> Member!Unknown, bytes |-> <<>>, checked |-> FALSE, told |-> <<>>, ok |-> TRUE]
<1>2. w = Member!Made(a) /\ compound \in Member!Kinds /\ overfull = FALSE
  BY <1>1 DEF Member!Init, Member!Start
<1>3. s \in Seq(Nat) /\ (compound = "list" => Member!Length(s) <= MaxLength) /\ (compound \in Member!Variants => s # <<>>)
  BY <1>2, Stores
<1>4. i \in Int
  BY DEF Member!Indexes, Member!NoIndex, Member!LastIndex, Member!Missing, Member!Tentative, Member!Exists
<1>5. f \in Seq(Nat) /\ (compound = "list" => Member!Length(f) <= MaxLength)
      /\ (compound \in Member!Variants => (i = Member!NoIndex <=> f = <<>>))
  BY <1>3 DEF Member!Variants
<1> HIDE DEF f
<1>6. /\ a \in MemberWidgets /\ a.field = f /\ a.index = i /\ a.ok /\ (a.creates <=> compound # "listed")
  <2> DEFINE creates == compound # "listed"
  <2>1. creates \in BOOLEAN /\ Member!Unknown \in Int /\ <<>> \in Reports /\ <<>> \in Seq(Nat)
    BY DEF Member!Unknown, Reports
  <2>2. a = [field |-> f, index |-> i, creates |-> creates, parts |-> <<>>, spin |-> 0,
             item |-> Member!Unknown, bytes |-> <<>>, checked |-> FALSE, told |-> <<>>, ok |-> TRUE]
    OBVIOUS
  <2> HIDE DEF creates, a
  <2>3. /\ a \in MemberWidgets /\ a.field = f /\ a.index = i /\ a.ok /\ (a.creates <=> creates)
    BY <1>4, <1>5, <2>1, <2>2 DEF MemberWidgets
  <2> QED BY <2>3 DEF creates
<1> HIDE DEF a
<1>7. Member!CanWrite(a)
  BY <1>5, <1>6 DEF Member!CanWrite
<1>8. Settled(w) /\ Belongs(w) /\ (w.creates <=> compound # "listed") /\ w.ok
  BY <1>2, <1>5, <1>6, <1>7, MadeIsSound
<1>9. Member!PartsAreMembers /\ Member!BytesAreShown /\ Fits
  BY <1>8 DEF Settled, Member!PartsAreMembers, Member!BytesAreShown, Fits
<1>10. Member!SelectionIsCurrent
  <2>1. compound = "optional" => w.checked = (w.index = Member!Exists)
    <3>1. w.checked \in BOOLEAN
      BY <1>8 DEF Settled, MemberWidgets
    <3> QED BY <1>8, <3>1 DEF Settled
  <2> QED BY <1>8, <2>1 DEF Belongs, Member!SelectionIsCurrent
<1> QED BY <1>2, <1>8, <1>9, <1>10 DEF MemberSound, Settled, Member!NoAssertionFails

-----------------------------------------------------------------------------
(* The steps.  Each of them starts from a widget without a failed assertion.    *)
LEMMA MemberNow ==
  ASSUME MemberSound, w.ok
  PROVE  /\ Settled(w) /\ Belongs(w) /\ (compound # "listed" => w.creates)
<1>1. compound = "optional" => (w.checked <=> w.index = Member!Exists)
  BY DEF MemberSound, Member!SelectionIsCurrent
<1>2. Settled(w)
  BY <1>1 DEF MemberSound, Settled, Member!PartsAreMembers, Member!BytesAreShown, Fits
<1>3. Belongs(w)
  BY DEF MemberSound, Belongs, Member!SelectionIsCurrent
<1> QED BY <1>2, <1>3 DEF MemberSound

Keeps(a, b) ==
  /\ b.field = a.field /\ b.index = a.index /\ b.spin = a.spin /\ b.item = a.item
  /\ b.creates <=> a.creates
  /\ b.ok <=> a.ok /\ Member!CanWrite(a)

LEMMA RefreshKeeps ==
  ASSUME NEW a \in MemberWidgets
  PROVE  Keeps(a, Member!Refresh(a)) /\ Keeps(a, Member!Emit(Member!Refresh(a)))
<1> DEFINE b == Member!Refresh(a)
           c == Member!Emit(b)
<1>1. IsRefreshed(a, b)
  BY Refreshes
<1> HIDE DEF b
<1>2. IsReported(b, c)
  BY <1>1, Emits DEF IsRefreshed
<1> HIDE DEF c
<1> QED BY <1>1, <1>2 DEF IsRefreshed, IsReported, Keeps, b, c

LEMMA KeptBelongs ==
  ASSUME NEW a, NEW b, Keeps(a, b), Belongs(a) PROVE Belongs(b)
BY DEF Keeps, Belongs

(* A list: what is added may be too much, what is removed or set back is not.   *)
LEMMA AddSound ==
  ASSUME MemberSound, Member!AddNewField PROVE MemberSound'
<1> DEFINE a == [w EXCEPT !.field = Append(@, Member!Default)]
<1>1. /\ w.ok /\ compound = "list" /\ w' = Member!Emit(Member!Refresh(a)) /\ UNCHANGED compound
      /\ overfull' = (overfull \/ Member!Length(w.field) + 1 > MaxLength)
  BY DEF Member!AddNewField, Member!Counted
<1>2. w \in MemberWidgets /\ w.creates /\ w.field \in Seq(Nat)
  BY <1>1 DEF MemberSound, MemberWidgets
<1>3. a \in MemberWidgets /\ (a.ok <=> w.ok) /\ (a.creates <=> w.creates) /\ a.field = Append(w.field, 0)
  <2> DEFINE f == Append(w.field, Member!Default)
  <2>1. f \in Seq(Nat) /\ f = Append(w.field, 0)
    BY <1>2, AppendProperties DEF Member!Default
  <2>2. a = [w EXCEPT !.field = f]
    OBVIOUS
  <2> HIDE DEF f, a
  <2> QED BY <1>2, <2>1, <2>2 DEF MemberWidgets
<1> HIDE DEF a
<1>4. Settled(w') /\ Keeps(a, w')
  BY <1>1, <1>3, EmitSettles, RefreshKeeps
<1>5. Member!Length(a.field) = Member!Length(w.field) + 1 + 0 /\ Member!Length(w.field) \in Nat
  BY <1>2, <1>3, LengthOfAppend
<1>6. w'.ok \/ overfull'
  <2>1. Member!Length(w.field) + 1 + 0 = Member!Length(w.field) + 1 /\ MaxLength \in Nat
    BY <1>5, DataPartsAssumption
  <2>2. Member!CanWrite(a) \/ Member!Length(w.field) + 1 > MaxLength
    BY <1>5, <2>1 DEF Member!CanWrite
  <2> QED BY <1>1, <1>3, <1>4, <2>2 DEF Keeps
<1>7. Safe(w') /\ Belongs(w')
  BY <1>1, <1>2, <1>3, <1>4, <1>6 DEF Safe, Belongs, Keeps, Member!Variants
<1> QED BY <1>1, <1>4, <1>7, SettledIsSound DEF MemberSound

LEMMA RemoveSound ==
  ASSUME MemberSound, NEW i, Member!RemoveField(i) PROVE MemberSound'
<1> DEFINE a == [w EXCEPT !.field = Member!RemoveAt(@, i)]
<1>1. /\ w.ok /\ compound = "list" /\ w' = Member!Emit(Member!Refresh(a)) /\ UNCHANGED <<compound, overfull>>
      /\ i \in DOMAIN w.parts
  BY DEF Member!RemoveField, Member!Counted, Member!Removed
<1>2. w \in MemberWidgets /\ w.creates /\ w.field \in Seq(Nat) /\ w.parts = w.field
  BY <1>1 DEF MemberSound, MemberWidgets, Member!PartsAreMembers
<1>3. i \in 1 .. Len(w.field)
  BY <1>1, <1>2
<1>4. Member!RemoveAt(w.field, i) \in Seq(Nat) /\ Member!Length(Member!RemoveAt(w.field, i)) <= Member!Length(w.field)
  BY <1>2, <1>3, RemovedFrom, LengthOfRemoved
<1>5. a \in MemberWidgets /\ (a.ok <=> w.ok) /\ (a.creates <=> w.creates) /\ a.field = Member!RemoveAt(w.field, i)
  BY <1>2, <1>4 DEF MemberWidgets
<1> HIDE DEF a
<1>6. Settled(w') /\ Keeps(a, w')
  BY <1>1, <1>5, EmitSettles, RefreshKeeps
<1>7. Member!CanWrite(a)
  <2>1. Member!Length(w.field) \in Nat /\ Member!Length(a.field) \in Nat
    BY <1>2, <1>5, LengthOfAppend, 0 \in Nat DEF MemberWidgets
  <2>2. Member!Length(w.field) <= MaxLength /\ MaxLength \in Nat
    BY <1>1, DataPartsAssumption DEF MemberSound, Fits
  <2> QED BY <1>4, <1>5, <2>1, <2>2 DEF Member!CanWrite
<1>8. Safe(w') /\ Belongs(w')
  BY <1>1, <1>2, <1>5, <1>6, <1>7 DEF Safe, Belongs, Keeps, Member!Variants
<1> QED BY <1>1, <1>6, <1>8, SettledIsSound DEF MemberSound

LEMMA EditMemberSound ==
  ASSUME MemberSound, NEW i, NEW m \in Member!Members, Member!EditMember(i, m)
  PROVE  MemberSound' /\ w'.index = w.index
<1> DEFINE a == [w EXCEPT !.field[i] = m, !.parts[i] = m]
           b == IF Member!CanWrite(a) THEN a
                ELSE [a EXCEPT !.field[i] = Member!Default, !.parts[i] = Member!Default]
           c == Member!RefreshInternal(b)
<1>1. /\ w.ok /\ w' = Member!Emit(c) /\ UNCHANGED <<compound, overfull>> /\ i \in DOMAIN w.parts
      /\ compound = "optional" => w.index = Member!Exists
  BY DEF Member!EditMember, Member!Counted, Member!MemberUpdated
<1>2. w \in MemberWidgets /\ w.field \in Seq(Nat) /\ w.parts = w.field /\ Settled(w) /\ Belongs(w)
  BY <1>1, MemberNow DEF MemberSound, MemberWidgets, Member!PartsAreMembers
<1>3. m \in Nat /\ i \in 1 .. Len(w.field)
  <2>1. m \in Nat
    BY DataPartsAssumption DEF Member!Members
  <2>2. DOMAIN w.parts = 1 .. Len(w.field)
    BY <1>2
  <2> QED BY <1>1, <2>1, <2>2
<1> DEFINE f == [w.field EXCEPT ![i] = m]
           g == [w.field EXCEPT ![i] = 0]
<1>4. /\ f \in Seq(Nat) /\ g \in Seq(Nat) /\ [f EXCEPT ![i] = 0] = g
      /\ Len(g) = Len(w.field) /\ \A k \in 1 .. Len(w.field) : g[k] <= w.field[k]
      /\ (f = <<>> <=> w.field = <<>>) /\ (g = <<>> <=> w.field = <<>>)
  BY <1>2, <1>3
<1>5. a = [w EXCEPT !.field = f, !.parts = f]
  BY <1>2 DEF MemberWidgets
<1> HIDE DEF f, g, a
<1>6. /\ a \in MemberWidgets /\ a.field = f /\ a.parts = f /\ a.index = w.index /\ a.spin = w.spin /\ a.item = w.item
      /\ (a.ok <=> w.ok) /\ (a.creates <=> w.creates) /\ (a.checked <=> w.checked)
  BY <1>2, <1>4, <1>5 DEF MemberWidgets
<1>7. [a EXCEPT !.field[i] = Member!Default, !.parts[i] = Member!Default] = [a EXCEPT !.field = g, !.parts = g]
  BY <1>4, <1>6 DEF MemberWidgets, Member!Default
<1>8. /\ b \in MemberWidgets /\ b.field \in {f, g} /\ b.parts = b.field /\ b.index = w.index /\ b.spin = w.spin
      /\ b.item = w.item /\ (b.ok <=> w.ok) /\ (b.creates <=> w.creates) /\ (b.checked <=> w.checked)
  BY <1>4, <1>6, <1>7 DEF MemberWidgets
<1>9. Member!CanWrite(b)
  <2>1. CASE Member!CanWrite(a)
    BY <2>1
  <2>2. CASE ~Member!CanWrite(a)
    <3>1. b.field = g /\ compound = "list"
      BY <1>4, <1>6, <1>7, <2>2 DEF MemberWidgets, Member!CanWrite
    <3>2. Member!Length(g) <= Member!Length(w.field) /\ Member!Length(g) \in Nat /\ Member!Length(w.field) \in Nat
      BY <1>2, <1>4, LengthGrows, LengthOfAppend, 0 \in Nat
    <3>3. Member!Length(w.field) <= MaxLength /\ MaxLength \in Nat
      BY <1>1, <3>1, DataPartsAssumption DEF MemberSound, Fits
    <3> QED BY <3>1, <3>2, <3>3 DEF Member!CanWrite
  <2> QED BY <2>1, <2>2
<1> HIDE DEF b
<1>10. IsShown(b, c)
  BY <1>8, Shows
<1> HIDE DEF c
<1>11. IsReported(c, w')
  BY <1>1, <1>10, Emits DEF IsShown
<1>12. /\ w'.field = b.field /\ w'.index = b.index /\ w'.parts = b.parts /\ w'.spin = b.spin /\ w'.item = b.item
       /\ (w'.creates <=> b.creates) /\ w'.ok
       /\ Member!Value(w') = Member!Value(b) /\ Member!Value(c) = Member!Value(b)
  BY <1>1, <1>8, <1>9, <1>10, <1>11 DEF IsShown, IsReported, Member!Value
<1>13. compound = "list" => Member!Length(w'.field) <= MaxLength
  BY <1>9, <1>12 DEF Member!CanWrite
<1>14. Settled(w')
  BY <1>8, <1>10, <1>11, <1>12, <1>13 DEF IsShown, IsReported, Settled
<1>15. Safe(w') /\ Belongs(w')
  BY <1>1, <1>2, <1>4, <1>8, <1>12 DEF Safe, Belongs, MemberSound
<1> QED BY <1>1, <1>8, <1>12, <1>14, <1>15, SettledIsSound DEF MemberSound

(* A variant: the new member starts with its default, by which updateCurrent()  *)
(* asserts that there is a creator.                                          *)
LEMMA SelectedMember ==
  ASSUME NEW a \in MemberWidgets, NEW index \in Int
  PROVE  LET b == Member!Selected(a, index)
         IN  /\ b \in MemberWidgets /\ b.index = index /\ b.spin = a.spin /\ b.item = a.item
             /\ (b.creates <=> a.creates) /\ (a.ok /\ a.creates => b.ok)
             /\ (index = Member!NoIndex <=> b.field = <<>>)
             /\ (index # Member!NoIndex => b.field = <<Member!Default>>)
<1> DEFINE d == Member!Destroyed(a)
           e == [d EXCEPT !.index = index]
<1>1. /\ d \in MemberWidgets /\ d.field = <<>> /\ d.index = Member!NoIndex /\ d.spin = a.spin /\ d.item = a.item
      /\ (d.creates <=> a.creates) /\ (d.ok <=> a.ok)
  <2>1. <<>> \in Seq(Nat) /\ Member!NoIndex \in Int
    BY DEF Member!NoIndex
  <2>2. d = [a EXCEPT !.field = <<>>, !.parts = <<>>, !.index = Member!NoIndex]
    BY DEF Member!Destroyed
  <2> HIDE DEF d
  <2> QED BY <2>1, <2>2 DEF MemberWidgets
<1> HIDE DEF d
<1>2. /\ e \in MemberWidgets /\ e.index = index /\ e.spin = a.spin /\ e.item = a.item
      /\ (e.creates <=> a.creates) /\ (e.ok <=> a.ok)
  BY <1>1 DEF MemberWidgets
<1> HIDE DEF e
<1> DEFINE f == <<Member!Default>>
           u == Member!UpdateCurrent(e)
<1>3. f \in Seq(Nat) /\ f # <<>>
  BY DEF Member!Default
<1>4. /\ u \in MemberWidgets /\ u.index = index /\ u.spin = a.spin /\ u.item = a.item /\ u.field = f
      /\ (u.creates <=> a.creates) /\ (a.ok /\ a.creates => u.ok)
  <2>1. u = [[e EXCEPT !.ok = @ /\ e.creates] EXCEPT !.field = f, !.parts = f]
    BY DEF Member!UpdateCurrent, Member!Check
  <2> HIDE DEF f, u
  <2> QED BY <1>2, <1>3, <2>1 DEF MemberWidgets
<1>5. Member!Selected(a, index) = IF index = Member!NoIndex THEN d ELSE u
  BY DEF Member!Selected, e, d
<1> HIDE DEF u, f
<1> QED BY <1>1, <1>3, <1>4, <1>5 DEF f

StartsNew == w'.index # Member!NoIndex => w'.field = <<Member!Default>>

LEMMA SelectionSound ==
  ASSUME MemberSound, w.ok, compound \in Member!Variants, UNCHANGED <<compound, overfull>>,
         NEW a \in MemberWidgets, (a.creates <=> w.creates), (a.ok <=> w.ok), NEW index \in Int,
         NEW b, b \in MemberWidgets, b.field = Member!Selected(a, index).field, b.index = index,
         (b.creates <=> a.creates), (b.ok <=> Member!Selected(a, index).ok),
         b.spin = index, b.item = Member!ItemOf(index), w' = Member!Emit(Member!Refresh(b))
  PROVE  MemberSound' /\ StartsNew
<1> DEFINE s == Member!Selected(a, index)
<1>1. /\ (index = Member!NoIndex <=> s.field = <<>>) /\ (a.ok /\ a.creates => s.ok)
      /\ (index # Member!NoIndex => s.field = <<Member!Default>>)
  BY SelectedMember
<1> HIDE DEF s
<1>2. Settled(w') /\ Keeps(b, w')
  BY EmitSettles, RefreshKeeps
<1>3. Belongs(b)
  BY <1>1 DEF Belongs, s
<1>4. Member!CanWrite(b)
  BY DEF Member!CanWrite, Member!Variants
<1>5. Safe(w')
  BY <1>1, <1>2, <1>4 DEF Safe, Keeps, MemberSound, Member!Variants, s
<1>6. StartsNew
  BY <1>1, <1>2 DEF StartsNew, Keeps, s
<1> QED BY <1>2, <1>3, <1>5, <1>6, KeptBelongs, SettledIsSound DEF MemberSound

LEMMA ChooseIndexSound ==
  ASSUME MemberSound, NEW index \in Int, Member!ChooseIndex(index)
  PROVE  MemberSound' /\ StartsNew
<1> DEFINE a == [w EXCEPT !.spin = index]
           s == Member!Selected(a, index)
           b == [s EXCEPT !.item = Member!ItemOf(s.index)]
<1>1. /\ w.ok /\ compound \in Member!Variants /\ UNCHANGED <<compound, overfull>>
      /\ w' = Member!IndexUpdated(a, index) /\ index # w.spin
  BY DEF Member!ChooseIndex, Member!Counted
<1>2. w \in MemberWidgets /\ w.spin = w.index
  BY <1>1 DEF MemberSound, Member!SelectionIsCurrent
<1>3. a \in MemberWidgets /\ (a.creates <=> w.creates) /\ (a.ok <=> w.ok) /\ a.spin = index /\ a.index = w.index
  BY <1>2 DEF MemberWidgets
<1>4. w' = Member!Emit(Member!Refresh(b))
  BY <1>1, <1>2, <1>3 DEF Member!IndexUpdated
<1> HIDE DEF a
<1>5. s \in MemberWidgets /\ s.index = index /\ s.spin = index /\ (s.creates <=> a.creates)
  BY <1>3, SelectedMember
<1> HIDE DEF s
<1>6. Member!ItemOf(index) \in Int
  BY DEF Member!ItemOf, Member!Unknown
<1>7. /\ b \in MemberWidgets /\ b.field = s.field /\ b.index = index /\ b.spin = index
      /\ b.item = Member!ItemOf(index) /\ (b.creates <=> a.creates) /\ (b.ok <=> s.ok)
  BY <1>5, <1>6 DEF MemberWidgets
<1> HIDE DEF b
<1> QED BY <1>1, <1>3, <1>4, <1>7, SelectionSound DEF s

LEMMA ChooseItemSound ==
  ASSUME MemberSound, NEW item \in Named \cup {Member!Unknown}, Member!ChooseItem(item)
  PROVE  MemberSound' /\ StartsNew
<1> DEFINE a == [w EXCEPT !.item = item]
           s == Member!Selected(a, item)
           b == [s EXCEPT !.spin = s.index]
<1>1. /\ w.ok /\ compound \in Member!Variants /\ UNCHANGED <<compound, overfull>>
      /\ w' = Member!MemberComboUpdated(a, item) /\ item # w.item
  BY DEF Member!ChooseItem, Member!Counted
<1>2. w \in MemberWidgets /\ w.item = Member!ItemOf(w.index)
  BY <1>1 DEF MemberSound, Member!SelectionIsCurrent
<1>3. item \in Int /\ Member!ItemOf(item) = item
  BY DataPartsAssumption DEF Member!ItemOf, Member!Unknown
<1>4. a \in MemberWidgets /\ (a.creates <=> w.creates) /\ (a.ok <=> w.ok) /\ a.item = item /\ a.index = w.index
  BY <1>2, <1>3 DEF MemberWidgets
<1>5. ~(item = Member!Unknown /\ a.index = Member!NoIndex)
  BY <1>1, <1>2, <1>3, <1>4, DataPartsAssumption DEF Member!ItemOf, Member!Unknown, Member!NoIndex
<1>6. w' = Member!Emit(Member!Refresh(b))
  BY <1>1, <1>5 DEF Member!MemberComboUpdated
<1> HIDE DEF a
<1>7. s \in MemberWidgets /\ s.index = item /\ s.item = item /\ (s.creates <=> a.creates)
  BY <1>3, <1>4, SelectedMember
<1> HIDE DEF s
<1>8. /\ b \in MemberWidgets /\ b.field = s.field /\ b.index = item /\ b.spin = item
      /\ b.item = item /\ (b.creates <=> a.creates) /\ (b.ok <=> s.ok)
  BY <1>3, <1>7 DEF MemberWidgets
<1> HIDE DEF b
<1> QED BY <1>1, <1>3, <1>4, <1>6, <1>8, SelectionSound DEF s

(* The check box, which is set back when the field cannot be edited.           *)
LEMMA ToggleSound ==
  ASSUME MemberSound, Member!ToggleAvailable
  PROVE  MemberSound' /\ (editable \/ Member!Value(w') = Member!Value(w))
<1> DEFINE a == [w EXCEPT !.checked = ~@]
           mode == IF a.checked THEN Member!Exists ELSE Member!Missing
           b == [a EXCEPT !.index = mode]
<1>1. /\ w.ok /\ compound = "optional" /\ UNCHANGED <<compound, overfull>> /\ w' = Member!AvailabilityChanged(a)
  BY DEF Member!ToggleAvailable, Member!Counted
<1>2. w \in MemberWidgets /\ Settled(w)
  BY <1>1, MemberNow DEF MemberSound
<1>3. /\ a \in MemberWidgets /\ (a.ok <=> w.ok) /\ (a.creates <=> w.creates) /\ (a.checked <=> ~w.checked)
      /\ a.field = w.field /\ a.index = w.index /\ a.told = w.told /\ a.parts = w.parts
  BY <1>2 DEF MemberWidgets
<1>4. w.checked <=> w.index = Member!Exists
  BY <1>1, <1>2 DEF Settled
<1> HIDE DEF a
<1>5. mode # a.index /\ mode \in Int
  BY <1>3, <1>4 DEF Member!Exists, Member!Missing
<1> HIDE DEF mode
<1>6. Member!AvailabilityChanged(a) = IF ~editable THEN Member!RefreshInternal(a) ELSE Member!Emit(Member!Refresh(b))
  BY <1>5 DEF Member!AvailabilityChanged, mode
<1>7. /\ b \in MemberWidgets /\ (b.ok <=> w.ok) /\ (b.creates <=> w.creates)
  BY <1>3, <1>5 DEF MemberWidgets
<1> HIDE DEF b
<1>8. Settled(w') /\ Safe(w') /\ (editable \/ Member!Value(w') = Member!Value(w))
  <2>1. CASE editable
    <3>1. Settled(w') /\ Keeps(b, w')
      BY <1>1, <1>6, <1>7, <2>1, EmitSettles, RefreshKeeps
    <3> QED BY <1>1, <1>7, <2>1, <3>1 DEF Safe, Keeps, MemberSound, Member!CanWrite
  <2>2. CASE ~editable
    <3>1. IsShown(a, w')
      BY <1>1, <1>3, <1>6, <2>2, Shows
    <3>2. Member!Value(w') = Member!Value(w)
      BY <1>3, <3>1 DEF IsShown, Member!Value
    <3> QED BY <1>1, <1>2, <1>3, <3>1, <3>2 DEF Safe, IsShown, Settled, MemberSound, Member!CanWrite
  <2> QED BY <2>1, <2>2
<1>9. Belongs(w')
  BY <1>1 DEF Belongs, Member!Variants
<1> QED BY <1>1, <1>8, <1>9, SettledIsSound DEF MemberSound

LEMMA EditBytesSound ==
  ASSUME MemberSound, NEW s \in Member!Storage, Member!EditBytes(s) PROVE MemberSound'
<1> DEFINE a == [w EXCEPT !.field = s]
           b == Member!Emit(Member!Refresh(a))
<1>1. /\ w.ok /\ compound = "bitfield" /\ UNCHANGED <<compound, overfull>> /\ w' = Member!RefreshMembers(b)
  BY DEF Member!EditBytes, Member!Counted
<1>2. w \in MemberWidgets /\ s \in Seq(Nat)
  BY Stores DEF MemberSound
<1>3. a \in MemberWidgets /\ (a.ok <=> w.ok) /\ (a.creates <=> w.creates)
  BY <1>2 DEF MemberWidgets
<1> HIDE DEF a
<1>4. Settled(b) /\ Keeps(a, b)
  BY <1>3, EmitSettles, RefreshKeeps
<1> HIDE DEF b
<1>5. w' = b
  BY <1>1, <1>4 DEF Settled, MemberWidgets, Member!RefreshMembers
<1>6. Safe(w') /\ Belongs(w')
  BY <1>1, <1>3, <1>4, <1>5 DEF Safe, Belongs, Keeps, MemberSound, Member!CanWrite, Member!Variants
<1> QED BY <1>1, <1>4, <1>5, <1>6, SettledIsSound DEF MemberSound

LEMMA MemberRefreshSound ==
  ASSUME MemberSound, NEW s \in Member!Storage, NEW i \in Member!Indexes, Member!MessageRefreshed(s, i)
  PROVE  MemberSound' /\ (compound \in Member!Variants => w'.index = w.index)
<1> DEFINE t == <<i, s>>
           a == [w EXCEPT !.field = s, !.index = i, !.told = t]
           c == [a EXCEPT !.creates = TRUE]
<1>1. /\ w.ok /\ UNCHANGED <<compound, overfull>> /\ w' = IF compound = "listed" THEN Member!Made(c) ELSE Member!Refresh(a)
      /\ (compound \in Member!Variants => i = w.index /\ Len(s) = Len(w.field))
  BY DEF Member!MessageRefreshed, Member!Counted
<1>2. /\ w \in MemberWidgets /\ Belongs(w) /\ compound \in Member!Kinds /\ (compound # "listed" => w.creates)
  BY <1>1, MemberNow DEF MemberSound
<1>3. s \in Seq(Nat) /\ (compound = "list" => Member!Length(s) <= MaxLength) /\ (compound \in Member!Variants => s # <<>>)
  BY <1>2, Stores
<1>4. i \in Int
  BY DEF Member!Indexes, Member!NoIndex, Member!LastIndex, Member!Missing, Member!Tentative, Member!Exists
<1>5. t \in Reports
  BY <1>3, <1>4 DEF Reports
<1> HIDE DEF t
<1>6. /\ a \in MemberWidgets /\ a.field = s /\ a.index = i /\ a.told = t /\ (a.ok <=> w.ok) /\ (a.creates <=> w.creates)
      /\ a.spin = w.spin /\ a.item = w.item
  BY <1>2, <1>3, <1>4, <1>5 DEF MemberWidgets
<1> HIDE DEF a
<1>7. c \in MemberWidgets /\ c.field = s /\ c.index = i /\ (c.ok <=> w.ok) /\ c.creates
  BY <1>6 DEF MemberWidgets
<1> HIDE DEF c
<1>8. a.told = Member!Value(a)
  BY <1>6 DEF t, Member!Value
<1>9. compound \in Member!Variants => (i = Member!NoIndex <=> s = <<>>)
  <2> SUFFICES ASSUME compound \in Member!Variants PROVE i = Member!NoIndex <=> s = <<>>
    OBVIOUS
  <2>1. w.field \in Seq(Nat) /\ Len(s) = Len(w.field) /\ s # <<>>
    BY <1>1, <1>2, <1>3 DEF MemberWidgets
  <2>2. w.field # <<>>
    BY <1>3, <2>1
  <2> QED BY <1>1, <1>2, <2>1, <2>2 DEF Belongs
<1>10. Member!CanWrite(a) /\ Member!CanWrite(c)
  BY <1>3, <1>6, <1>7 DEF Member!CanWrite
<1>11. CASE compound = "listed"
  <2>1. /\ Settled(w') /\ (w'.creates <=> c.creates) /\ Belongs(w')
        /\ compound \in Member!Variants => w'.index = i
    BY <1>1, <1>2, <1>7, <1>9, <1>11, MadeIsSound
  <2> QED BY <1>1, <1>2, <1>11, <2>1, SettledIsSound DEF Safe
<1>12. CASE compound # "listed"
  <2>1. Settled(w') /\ Keeps(a, w')
    BY <1>1, <1>6, <1>8, <1>12, RefreshSettles, RefreshKeeps
  <2>2. Belongs(a) /\ w'.index = i
    BY <1>1, <1>2, <1>6, <1>9, <2>1 DEF Belongs, Keeps
  <2>3. Safe(w')
    BY <1>1, <1>2, <1>6, <1>10, <2>1 DEF Safe, Keeps
  <2> QED BY <1>1, <1>2, <2>1, <2>2, <2>3, KeptBelongs, SettledIsSound
<1> QED BY <1>11, <1>12

LEMMA MemberStays ==
  ASSUME MemberSound, UNCHANGED <<compound, w, overfull>>
  PROVE  MemberSound' /\ Member!ReadOnlyStaysStep /\ Member!SelectedIsNewStep
BY DEF MemberSound, Fits, Member!PartsAreMembers, Member!SelectionIsCurrent, Member!BytesAreShown, Member!Value,
       Member!NoAssertionFails, Member!Kinds, Member!Variants, Member!ItemOf, Member!Length,
       Member!ReadOnlyStaysStep, Member!SelectedIsNewStep

LEMMA MemberSteps ==
  ASSUME MemberSound, Member!Next
  PROVE  MemberSound' /\ Member!ReadOnlyStaysStep /\ Member!SelectedIsNewStep
<1>1. CASE Member!SetEditEnabled
  BY <1>1, MemberStays DEF Member!SetEditEnabled
<1>2. Member!NoIndex .. Member!LastIndex \subseteq Int
  BY DEF Member!NoIndex, Member!LastIndex
<1>3. CASE Member!ToggleAvailable
  BY <1>3, ToggleSound DEF Member!ToggleAvailable, Member!ReadOnlyStaysStep, Member!SelectedIsNewStep, Member!Variants
<1>4. CASE Member!AddNewField
  BY <1>4, AddSound DEF Member!AddNewField, Member!ReadOnlyStaysStep, Member!SelectedIsNewStep, Member!Variants
<1>5. ASSUME NEW i \in 1 .. MaxLength, Member!RemoveField(i)
      PROVE  MemberSound' /\ Member!ReadOnlyStaysStep /\ Member!SelectedIsNewStep
  BY <1>5, RemoveSound DEF Member!RemoveField, Member!ReadOnlyStaysStep, Member!SelectedIsNewStep, Member!Variants
<1>6. ASSUME NEW i \in 1 .. MaxLength, NEW m \in Member!Members, Member!EditMember(i, m)
      PROVE  MemberSound' /\ Member!ReadOnlyStaysStep /\ Member!SelectedIsNewStep
  BY <1>6, EditMemberSound DEF Member!EditMember, Member!ReadOnlyStaysStep, Member!SelectedIsNewStep
<1>7. ASSUME NEW i \in Member!NoIndex .. Member!LastIndex, Member!ChooseIndex(i)
      PROVE  MemberSound' /\ Member!ReadOnlyStaysStep /\ Member!SelectedIsNewStep
  BY <1>2, <1>7, ChooseIndexSound DEF StartsNew, Member!ChooseIndex, Member!ReadOnlyStaysStep, Member!SelectedIsNewStep
<1>8. ASSUME NEW i \in Named \cup {Member!Unknown}, Member!ChooseItem(i)
      PROVE  MemberSound' /\ Member!ReadOnlyStaysStep /\ Member!SelectedIsNewStep
  BY <1>8, ChooseItemSound DEF StartsNew, Member!ChooseItem, Member!ReadOnlyStaysStep, Member!SelectedIsNewStep
<1>9. ASSUME NEW s \in Member!Storage, Member!EditBytes(s)
      PROVE  MemberSound' /\ Member!ReadOnlyStaysStep /\ Member!SelectedIsNewStep
  BY <1>9, EditBytesSound DEF Member!EditBytes, Member!ReadOnlyStaysStep, Member!SelectedIsNewStep, Member!Variants
<1>10. ASSUME NEW s \in Member!Storage, NEW i \in Member!Indexes, Member!MessageRefreshed(s, i)
       PROVE  MemberSound' /\ Member!ReadOnlyStaysStep /\ Member!SelectedIsNewStep
  BY <1>10, MemberRefreshSound DEF Member!MessageRefreshed, Member!ReadOnlyStaysStep, Member!SelectedIsNewStep
<1> QED BY <1>1, <1>3, <1>4, <1>5, <1>6, <1>7, <1>8, <1>9, <1>10 DEF Member!Next

LEMMA MemberInvariant == Spec => []MemberRun
<1>1. Init => MemberRun
  BY MemberInit DEF Init, MemberRun
<1>2. MemberRun /\ [Next]_vars => MemberRun'
  <2> SUFFICES ASSUME MemberRun, [Next]_vars PROVE MemberRun'
    OBVIOUS
  <2>1. CASE MemberStep /\ UNCHANGED subject
    BY <2>1, MemberSteps DEF MemberStep, MemberRun
  <2>2. CASE UNCHANGED <<subject, memberVars>>
    BY <2>2, MemberStays DEF memberVars, MemberRun
  <2>3. (MemberStep /\ UNCHANGED subject) \/ UNCHANGED <<subject, memberVars>>
    BY DEF Next, vars, fieldVars, SettingsStep, SerialStep, FrameStep, MsgFilesStep, FilesStep, NumberStep, TextStep
  <2> QED BY <2>1, <2>2, <2>3
<1> QED BY <1>1, <1>2, PTL DEF Spec

-----------------------------------------------------------------------------
(* The widgets of fields with a value.                                       *)
NumberKind == number \in Number!Kinds /\ how \in Number!Options

LEMMA OptionsOfKind ==
  ASSUME NumberKind
  PROVE  /\ how.offset \in {0, 1, 2} /\ how.step \in {1, 2}
         /\ number \notin {"short", "long", "longlong"} => how.offset = 0
         /\ number \notin {"scaled", "float", "ulonglong"} => how.step = 1
BY DEF NumberKind, Number!Options

(* Remainders of what is less than twice the number.                          *)
LEMMA Remainders ==
  ASSUME NEW n \in Nat, NEW x \in Nat, x < n
  PROVE  x % n = x /\ (x + n) % n = x
OBVIOUS

LEMMA RemainderInRange ==
  ASSUME NEW n \in Nat, n > 0, NEW x \in Int PROVE x % n \in 0 .. n - 1
OBVIOUS

(* A number is a value that is no special one of floats.                       *)
Ordinary == 0 .. MaxType

LEMMA OrdinaryNumbers ==
  ASSUME NumberKind
  PROVE  /\ Ordinary \subseteq Number!Values /\ 0 \in Ordinary /\ Number!Values \subseteq Nat
         /\ \A v \in Ordinary : v \notin Number!NotNumbers /\ v \in Nat
         /\ \A v \in Number!Values : v \in Ordinary \/ (number = "float" /\ v \in Number!NotNumbers)
BY ValuesAssumption DEF Ordinary, Number!Values, Number!NotNumbers, Number!Nan, Number!Inf, Number!MinusInf

LEMMA DisplayOf ==
  ASSUME NumberKind
  PROVE  /\ \A v \in Ordinary : Number!Display(v) = v + how.offset /\ Number!Display(v) \in Nat
         /\ \A v \in Number!NotNumbers : Number!Display(v) = v
         /\ \A v \in Number!Values : Number!Display(v) \in Nat
         /\ number \notin {"short", "long", "longlong"} => \A v \in Number!Values : Number!Display(v) = v
<1>1. how.offset \in Nat /\ (number \notin {"short", "long", "longlong"} => how.offset = 0)
  BY OptionsOfKind
<1>2. \A v \in Ordinary : Number!Display(v) = v + how.offset /\ Number!Display(v) \in Nat
  BY <1>1, OrdinaryNumbers DEF Number!Display
<1>3. \A v \in Number!NotNumbers : Number!Display(v) = v
  BY DEF Number!Display
<1> QED BY <1>1, <1>2, <1>3, OrdinaryNumbers

LEMMA FromDisplayOf ==
  ASSUME NumberKind
  PROVE  /\ \A d \in Nat : d \notin Number!NotNumbers => Number!FromDisplay(d) \in Ordinary
         /\ \A d \in Nat : how.offset <= d /\ d <= MaxType => Number!FromDisplay(d) = d - how.offset
         /\ \A d \in Number!NotNumbers : Number!FromDisplay(d) = d
<1>1. how.offset \in {0, 1, 2} /\ MaxType \in Nat /\ 2 <= MaxType
  BY OptionsOfKind, ValuesAssumption
<1>2. ASSUME NEW d \in Nat, d \notin Number!NotNumbers PROVE Number!FromDisplay(d) \in Ordinary
  <2>1. Number!FromDisplay(d) = (d + MaxType + 1 - how.offset) % (MaxType + 1)
    BY <1>2 DEF Number!FromDisplay
  <2>2. d + MaxType + 1 - how.offset \in Int /\ MaxType + 1 \in Nat /\ MaxType + 1 > 0 /\ (MaxType + 1) - 1 = MaxType
    BY <1>1
  <2> QED BY <2>1, <2>2, RemainderInRange DEF Ordinary
<1>3. ASSUME NEW d \in Nat, how.offset <= d, d <= MaxType PROVE Number!FromDisplay(d) = d - how.offset
  <2>1. d \notin Number!NotNumbers
    BY <1>1, <1>3 DEF Number!NotNumbers, Number!Nan, Number!Inf, Number!MinusInf
  <2>2. Number!FromDisplay(d) = (d + MaxType + 1 - how.offset) % (MaxType + 1)
    BY <2>1 DEF Number!FromDisplay
  <2>3. /\ d - how.offset \in Nat /\ d - how.offset < MaxType + 1 /\ MaxType + 1 \in Nat
        /\ d + MaxType + 1 - how.offset = (d - how.offset) + (MaxType + 1)
    BY <1>1, <1>3
  <2> QED BY <2>2, <2>3, Remainders
<1>4. \A d \in Number!NotNumbers : Number!FromDisplay(d) = d
  BY DEF Number!FromDisplay
<1> QED BY <1>2, <1>3, <1>4

LEMMA FitOf ==
  ASSUME NumberKind
  PROVE  \A d \in Nat : /\ Number!Fit(d) \in Nat /\ Number!Fit(d) <= d /\ Number!Fit(Number!Fit(d)) = Number!Fit(d)
                        /\ number \in {"short", "long"} => Number!Fit(d) = IF d > MaxType THEN MaxType ELSE d
                        /\ number \in {"enum", "bitmask", "longlong"} => Number!Fit(d) = d
<1>1. MaxType \in Nat /\ how.step \in {1, 2}
  BY ValuesAssumption, OptionsOfKind
<1>2. ASSUME NEW d \in Nat PROVE d - (d % how.step) \in Nat /\ d - (d % how.step) <= d
                                 /\ (d - (d % how.step)) - ((d - (d % how.step)) % how.step) = d - (d % how.step)
  <2>1. CASE how.step = 1
    BY <2>1
  <2>2. CASE how.step = 2
    BY <2>2
  <2> QED BY <1>1, <2>1, <2>2
<1>3. CASE number \in {"scaled", "float", "ulonglong"}
  BY <1>2, <1>3 DEF Number!Fit
<1>4. CASE number \notin {"scaled", "float", "ulonglong"}
  BY <1>1, <1>4 DEF Number!Fit, Number!Bounded
<1> QED BY <1>3, <1>4

(* What a spin box makes of a value is a value it shows as it is.               *)
LEMMA SpinSettles ==
  ASSUME NumberKind, number \in Number!SpinKinds, NEW f \in Ordinary
  PROVE  LET d == Number!Fit(Number!Display(f))
             v == Number!FromDisplay(d)
         IN  v \in Ordinary /\ Number!Display(v) = d /\ Number!Fit(d) = d /\ d \in Nat
<1> DEFINE x == Number!Display(f)
           d == Number!Fit(x)
           v == Number!FromDisplay(d)
<1>1. x = f + how.offset /\ x \in Nat /\ f \in Nat /\ f <= MaxType /\ MaxType \in Nat /\ 2 <= MaxType /\ how.offset \in {0, 1, 2}
  BY DisplayOf, OptionsOfKind, ValuesAssumption DEF Ordinary
<1> HIDE DEF x
<1>2. d \in Nat /\ Number!Fit(d) = d /\ d <= x
  BY <1>1, FitOf
<1>3. how.offset <= d /\ d <= MaxType
  <2>1. CASE number \in {"short", "long"}
    <3>1. d = IF x > MaxType THEN MaxType ELSE x
      BY <1>1, <2>1, FitOf
    <3> QED BY <1>1, <3>1
  <2>2. CASE number \in {"scaled", "float"}
    BY <1>1, <1>2, <2>2, OptionsOfKind
  <2> QED BY <2>1, <2>2 DEF Number!SpinKinds
<1> HIDE DEF d
<1>4. v = d - how.offset
  BY <1>2, <1>3, FromDisplayOf
<1>5. v \in Ordinary /\ v + how.offset = d
  BY <1>1, <1>2, <1>3, <1>4 DEF Ordinary
<1>6. Number!Display(v) = d
  BY <1>5, DisplayOf
<1> QED BY <1>2, <1>5, <1>6 DEF d, x

(* The same of the default, which replaces what cannot be written.             *)
LEMMA DefaultSettles ==
  ASSUME NumberKind
  PROVE  Number!Fit(Number!Display(0)) = Number!Display(0) /\ Number!CanWrite(0)
<1>1. Number!Display(0) = 0 + how.offset /\ how.offset \in {0, 1, 2} /\ MaxType \in Nat /\ 2 <= MaxType
  BY DisplayOf, OptionsOfKind, OrdinaryNumbers, ValuesAssumption
<1>2. Number!CanWrite(0)
  BY ValuesAssumption DEF Number!CanWrite
<1>3. CASE number \in {"scaled", "float", "ulonglong"}
  <2>1. Number!Display(0) = 0 /\ Number!Fit(0) \in Nat /\ Number!Fit(0) <= 0
    BY <1>1, <1>3, OptionsOfKind, FitOf
  <2> QED BY <1>2, <2>1
<1>4. CASE number \notin {"scaled", "float", "ulonglong"}
  BY <1>1, <1>2, <1>4, FitOf DEF NumberKind, Number!Kinds, Number!SpinKinds
<1> QED BY <1>3, <1>4

(* The parts of a refreshing: the line and the check, the box, the field that   *)
(* the box reports.                                                          *)
NumberStates == Number!States
Lined(a) == [Number!Check(a, Number!CanWrite(a.field)) EXCEPT !.line = a.field]
Boxed(a, d) == [a EXCEPT !.box = d]
Taken(a, v) == Number!ResetUnlessWritable([Number!Check(a, numberEditable \/ a.making) EXCEPT !.field = v])
Written(a, v) == Number!ResetUnlessWritable([a EXCEPT !.field = v])

Flags(a, b) == (b.connected <=> a.connected) /\ (b.making <=> a.making)

LEMMA IsLined ==
  ASSUME NEW a \in NumberStates
  PROVE  LET b == Lined(a)
         IN  /\ b \in NumberStates /\ b.field = a.field /\ b.line = a.field /\ b.box = a.box /\ b.old = a.old
             /\ b.told = a.told /\ b.special = a.special /\ Flags(a, b) /\ (b.ok <=> a.ok /\ Number!CanWrite(a.field))
<1> DEFINE c == Number!CanWrite(a.field)
<1>1. c \in BOOLEAN /\ a.field \in Int
  BY ValuesAssumption DEF Number!CanWrite, NumberStates, Number!States, Number!Values, Number!NotNumbers, Number!Nan, Number!Inf,
         Number!MinusInf
<1>2. Lined(a) = [[a EXCEPT !.ok = @ /\ c] EXCEPT !.line = a.field]
  BY DEF Lined, Number!Check
<1> HIDE DEF c
<1>3. LET b == Lined(a)
      IN  /\ b \in NumberStates /\ b.field = a.field /\ b.line = a.field /\ b.box = a.box /\ b.old = a.old
          /\ b.told = a.told /\ b.special = a.special /\ Flags(a, b) /\ (b.ok <=> a.ok /\ c)
  BY <1>1, <1>2 DEF NumberStates, Number!States, Flags
<1> QED BY <1>3 DEF c

LEMMA IsBoxed ==
  ASSUME NEW a \in NumberStates, NEW d \in Int
  PROVE  LET b == Boxed(a, d)
         IN  /\ b \in NumberStates /\ b.field = a.field /\ b.line = a.line /\ b.box = d /\ b.old = a.old
             /\ b.told = a.told /\ b.special = a.special /\ Flags(a, b) /\ (b.ok <=> a.ok)
BY DEF Boxed, NumberStates, Number!States, Flags

LEMMA IsWritten ==
  ASSUME NEW a \in NumberStates, NEW v \in Number!Values, NumberKind
  PROVE  LET b == Written(a, v)
         IN  /\ b \in NumberStates /\ b.line = a.line /\ b.box = a.box /\ b.old = a.old
             /\ b.told = a.told /\ b.special = a.special /\ Flags(a, b) /\ (b.ok <=> a.ok)
             /\ b.field = (IF Number!CanWrite(v) THEN v ELSE 0) /\ Number!CanWrite(b.field)
<1>1. 0 \in Number!Values /\ Number!CanWrite(0)
  BY OrdinaryNumbers, DefaultSettles
<1> DEFINE e == [a EXCEPT !.field = v]
<1>2. /\ e \in NumberStates /\ e.line = a.line /\ e.box = a.box /\ e.old = a.old /\ e.field = v
      /\ e.told = a.told /\ e.special = a.special /\ Flags(a, e) /\ (e.ok <=> a.ok)
  BY DEF NumberStates, Number!States, Flags
<1> HIDE DEF e
<1>3. Written(a, v) = IF Number!CanWrite(v) THEN e ELSE [e EXCEPT !.field = 0]
  BY <1>2 DEF Written, Number!ResetUnlessWritable, Number!Default, e
<1> DEFINE z == [e EXCEPT !.field = 0]
<1>4. /\ z \in NumberStates /\ z.line = e.line /\ z.box = e.box /\ z.old = e.old /\ z.field = 0
      /\ z.told = e.told /\ z.special = e.special /\ Flags(e, z) /\ (z.ok <=> e.ok)
  BY <1>1, <1>2 DEF NumberStates, Number!States, Flags
<1> HIDE DEF z
<1> QED BY <1>1, <1>2, <1>3, <1>4 DEF Flags, z

LEMMA IsTaken ==
  ASSUME NEW a \in NumberStates, NEW v \in Number!Values, NumberKind, numberEditable \in BOOLEAN
  PROVE  LET b == Taken(a, v)
         IN  /\ b \in NumberStates /\ b.line = a.line /\ b.box = a.box /\ b.old = a.old
             /\ b.told = a.told /\ b.special = a.special /\ Flags(a, b)
             /\ (b.ok <=> a.ok /\ (numberEditable \/ a.making))
             /\ b.field = (IF Number!CanWrite(v) THEN v ELSE 0) /\ Number!CanWrite(b.field)
<1> DEFINE c == numberEditable \/ a.making
           e == [a EXCEPT !.ok = @ /\ c]
<1>1. c \in BOOLEAN
  OBVIOUS
<1>2. Taken(a, v) = Written(e, v)
  BY DEF Taken, Written, Number!Check
<1> HIDE DEF c
<1>3. /\ e \in NumberStates /\ e.line = a.line /\ e.box = a.box /\ e.old = a.old /\ e.field = a.field
      /\ e.told = a.told /\ e.special = a.special /\ Flags(a, e) /\ (e.ok <=> a.ok /\ c)
  BY <1>1 DEF NumberStates, Number!States, Flags
<1> HIDE DEF e
<1>4. LET b == Written(e, v)
      IN  /\ b \in NumberStates /\ b.line = e.line /\ b.box = e.box /\ b.old = e.old
          /\ b.told = e.told /\ b.special = e.special /\ Flags(e, b) /\ (b.ok <=> e.ok)
          /\ b.field = (IF Number!CanWrite(v) THEN v ELSE 0) /\ Number!CanWrite(b.field)
  BY <1>3, IsWritten
<1> QED BY <1>2, <1>3, <1>4 DEF Flags, c

LEMMA IsEmitted ==
  ASSUME NEW a \in NumberStates
  PROVE  LET b == Number!Emit(a)
         IN  /\ b \in NumberStates /\ b.field = a.field /\ b.line = a.line /\ b.box = a.box /\ b.old = a.old
             /\ b.told = a.field /\ b.special = a.special /\ Flags(a, b) /\ (b.ok <=> a.ok)
<1>1. a.field \in Int
  BY ValuesAssumption DEF NumberStates, Number!States, Number!Values, Number!NotNumbers, Number!Nan, Number!Inf, Number!MinusInf
<1> QED BY <1>1 DEF Number!Emit, NumberStates, Number!States, Flags

-----------------------------------------------------------------------------
(* Of the refreshing of a widget: what the box shows already, or cannot tell,   *)
(* is left; otherwise the box reports, and the field is set and shown again.    *)
SpinQuiet(a) ==
  \/ a.field \in Number!NotNumbers \/ ~a.connected
  \/ Number!Fit(Number!Display(a.field)) \in {a.box, Number!Display(a.field)}

SpinShown(a) ==
  LET b == IF a.field \in Number!NotNumbers THEN Lined(a)
           ELSE Boxed(Lined(a), Number!Fit(Number!Display(a.field)))
      c == IF number = "float" /\ a.field \notin Number!NotNumbers THEN [b EXCEPT !.old = b.field] ELSE b
  IN  [c EXCEPT !.special = Number!SpecialOf(c.field)]

SpinCall(a) ==
  LET d == Number!Fit(Number!Display(a.field)) IN Taken(Boxed(Lined(a), d), Number!FromDisplay(d))

SpinReturned(b) ==
  LET c == IF number = "float" THEN [b EXCEPT !.old = b.field] ELSE b
  IN  [c EXCEPT !.special = Number!SpecialOf(c.field)]

LEMMA FieldsOfStates ==
  ASSUME NumberKind, NEW a \in NumberStates
  PROVE  /\ a.field \in Number!Values /\ a.field \in Nat /\ a.box \in Int /\ a.line \in Int /\ a.told \in Int /\ a.old \in Int
         /\ Number!Display(a.field) \in Nat /\ Number!Fit(Number!Display(a.field)) \in Nat
         /\ a.field \in Number!NotNumbers => number = "float"
         /\ a.field \notin Number!NotNumbers => a.field \in Ordinary
         /\ number = "float" => Number!Display(a.field) = a.field
<1>1. a.field \in Number!Values /\ a.box \in Int /\ a.line \in Int /\ a.told \in Int /\ a.old \in Int
  BY DEF NumberStates, Number!States
<1>2. Number!Display(a.field) \in Nat /\ a.field \in Nat /\ (number = "float" => Number!Display(a.field) = a.field)
  BY <1>1, DisplayOf, OrdinaryNumbers
<1>3. Number!Fit(Number!Display(a.field)) \in Nat
  BY <1>2, FitOf
<1> QED BY <1>1, <1>2, <1>3, OrdinaryNumbers

LEMMA SpinRefreshed ==
  ASSUME NumberKind, number \in Number!SpinKinds, NEW a \in NumberStates, NEW g
  PROVE  Number!Refreshed(g, a) = IF SpinQuiet(a) THEN SpinShown(a) ELSE SpinReturned(Number!Emit(g[SpinCall(a)]))
<1> DEFINE r == Lined(a)
           x == Number!Display(a.field)
           d == Number!Fit(x)
           b == Boxed(r, d)
           s == Number!SetSpin(g, r, x)
           n == SpinCall(a)
<1>1. /\ r \in NumberStates /\ r.field = a.field /\ r.box = a.box /\ (r.connected <=> a.connected)
  BY IsLined DEF Flags
<1>2. x \in Nat /\ d \in Nat /\ a.field \in Nat /\ (a.field \notin Number!NotNumbers => a.field \in Ordinary)
      /\ (a.field \in Number!NotNumbers => number = "float") /\ (number = "float" => x = a.field)
  BY FieldsOfStates
<1>3. Number!Refreshed(g, a) = [Number!SetBox(g, r) EXCEPT !.special = Number!SpecialOf(Number!SetBox(g, r).field)]
  BY DEF Number!Refreshed, Lined
<1> HIDE DEF r, x, d
<1>4. b \in NumberStates /\ b.field = a.field /\ b.box = d /\ (b.connected <=> a.connected)
  BY <1>1, <1>2, IsBoxed DEF Flags
<1>5. s = IF b.box # r.box /\ b.connected THEN Number!Updated(g, b, b.box) ELSE b
  BY DEF Number!SetSpin, Boxed, d
<1> HIDE DEF s
<1>6. Number!Updated(g, b, b.box) = IF b.box = Number!Display(b.field) THEN b
                                    ELSE Number!Take(g, b, Number!FromDisplay(b.box))
  BY DEF Number!Updated, Number!SpinUpdated, Number!SpinKinds
<1>7. Number!Take(g, b, Number!FromDisplay(b.box)) = Number!Emit(g[n])
  BY <1>4 DEF Number!Take, SpinCall, Taken, d, r, x
<1> HIDE DEF b, n
<1>8. a.field \notin Number!NotNumbers => s = IF SpinQuiet(a) THEN b ELSE Number!Emit(g[n])
  BY <1>1, <1>4, <1>5, <1>6, <1>7 DEF SpinQuiet, d, x
<1>9. CASE number # "float"
  <2>1. Number!SetBox(g, r) = s
    BY <1>1, <1>9 DEF Number!SetBox, Number!SpinKinds, s, x
  <2>2. a.field \notin Number!NotNumbers
    BY <1>2, <1>9
  <2> QED BY <1>3, <1>8, <1>9, <2>1, <2>2 DEF SpinShown, SpinReturned, b, d, r, x, n
<1>10. CASE number = "float"
  <2>1. Number!SetBox(g, r) = IF a.field \in Number!NotNumbers THEN r ELSE [s EXCEPT !.old = s.field]
    BY <1>1, <1>2, <1>10 DEF Number!SetBox, Number!SetFloat, s
  <2>2. CASE a.field \in Number!NotNumbers
    BY <1>3, <1>10, <2>1, <2>2 DEF SpinShown, SpinQuiet, r
  <2>3. CASE a.field \notin Number!NotNumbers
    BY <1>3, <1>8, <1>10, <2>1, <2>3 DEF SpinShown, SpinReturned, b, d, r, x, n
  <2> QED BY <2>2, <2>3
<1> QED BY <1>9, <1>10

LEMMA SpinCallIsQuiet ==
  ASSUME NumberKind, numberEditable \in BOOLEAN, number \in Number!SpinKinds, NEW a \in NumberStates, ~SpinQuiet(a)
  PROVE  LET n == SpinCall(a)
         IN  /\ n \in NumberStates /\ SpinQuiet(n) /\ Number!CanWrite(n.field) /\ Flags(a, n)
             /\ n.old = a.old
             /\ (n.ok <=> a.ok /\ Number!CanWrite(a.field) /\ (numberEditable \/ a.making))
<1> DEFINE d == Number!Fit(Number!Display(a.field))
           v == Number!FromDisplay(d)
           r == Lined(a)
           b == Boxed(r, d)
           n == SpinCall(a)
<1>1. a.field \in Ordinary
  BY FieldsOfStates DEF SpinQuiet
<1>2. v \in Ordinary /\ Number!Display(v) = d /\ Number!Fit(d) = d /\ d \in Nat
  BY <1>1, SpinSettles
<1>3. n = Taken(b, v)
  BY DEF SpinCall
<1> HIDE DEF n, v, d
<1>4. r \in NumberStates /\ Flags(a, r) /\ (r.ok <=> a.ok /\ Number!CanWrite(a.field)) /\ r.old = a.old
  BY IsLined
<1> HIDE DEF r
<1>5. b \in NumberStates /\ Flags(r, b) /\ (b.ok <=> r.ok) /\ b.old = r.old
  BY <1>2, <1>4, IsBoxed
<1> HIDE DEF b
<1>6. v \in Number!Values
  BY <1>2, OrdinaryNumbers
<1>7. /\ n \in NumberStates /\ Flags(b, n) /\ n.old = b.old /\ (n.ok <=> b.ok /\ (numberEditable \/ b.making))
      /\ n.field = (IF Number!CanWrite(v) THEN v ELSE 0) /\ Number!CanWrite(n.field)
  BY <1>3, <1>5, <1>6, IsTaken
<1>8. Number!Fit(Number!Display(n.field)) = Number!Display(n.field)
  BY <1>2, <1>7, DefaultSettles
<1>9. SpinQuiet(n)
  BY <1>8 DEF SpinQuiet
<1> QED BY <1>4, <1>5, <1>7, <1>9 DEF Flags, n

(* Lists: values that are not in the list share an item, which stands for one    *)
(* of them.                                                                  *)
EnumLeft(a) ==
  (~Number!Valid(a.field) /\ a.box = Number!Unknown) \/ a.field = Number!ValueOf(a.box)

EnumQuiet(a) ==
  LET item == Number!ItemOf(a.field)
  IN  \/ EnumLeft(a) \/ ~a.connected \/ item = a.box
      \/ ~Number!Valid(a.field) /\ item = Number!Unknown
      \/ numberEditable /\ Number!ValueOf(item) = a.field

EnumShown(a) ==
  LET b == IF EnumLeft(a) THEN Lined(a) ELSE Boxed(Lined(a), Number!ItemOf(a.field))
  IN  [b EXCEPT !.special = Number!SpecialOf(b.field)]

EnumCall(a) ==
  LET item == Number!ItemOf(a.field)
      b == Boxed(Lined(a), item)
  IN  IF ~numberEditable THEN b ELSE Number!Emit(Written(b, Number!ValueOf(item)))

Returned(b) == [b EXCEPT !.special = Number!SpecialOf(b.field)]

LEMMA InvalidIsNotListed ==
  /\ Number!InvalidValue \in 1 .. MaxSer /\ Number!InvalidValue \notin Listed
  /\ Number!InvalidValue \in Ordinary /\ Number!CanWrite(Number!InvalidValue)
<1>1. Number!InvalidValue \in 1 .. MaxSer /\ \A l \in Listed : l < Number!InvalidValue
  BY ValuesAssumption DEF Number!InvalidValue
<1>2. Number!InvalidValue \in Int /\ ~(Number!InvalidValue < Number!InvalidValue)
  BY <1>1, ValuesAssumption
<1> QED BY <1>1, <1>2, ValuesAssumption DEF Number!CanWrite, Ordinary

LEMMA ItemsOfEnum ==
  ASSUME NumberKind, NEW f \in Number!Values
  PROVE  /\ Number!ItemOf(f) \in Listed \cup {Number!Unknown} /\ Number!ItemOf(f) \in Int
         /\ Number!ItemOf(f) = Number!Unknown => f \notin Listed
         /\ Number!ItemOf(f) # Number!Unknown => Number!ItemOf(f) = f /\ f \in Listed
BY ValuesAssumption, OrdinaryNumbers DEF Number!ItemOf, Number!Unknown

LEMMA EnumRefreshed ==
  ASSUME NumberKind, number = "enum", NEW a \in NumberStates, NEW g
  PROVE  Number!Refreshed(g, a) = IF EnumQuiet(a) THEN EnumShown(a) ELSE Returned(g[EnumCall(a)])
<1> DEFINE r == Lined(a)
           item == Number!ItemOf(a.field)
           b == Boxed(r, item)
           s == Number!SetItem(g, r)
           n == EnumCall(a)
<1>1. /\ r \in NumberStates /\ r.field = a.field /\ r.box = a.box /\ (r.connected <=> a.connected)
  BY IsLined DEF Flags
<1>2. item \in Int /\ (item # Number!Unknown => Number!ValueOf(item) = a.field)
  BY ItemsOfEnum, FieldsOfStates DEF Number!ValueOf
<1>3. Number!Refreshed(g, a) = [s EXCEPT !.special = Number!SpecialOf(s.field)]
  BY DEF Number!Refreshed, Lined, Number!SetBox, Number!SpinKinds
<1> HIDE DEF r, item
<1>4. b \in NumberStates /\ b.field = a.field /\ b.box = item /\ (b.connected <=> a.connected)
  BY <1>1, <1>2, IsBoxed DEF Flags
<1>5. s = IF EnumLeft(a) THEN r ELSE IF b.connected /\ b.box # r.box THEN Number!Updated(g, b, b.box) ELSE b
  BY <1>1 DEF Number!SetItem, Boxed, EnumLeft, item
<1>6. Number!Updated(g, b, b.box) = Number!ItemUpdated(g, b, item)
  BY <1>4 DEF Number!Updated, Number!SpinKinds
<1>7. Number!ItemUpdated(g, b, item) =
        IF ~Number!Valid(a.field) /\ item = Number!Unknown THEN b
        ELSE IF ~numberEditable THEN g[b]
        ELSE IF Number!ValueOf(item) = a.field THEN b
        ELSE g[Number!Emit(Written(b, Number!ValueOf(item)))]
  BY <1>4 DEF Number!ItemUpdated, Written
<1> HIDE DEF b, s
<1>8. n = IF ~numberEditable THEN b ELSE Number!Emit(Written(b, Number!ValueOf(item)))
  BY DEF EnumCall, b, r, item
<1> HIDE DEF n
<1>9. s = IF EnumQuiet(a) THEN (IF EnumLeft(a) THEN r ELSE b) ELSE g[n]
  BY <1>1, <1>4, <1>5, <1>6, <1>7, <1>8 DEF EnumQuiet, item
<1> QED BY <1>3, <1>9 DEF EnumShown, Returned, n, b, r, item

LEMMA EnumCallIsQuiet ==
  ASSUME NumberKind, numberEditable \in BOOLEAN, number = "enum", NEW a \in NumberStates, ~EnumQuiet(a)
  PROVE  LET n == EnumCall(a)
         IN  /\ n \in NumberStates /\ EnumQuiet(n) /\ Flags(a, n) /\ n.box \in Listed \cup {Number!Unknown}
             /\ (n.ok <=> a.ok /\ Number!CanWrite(a.field))
             /\ (Number!CanWrite(a.field) => Number!CanWrite(n.field))
             /\ (~numberEditable => n.field = a.field /\ n.told = a.told)
<1> DEFINE r == Lined(a)
           item == Number!ItemOf(a.field)
           b == Boxed(r, item)
           n == EnumCall(a)
<1>1. /\ r \in NumberStates /\ r.field = a.field /\ r.box = a.box /\ Flags(a, r) /\ r.told = a.told
      /\ (r.ok <=> a.ok /\ Number!CanWrite(a.field))
  BY IsLined
<1>2. /\ item \in Int /\ item \in Listed \cup {Number!Unknown} /\ (item # Number!Unknown => item = a.field)
  BY ItemsOfEnum, FieldsOfStates
<1> HIDE DEF r
<1>3. b \in NumberStates /\ b.field = a.field /\ b.box = item /\ Flags(a, b) /\ (b.ok <=> r.ok) /\ b.told = a.told
  BY <1>1, <1>2, IsBoxed DEF Flags
<1>4. n = IF ~numberEditable THEN b ELSE Number!Emit(Written(b, Number!ValueOf(item)))
  BY DEF EnumCall, r
<1> HIDE DEF b, n
<1>5. CASE ~numberEditable
  <2>1. n = b
    BY <1>4, <1>5
  <2>2. EnumQuiet(n)
    BY <1>3, <2>1 DEF EnumQuiet
  <2> QED BY <1>1, <1>2, <1>3, <1>5, <2>1, <2>2 DEF n
<1>6. CASE numberEditable
  <2> DEFINE v == Number!InvalidValue
             y == Written(b, v)
  <2>1. item = Number!Unknown
    BY <1>2, <1>6 DEF EnumQuiet, Number!ValueOf
  <2>2. n = Number!Emit(y)
    BY <1>4, <1>6, <2>1 DEF Number!ValueOf
  <2>3. v \in Number!Values /\ Number!CanWrite(v)
    BY InvalidIsNotListed, OrdinaryNumbers
  <2> HIDE DEF v
  <2>4. y \in NumberStates /\ y.box = b.box /\ Flags(b, y) /\ (y.ok <=> b.ok) /\ y.field = v
    BY <1>3, <2>3, IsWritten
  <2> HIDE DEF y
  <2>5. n \in NumberStates /\ n.box = item /\ Flags(y, n) /\ (n.ok <=> y.ok) /\ n.field = v
    BY <1>3, <2>2, <2>4, IsEmitted
  <2>6. EnumQuiet(n)
    BY <2>1, <2>5 DEF EnumQuiet, EnumLeft, Number!ValueOf, v
  <2> QED BY <1>1, <1>2, <1>3, <1>6, <2>3, <2>4, <2>5, <2>6 DEF n, Flags
<1> QED BY <1>5, <1>6

(* Check boxes, and lines with numbers, which do not report.                   *)
MaskCall(a) ==
  IF numberEditable THEN Written(Boxed(Lined(a), a.field), a.field) ELSE Boxed(Lined(a), a.field)

LEMMA MaskRefreshed ==
  ASSUME NumberKind, number = "bitmask", NEW a \in NumberStates, NEW g
  PROVE  Number!Refreshed(g, a) =
           Returned(IF a.box = a.field THEN Lined(a)
                    ELSE IF numberEditable THEN Number!Emit(g[MaskCall(a)]) ELSE g[MaskCall(a)])
<1> DEFINE r == Lined(a)
           b == Boxed(r, a.field)
           s == Number!SetChecks(g, r)
<1>1. r.field = a.field /\ r.box = a.box
  BY IsLined
<1>2. Number!Refreshed(g, a) = Returned(s)
  BY DEF Number!Refreshed, Lined, Number!SetBox, Number!SpinKinds, Returned
<1> HIDE DEF r
<1>3. s = IF a.box = a.field THEN r ELSE Number!Updated(g, b, a.field)
  BY <1>1 DEF Number!SetChecks, Boxed
<1>4. Number!Updated(g, b, a.field) = Number!ChecksUpdated(g, b, a.field)
  BY DEF Number!Updated, Number!SpinKinds
<1>5. Number!ChecksUpdated(g, b, a.field) =
        IF numberEditable THEN Number!Emit(g[Written(b, a.field)]) ELSE g[b]
  BY DEF Number!ChecksUpdated, Written
<1> HIDE DEF b, s
<1> QED BY <1>2, <1>3, <1>4, <1>5 DEF MaskCall, b, r

LEMMA MaskCallIs ==
  ASSUME NumberKind, numberEditable \in BOOLEAN, number = "bitmask", NEW a \in NumberStates
  PROVE  LET n == MaskCall(a)
         IN  /\ n \in NumberStates /\ Flags(a, n) /\ n.box = a.field /\ n.told = a.told
             /\ (n.ok <=> a.ok /\ Number!CanWrite(a.field))
             /\ n.field = (IF ~numberEditable \/ Number!CanWrite(a.field) THEN a.field ELSE 0)
<1> DEFINE r == Lined(a)
           b == Boxed(r, a.field)
           y == Written(b, a.field)
<1>1. a.field \in Number!Values /\ a.field \in Int
  BY FieldsOfStates
<1>2. /\ r \in NumberStates /\ r.field = a.field /\ Flags(a, r) /\ r.told = a.told
      /\ (r.ok <=> a.ok /\ Number!CanWrite(a.field))
  BY IsLined
<1> HIDE DEF r
<1>3. b \in NumberStates /\ b.field = a.field /\ b.box = a.field /\ Flags(a, b) /\ (b.ok <=> r.ok) /\ b.told = a.told
  BY <1>1, <1>2, IsBoxed DEF Flags
<1> HIDE DEF b
<1>4. /\ y \in NumberStates /\ y.box = a.field /\ Flags(a, y) /\ (y.ok <=> b.ok) /\ y.told = a.told
      /\ y.field = (IF Number!CanWrite(a.field) THEN a.field ELSE 0)
  BY <1>1, <1>3, IsWritten DEF Flags
<1> HIDE DEF y
<1>5. MaskCall(a) = IF numberEditable THEN y ELSE b
  BY DEF MaskCall, y, b, r
<1> QED BY <1>2, <1>3, <1>4, <1>5

LEMMA LineRefreshed ==
  ASSUME NumberKind, number \in {"longlong", "ulonglong"}, NEW a \in NumberStates, NEW g
  PROVE  Number!Refreshed(g, a) = Returned(Number!SetText(Lined(a)))
BY DEF Number!Refreshed, Lined, Number!SetBox, Number!SpinKinds, Returned

-----------------------------------------------------------------------------
(* The calls end: a widget that is refreshed calls itself twice at most.  So    *)
(* there is a function as refresh is defined to be.                           *)
Depends(a, n) == \A g, h : g[n] = h[n] => Number!Refreshed(g, a) = Number!Refreshed(h, a)
Alone(a) == \A g, h : Number!Refreshed(g, a) = Number!Refreshed(h, a)

LEMMA CallsEnd ==
  ASSUME NumberKind, numberEditable \in BOOLEAN, NEW a \in NumberStates
  PROVE  \E n, m \in NumberStates : Depends(a, n) /\ Depends(n, m) /\ Alone(m)
<1>1. CASE number \in Number!SpinKinds
  <2>1. ASSUME NEW x \in NumberStates, SpinQuiet(x) PROVE Alone(x)
    BY <1>1, <2>1, SpinRefreshed DEF Alone
  <2>2. CASE SpinQuiet(a)
    BY <2>1, <2>2 DEF Depends, Alone
  <2>3. CASE ~SpinQuiet(a)
    <3> DEFINE n == SpinCall(a)
    <3>1. n \in NumberStates /\ Alone(n)
      BY <1>1, <2>1, <2>3, SpinCallIsQuiet
    <3>2. Depends(a, n)
      BY <1>1, <2>3, SpinRefreshed DEF Depends
    <3> HIDE DEF n
    <3> QED BY <3>1, <3>2 DEF Depends, Alone
  <2> QED BY <2>2, <2>3
<1>2. CASE number = "enum"
  <2>1. ASSUME NEW x \in NumberStates, EnumQuiet(x) PROVE Alone(x)
    BY <1>2, <2>1, EnumRefreshed DEF Alone
  <2>2. CASE EnumQuiet(a)
    BY <2>1, <2>2 DEF Depends, Alone
  <2>3. CASE ~EnumQuiet(a)
    <3> DEFINE n == EnumCall(a)
    <3>1. n \in NumberStates /\ Alone(n)
      BY <1>2, <2>1, <2>3, EnumCallIsQuiet
    <3>2. Depends(a, n)
      BY <1>2, <2>3, EnumRefreshed DEF Depends
    <3> HIDE DEF n
    <3> QED BY <3>1, <3>2 DEF Depends, Alone
  <2> QED BY <2>2, <2>3
<1>3. CASE number = "bitmask"
  <2>1. ASSUME NEW x \in NumberStates PROVE Depends(x, MaskCall(x)) /\ (x.box = x.field => Alone(x))
    BY <1>3, MaskRefreshed DEF Depends, Alone
  <2> DEFINE n == MaskCall(a)
             m == MaskCall(n)
  <2>2. n \in NumberStates /\ Depends(a, n) /\ n.box = a.field
        /\ n.field = (IF ~numberEditable \/ Number!CanWrite(a.field) THEN a.field ELSE 0)
    BY <1>3, <2>1, MaskCallIs
  <2> HIDE DEF n
  <2>3. /\ m \in NumberStates /\ Depends(n, m) /\ m.box = n.field
        /\ m.field = (IF ~numberEditable \/ Number!CanWrite(n.field) THEN n.field ELSE 0)
    BY <1>3, <2>1, <2>2, MaskCallIs
  <2> HIDE DEF m
  <2>4. m.box = m.field
    BY <2>2, <2>3, DefaultSettles
  <2>5. Alone(m)
    BY <2>1, <2>3, <2>4
  <2> QED BY <2>2, <2>3, <2>5
<1>4. CASE number \in {"longlong", "ulonglong"}
  BY <1>4, LineRefreshed DEF Depends, Alone
<1> QED BY <1>1, <1>2, <1>3, <1>4 DEF NumberKind, Number!Kinds

LEMMA RefreshExists ==
  ASSUME NumberKind, numberEditable \in BOOLEAN
  PROVE  \E f : f = [a \in NumberStates |-> Number!Refreshed(f, a)]
<1> DEFINE f0 == [a \in NumberStates |-> a]
           f1 == [a \in NumberStates |-> Number!Refreshed(f0, a)]
           f2 == [a \in NumberStates |-> Number!Refreshed(f1, a)]
           f3 == [a \in NumberStates |-> Number!Refreshed(f2, a)]
<1>1. ASSUME NEW a \in NumberStates PROVE Number!Refreshed(f2, a) = Number!Refreshed(f3, a)
  <2>1. PICK n \in NumberStates, m \in NumberStates : Depends(a, n) /\ Depends(n, m) /\ Alone(m)
    BY CallsEnd
  <2>2. f1[m] = Number!Refreshed(f0, m) /\ f2[m] = Number!Refreshed(f1, m)
    OBVIOUS
  <2>3. f2[n] = Number!Refreshed(f1, n) /\ f3[n] = Number!Refreshed(f2, n)
    OBVIOUS
  <2> HIDE DEF f0, f1, f2, f3
  <2>4. f1[m] = f2[m]
    BY <2>1, <2>2 DEF Alone
  <2>5. f2[n] = f3[n]
    BY <2>1, <2>3, <2>4 DEF Depends
  <2> QED BY <2>1, <2>5 DEF Depends
<1>2. f3 = [a \in NumberStates |-> Number!Refreshed(f3, a)]
  <2>1. f3 = [a \in NumberStates |-> Number!Refreshed(f2, a)]
    OBVIOUS
  <2> HIDE DEF f2, f3
  <2> QED BY <1>1, <2>1
<1> QED BY <1>2

LEMMA RefreshIs ==
  ASSUME NumberKind, numberEditable \in BOOLEAN, NEW a \in NumberStates
  PROVE  Number!refresh[a] = Number!Refreshed(Number!refresh, a)
<1> DEFINE f == CHOOSE f : f = [b \in NumberStates |-> Number!Refreshed(f, b)]
<1>1. f = [b \in NumberStates |-> Number!Refreshed(f, b)]
  BY RefreshExists
<1>2. Number!refresh = f
  BY DEF Number!refresh, NumberStates
<1> HIDE DEF f
<1> QED BY <1>1, <1>2

-----------------------------------------------------------------------------
(* What a refreshing results in: the parts show the field, which is as it was   *)
(* unless the box had to report another value.                               *)
Agrees(b) ==
  /\ b.line = b.field /\ b.special = Number!SpecialOf(b.field)
  /\ number = "enum" => b.box = Number!ItemOf(b.field)
  /\ number = "bitmask" => b.box = b.field
  /\ number \in {"longlong", "ulonglong"} =>
       Number!Fit(Number!Parsed(b.box)) = Number!Fit(Number!Display(b.field))
  /\ number \in Number!SpinKinds /\ b.field \notin Number!NotNumbers => b.box = Number!Fit(Number!Display(b.field))

Still(a) ==
  /\ number \in Number!SpinKinds => SpinQuiet(a)
  /\ number = "enum" => EnumQuiet(a) \/ ~numberEditable
  /\ number = "bitmask" => ~numberEditable \/ Number!CanWrite(a.field)

Unmoved(a, b) == b.field = a.field /\ b.told \in {a.told, b.field}
Writable(a) == Number!CanWrite(a.field)
Allowed(a) == numberEditable \/ a.making
Remembered(a) == a.old \in 0 .. MaxSer

Result(a, b) ==
  /\ b \in NumberStates /\ Flags(a, b) /\ Agrees(b)
  /\ Still(a) => Unmoved(a, b)
  /\ Writable(a) => Writable(b)
  /\ Writable(a) /\ (Still(a) \/ Allowed(a)) => (b.ok <=> a.ok)
  /\ number = "float" /\ Writable(a) /\ Remembered(a) => Remembered(b)

LEMMA SpecialIsInt ==
  ASSUME NumberKind, NEW f \in Number!Values PROVE Number!SpecialOf(f) \in Int
BY OrdinaryNumbers DEF Number!SpecialOf, Number!NotSpecial

LEMMA IsReturned ==
  ASSUME NumberKind, NEW a \in NumberStates
  PROVE  LET b == Returned(a)
         IN  /\ b \in NumberStates /\ b.field = a.field /\ b.line = a.line /\ b.box = a.box /\ b.old = a.old
             /\ b.told = a.told /\ b.special = Number!SpecialOf(a.field) /\ Flags(a, b) /\ (b.ok <=> a.ok)
<1> DEFINE s == Number!SpecialOf(a.field)
<1>1. s \in Int
  BY SpecialIsInt, FieldsOfStates
<1>2. Returned(a) = [a EXCEPT !.special = s]
  BY DEF Returned
<1> HIDE DEF s
<1>3. LET b == Returned(a)
      IN  /\ b \in NumberStates /\ b.field = a.field /\ b.line = a.line /\ b.box = a.box /\ b.old = a.old
          /\ b.told = a.told /\ b.special = s /\ Flags(a, b) /\ (b.ok <=> a.ok)
  BY <1>1, <1>2 DEF NumberStates, Number!States, Flags
<1> QED BY <1>3 DEF s

(* The last number of a float is kept for when it is one again.                *)
Saved(a) == [a EXCEPT !.old = a.field]

LEMMA IsSaved ==
  ASSUME NumberKind, NEW a \in NumberStates
  PROVE  LET b == Saved(a)
         IN  /\ b \in NumberStates /\ b.field = a.field /\ b.line = a.line /\ b.box = a.box /\ b.old = a.field
             /\ b.told = a.told /\ b.special = a.special /\ Flags(a, b) /\ (b.ok <=> a.ok)
<1>1. a.field \in Int
  BY FieldsOfStates
<1> QED BY <1>1 DEF Saved, NumberStates, Number!States, Flags

LEMMA IsSpinShown ==
  ASSUME NumberKind, number \in Number!SpinKinds, NEW a \in NumberStates
  PROVE  LET b == SpinShown(a)
         IN  /\ b \in NumberStates /\ b.field = a.field /\ b.told = a.told /\ Flags(a, b) /\ Agrees(b)
             /\ (b.ok <=> a.ok /\ Writable(a))
             /\ b.old = (IF number = "float" /\ a.field \notin Number!NotNumbers THEN a.field ELSE a.old)
<1> DEFINE d == Number!Fit(Number!Display(a.field))
           r == Lined(a)
           x == Boxed(r, d)
           y == IF a.field \in Number!NotNumbers THEN r ELSE x
           z == IF number = "float" /\ a.field \notin Number!NotNumbers THEN Saved(y) ELSE y
<1>1. d \in Nat
  BY FieldsOfStates
<1>2. SpinShown(a) = Returned(z)
  BY DEF SpinShown, Saved, Returned
<1> HIDE DEF d
<1>3. /\ r \in NumberStates /\ r.field = a.field /\ r.line = a.field /\ r.told = a.told /\ Flags(a, r)
      /\ r.old = a.old /\ (r.ok <=> a.ok /\ Writable(a))
  BY IsLined DEF Writable
<1> HIDE DEF r
<1>4. /\ x \in NumberStates /\ x.field = a.field /\ x.line = a.field /\ x.told = a.told /\ Flags(a, x) /\ x.box = d
      /\ x.old = a.old /\ (x.ok <=> a.ok /\ Writable(a))
  BY <1>1, <1>3, IsBoxed DEF Flags
<1> HIDE DEF x
<1>5. /\ y \in NumberStates /\ y.field = a.field /\ y.line = a.field /\ y.told = a.told /\ Flags(a, y)
      /\ (a.field \notin Number!NotNumbers => y.box = d) /\ y.old = a.old /\ (y.ok <=> a.ok /\ Writable(a))
  BY <1>3, <1>4
<1> HIDE DEF y
<1>6. /\ z \in NumberStates /\ z.field = a.field /\ z.line = a.field /\ z.told = a.told /\ Flags(a, z)
      /\ (a.field \notin Number!NotNumbers => z.box = d) /\ (z.ok <=> a.ok /\ Writable(a))
      /\ z.old = (IF number = "float" /\ a.field \notin Number!NotNumbers THEN a.field ELSE a.old)
  BY <1>5, IsSaved DEF Flags
<1> HIDE DEF z
<1> DEFINE b == Returned(z)
<1>7. /\ b \in NumberStates /\ b.field = a.field /\ b.line = a.field /\ b.told = a.told /\ Flags(a, b)
      /\ (a.field \notin Number!NotNumbers => b.box = d) /\ (b.ok <=> a.ok /\ Writable(a))
      /\ b.old = (IF number = "float" /\ a.field \notin Number!NotNumbers THEN a.field ELSE a.old)
      /\ b.special = Number!SpecialOf(a.field)
  BY <1>6, IsReturned DEF Flags
<1> HIDE DEF b
<1>8. Agrees(b)
  BY <1>7 DEF Agrees, d, Number!SpinKinds
<1> QED BY <1>2, <1>7, <1>8 DEF b

LEMMA WritableIsOrdinary ==
  ASSUME NumberKind, NEW a \in NumberStates, Writable(a), a.field \notin Number!NotNumbers
  PROVE  a.field \in 0 .. MaxSer
BY FieldsOfStates, ValuesAssumption DEF Writable, Number!CanWrite

LEMMA SpinCallIsOrdinary ==
  ASSUME NumberKind, numberEditable \in BOOLEAN, number \in Number!SpinKinds, NEW a \in NumberStates, a.field \in Ordinary
  PROVE  SpinCall(a).field \in Ordinary
<1> DEFINE d == Number!Fit(Number!Display(a.field))
           v == Number!FromDisplay(d)
           b == Boxed(Lined(a), d)
<1>1. v \in Ordinary /\ d \in Nat
  BY SpinSettles
<1>2. SpinCall(a) = Taken(b, v)
  BY DEF SpinCall
<1> HIDE DEF v, d
<1>3. b \in NumberStates
  BY <1>1, IsLined, IsBoxed
<1> HIDE DEF b
<1>4. Taken(b, v).field = (IF Number!CanWrite(v) THEN v ELSE 0)
  BY <1>1, <1>3, IsTaken, OrdinaryNumbers
<1> QED BY <1>1, <1>2, <1>4, OrdinaryNumbers

LEMMA SpinResult ==
  ASSUME NumberKind, numberEditable \in BOOLEAN, number \in Number!SpinKinds, NEW a \in NumberStates
  PROVE  Result(a, Number!refresh[a])
<1>1. \A x \in NumberStates : SpinQuiet(x) => Number!refresh[x] = SpinShown(x)
  BY RefreshIs, SpinRefreshed
<1>2. CASE SpinQuiet(a)
  <2> DEFINE b == SpinShown(a)
  <2>1. Number!refresh[a] = b
    BY <1>1, <1>2
  <2>2. /\ b \in NumberStates /\ b.field = a.field /\ b.told = a.told /\ Flags(a, b) /\ Agrees(b)
        /\ (b.ok <=> a.ok /\ Writable(a))
        /\ b.old = (IF number = "float" /\ a.field \notin Number!NotNumbers THEN a.field ELSE a.old)
    BY IsSpinShown
  <2> HIDE DEF b
  <2>3. Result(a, b)
    BY <2>2, WritableIsOrdinary DEF Result, Unmoved, Writable, Remembered
  <2> QED BY <2>1, <2>3
<1>3. CASE ~SpinQuiet(a)
  <2> DEFINE n == SpinCall(a)
             s == SpinShown(n)
             e == Number!Emit(s)
             f == IF number = "float" THEN Saved(e) ELSE e
             b == Returned(f)
  <2>1. /\ n \in NumberStates /\ SpinQuiet(n) /\ Writable(n) /\ Flags(a, n) /\ n.old = a.old
        /\ (n.ok <=> a.ok /\ Writable(a) /\ Allowed(a))
    BY <1>3, SpinCallIsQuiet DEF Writable, Allowed
  <2>2. Number!refresh[a] = b
    <3>1. Number!refresh[a] = SpinReturned(Number!Emit(Number!refresh[n]))
      BY <1>3, RefreshIs, SpinRefreshed
    <3>2. Number!refresh[n] = s
      BY <1>1, <2>1
    <3> QED BY <3>1, <3>2 DEF SpinReturned, Saved, Returned
  <2> HIDE DEF n
  <2>3. /\ s \in NumberStates /\ s.field = n.field /\ Flags(n, s) /\ Agrees(s)
        /\ (s.ok <=> n.ok /\ Writable(n))
        /\ s.old = (IF number = "float" /\ n.field \notin Number!NotNumbers THEN n.field ELSE n.old)
    BY <2>1, IsSpinShown
  <2> HIDE DEF s
  <2>4. /\ e \in NumberStates /\ e.field = s.field /\ e.box = s.box /\ e.line = s.line /\ Flags(s, e) /\ (e.ok <=> s.ok)
        /\ e.old = s.old
    BY <2>3, IsEmitted
  <2> HIDE DEF e
  <2>5. /\ f \in NumberStates /\ f.field = s.field /\ f.box = s.box /\ f.line = s.line /\ Flags(s, f) /\ (f.ok <=> s.ok)
        /\ (number = "float" => f.old = s.field)
    BY <2>4, IsSaved DEF Flags
  <2> HIDE DEF f
  <2>6. /\ b \in NumberStates /\ b.field = s.field /\ b.box = s.box /\ b.line = s.line /\ Flags(s, b) /\ (b.ok <=> s.ok)
        /\ (number = "float" => b.old = s.field) /\ b.special = Number!SpecialOf(s.field)
    BY <2>5, IsReturned DEF Flags
  <2> HIDE DEF b
  <2>7. Agrees(b)
    BY <2>3, <2>6 DEF Agrees
  <2>8. Flags(a, b) /\ Writable(b) /\ (b.ok <=> a.ok /\ Writable(a) /\ Allowed(a))
    BY <2>1, <2>3, <2>6 DEF Flags, Writable
  <2>9. ~Still(a)
    BY <1>3 DEF Still
  <2>10. ASSUME number = "float", Remembered(a) PROVE Remembered(b)
    <3>1. n.field \notin Number!NotNumbers
      <4>1. a.field \in Ordinary
        BY <1>3, FieldsOfStates DEF SpinQuiet
      <4>2. n.field \in Ordinary
        BY <1>3, <4>1, SpinCallIsOrdinary DEF n
      <4> QED BY <4>2, OrdinaryNumbers
    <3>2. n.field \in 0 .. MaxSer
      BY <2>1, <3>1, WritableIsOrdinary
    <3> QED BY <2>3, <2>6, <2>10, <3>2 DEF Remembered
  <2>11. Result(a, b)
    BY <2>6, <2>7, <2>8, <2>9, <2>10 DEF Result
  <2> QED BY <2>2, <2>11
<1> QED BY <1>2, <1>3

LEMMA EnumResult ==
  ASSUME NumberKind, numberEditable \in BOOLEAN, number = "enum", NEW a \in NumberStates,
         a.box \in Listed \cup {Number!Unknown}
  PROVE  Result(a, Number!refresh[a])
<1>1. ASSUME NEW x \in NumberStates, x.box \in Listed \cup {Number!Unknown}
      PROVE  LET b == EnumShown(x)
             IN  /\ b \in NumberStates /\ b.field = x.field /\ b.told = x.told /\ Flags(x, b) /\ Agrees(b)
                 /\ (b.ok <=> x.ok /\ Writable(x))
  <2> DEFINE item == Number!ItemOf(x.field)
             r == Lined(x)
             y == Boxed(r, item)
             z == IF EnumLeft(x) THEN r ELSE y
             b == Returned(z)
  <2>1. EnumShown(x) = b
    BY DEF EnumShown, Returned
  <2>2. x.field \in Number!Values /\ item \in Int
    BY FieldsOfStates, ItemsOfEnum
  <2>3. EnumLeft(x) => x.box = item
    BY <1>1, InvalidIsNotListed, <2>2 DEF EnumLeft, Number!Valid, Number!ValueOf, Number!ItemOf
  <2> HIDE DEF item
  <2>4. /\ r \in NumberStates /\ r.field = x.field /\ r.line = x.field /\ r.told = x.told /\ Flags(x, r)
        /\ r.box = x.box /\ (r.ok <=> x.ok /\ Writable(x))
    BY IsLined DEF Writable
  <2> HIDE DEF r
  <2>5. /\ y \in NumberStates /\ y.field = x.field /\ y.line = x.field /\ y.told = x.told /\ Flags(x, y) /\ y.box = item
        /\ (y.ok <=> x.ok /\ Writable(x))
    BY <2>2, <2>4, IsBoxed DEF Flags
  <2> HIDE DEF y
  <2>6. /\ z \in NumberStates /\ z.field = x.field /\ z.line = x.field /\ z.told = x.told /\ Flags(x, z) /\ z.box = item
        /\ (z.ok <=> x.ok /\ Writable(x))
    BY <2>3, <2>4, <2>5
  <2> HIDE DEF z
  <2>7. /\ b \in NumberStates /\ b.field = x.field /\ b.line = x.field /\ b.told = x.told /\ Flags(x, b) /\ b.box = item
        /\ (b.ok <=> x.ok /\ Writable(x)) /\ b.special = Number!SpecialOf(x.field)
    BY <2>6, IsReturned DEF Flags
  <2> HIDE DEF b
  <2>8. Agrees(b)
    BY <1>1, <2>7 DEF Agrees, item, Number!SpinKinds
  <2> QED BY <2>1, <2>7, <2>8
<1>2. CASE EnumQuiet(a)
  <2> DEFINE b == EnumShown(a)
  <2>1. Number!refresh[a] = b
    BY <1>2, RefreshIs, EnumRefreshed
  <2>2. /\ b \in NumberStates /\ b.field = a.field /\ b.told = a.told /\ Flags(a, b) /\ Agrees(b)
        /\ (b.ok <=> a.ok /\ Writable(a))
    BY <1>1
  <2> HIDE DEF b
  <2>3. Result(a, b)
    BY <2>2 DEF Result, Unmoved, Writable
  <2> QED BY <2>1, <2>3
<1>3. CASE ~EnumQuiet(a)
  <2> DEFINE n == EnumCall(a)
             s == EnumShown(n)
             b == Returned(s)
  <2>1. /\ n \in NumberStates /\ EnumQuiet(n) /\ Flags(a, n) /\ n.box \in Listed \cup {Number!Unknown}
        /\ (n.ok <=> a.ok /\ Writable(a)) /\ (Writable(a) => Writable(n))
        /\ (~numberEditable => n.field = a.field /\ n.told = a.told)
    BY <1>3, EnumCallIsQuiet DEF Writable
  <2>2. Number!refresh[a] = b
    <3>1. Number!refresh[a] = Returned(Number!refresh[n])
      BY <1>3, RefreshIs, EnumRefreshed
    <3>2. Number!refresh[n] = s
      BY <2>1, RefreshIs, EnumRefreshed
    <3> QED BY <3>1, <3>2
  <2> HIDE DEF n
  <2>3. /\ s \in NumberStates /\ s.field = n.field /\ s.told = n.told /\ Flags(n, s) /\ Agrees(s)
        /\ (s.ok <=> n.ok /\ Writable(n))
    BY <1>1, <2>1
  <2> HIDE DEF s
  <2>4. /\ b \in NumberStates /\ b.field = s.field /\ b.box = s.box /\ b.line = s.line /\ Flags(s, b) /\ (b.ok <=> s.ok)
        /\ b.told = s.told /\ b.special = Number!SpecialOf(s.field)
    BY <2>3, IsReturned
  <2> HIDE DEF b
  <2>5. Agrees(b)
    BY <2>3, <2>4 DEF Agrees
  <2>6. Still(a) => Unmoved(a, b)
    BY <1>3, <2>1, <2>3, <2>4 DEF Still, Unmoved
  <2>7. Result(a, b)
    BY <1>3, <2>1, <2>3, <2>4, <2>5, <2>6 DEF Result, Writable, Flags
  <2> QED BY <2>2, <2>7
<1> QED BY <1>2, <1>3

LEMMA MaskResult ==
  ASSUME NumberKind, numberEditable \in BOOLEAN, number = "bitmask", NEW a \in NumberStates
  PROVE  Result(a, Number!refresh[a])
<1> DEFINE Over(x, c) == Returned(IF numberEditable THEN Number!Emit(c) ELSE c)
<1>1. ASSUME NEW x \in NumberStates, x.box = x.field
      PROVE  /\ Result(x, Number!refresh[x]) /\ Unmoved(x, Number!refresh[x])
             /\ (Number!refresh[x].ok <=> x.ok /\ Writable(x))
  <2> DEFINE r == Lined(x)
             b == Returned(r)
  <2>1. Number!refresh[x] = b
    BY <1>1, RefreshIs, MaskRefreshed
  <2>2. /\ r \in NumberStates /\ r.field = x.field /\ r.line = x.field /\ r.told = x.told /\ Flags(x, r)
        /\ r.box = x.box /\ (r.ok <=> x.ok /\ Writable(x))
    BY IsLined DEF Writable
  <2> HIDE DEF r
  <2>3. /\ b \in NumberStates /\ b.field = x.field /\ b.line = x.field /\ b.told = x.told /\ Flags(x, b)
        /\ b.box = x.box /\ (b.ok <=> x.ok /\ Writable(x)) /\ b.special = Number!SpecialOf(x.field)
    BY <2>2, IsReturned DEF Flags
  <2> HIDE DEF b
  <2>4. Agrees(b)
    BY <1>1, <2>3 DEF Agrees, Number!SpinKinds
  <2> QED BY <2>1, <2>3, <2>4 DEF Result, Unmoved, Writable
<1>2. ASSUME NEW x \in NumberStates, x.box # x.field, NEW n, n = MaskCall(x), NEW c, c = Number!refresh[n],
             Result(n, c), Still(x) => Unmoved(n, c), Still(x) /\ Writable(x) => (c.ok <=> n.ok)
      PROVE  Result(x, Number!refresh[x])
  <2> DEFINE e == IF numberEditable THEN Number!Emit(c) ELSE c
             b == Returned(e)
  <2>1. Number!refresh[x] = b
    BY <1>2, RefreshIs, MaskRefreshed
  <2>2. /\ n \in NumberStates /\ Flags(x, n) /\ n.box = x.field /\ n.told = x.told
        /\ (n.ok <=> x.ok /\ Writable(x))
        /\ n.field = (IF ~numberEditable \/ Number!CanWrite(x.field) THEN x.field ELSE 0)
    BY <1>2, MaskCallIs DEF Writable
  <2>3. c \in NumberStates /\ Flags(n, c) /\ Agrees(c)
    BY <1>2 DEF Result
  <2>4. /\ e \in NumberStates /\ e.field = c.field /\ e.line = c.line /\ e.box = c.box /\ Flags(c, e) /\ (e.ok <=> c.ok)
        /\ e.told \in {c.told, c.field}
    BY <2>3, IsEmitted DEF Flags
  <2> HIDE DEF e
  <2>5. /\ b \in NumberStates /\ b.field = c.field /\ b.line = c.line /\ b.box = c.box /\ Flags(c, b) /\ (b.ok <=> c.ok)
        /\ b.told \in {c.told, c.field} /\ b.special = Number!SpecialOf(c.field)
    BY <2>4, IsReturned DEF Flags
  <2> HIDE DEF b
  <2>6. Agrees(b)
    BY <2>3, <2>5 DEF Agrees
  <2>7. Still(x) => n.field = x.field
    BY <2>2 DEF Still
  <2>8. Still(x) => Unmoved(x, b)
    BY <1>2, <2>2, <2>5, <2>7 DEF Unmoved
  <2>9. Writable(x) => Still(x) /\ n.field = x.field
    BY <2>2, <2>7 DEF Still, Writable, Number!SpinKinds
  <2>10. Writable(x) => Writable(b)
    BY <2>8, <2>9 DEF Unmoved, Writable
  <2>11. Writable(x) => (b.ok <=> x.ok)
    BY <1>2, <2>2, <2>5, <2>9
  <2> QED BY <2>1, <2>2, <2>3, <2>5, <2>6, <2>8, <2>10, <2>11 DEF Result, Flags
<1>3. ASSUME NEW x \in NumberStates, x.box = x.field \/ MaskCall(x).box = MaskCall(x).field
      PROVE  Result(x, Number!refresh[x]) /\ (Still(x) => Unmoved(x, Number!refresh[x]))
  <2> DEFINE n == MaskCall(x)
             c == Number!refresh[n]
  <2>1. CASE x.box = x.field
    BY <1>1, <2>1
  <2>2. CASE x.box # x.field
    <3>1. n \in NumberStates /\ n.box = n.field /\ (n.ok <=> x.ok /\ Writable(x))
          /\ n.field = (IF ~numberEditable \/ Number!CanWrite(x.field) THEN x.field ELSE 0)
      BY <1>3, <2>2, MaskCallIs DEF Writable
    <3> HIDE DEF n
    <3>2. Result(n, c) /\ Unmoved(n, c) /\ (c.ok <=> n.ok /\ Writable(n))
      BY <1>1, <3>1
    <3> HIDE DEF c
    <3>3. Writable(x) => Writable(n)
      BY <3>1 DEF Writable
    <3>4. Result(x, Number!refresh[x])
      BY <1>2, <2>2, <3>2, <3>3 DEF n, c
    <3> QED BY <3>4 DEF Result
  <2> QED BY <2>1, <2>2
<1> DEFINE n == MaskCall(a)
           c == Number!refresh[n]
<1>4. /\ n \in NumberStates /\ n.box = a.field /\ (n.ok <=> a.ok /\ Writable(a))
      /\ n.field = (IF ~numberEditable \/ Number!CanWrite(a.field) THEN a.field ELSE 0)
  BY MaskCallIs DEF Writable
<1>5. MaskCall(n).box = MaskCall(n).field
  BY <1>4, MaskCallIs, DefaultSettles
<1> HIDE DEF n
<1>6. Result(n, c) /\ (Still(n) => Unmoved(n, c))
  BY <1>3, <1>4, <1>5
<1> HIDE DEF c
<1>7. Still(a) => Still(n) /\ (Writable(a) => Writable(n))
  BY <1>4 DEF Still, Writable, Number!SpinKinds
<1>8. Still(a) /\ Writable(a) => (c.ok <=> n.ok)
  BY <1>6, <1>7 DEF Result
<1>9. CASE a.box # a.field
  BY <1>2, <1>4, <1>6, <1>7, <1>8, <1>9 DEF n, c
<1>10. CASE a.box = a.field
  BY <1>1, <1>10
<1> QED BY <1>9, <1>10

LEMMA LineResult ==
  ASSUME NumberKind, numberEditable \in BOOLEAN, number \in {"longlong", "ulonglong"}, NEW a \in NumberStates
  PROVE  Result(a, Number!refresh[a])
<1> DEFINE r == Lined(a)
           x == Number!Display(a.field)
           d == IF number = "longlong" THEN x ELSE Number!Fit(x)
           t == Number!SetText(r)
           b == Returned(t)
<1>1. Number!refresh[a] = b
  BY RefreshIs, LineRefreshed
<1>2. x \in Nat /\ d \in Nat /\ Number!Fit(d) = Number!Fit(x)
  BY FieldsOfStates, FitOf
<1>3. /\ r \in NumberStates /\ r.field = a.field /\ r.line = a.field /\ r.told = a.told /\ Flags(a, r)
      /\ (r.ok <=> a.ok /\ Writable(a))
  BY IsLined DEF Writable
<1>4. t = IF number = "longlong" /\ Number!Parsed(r.box) = x THEN r ELSE Boxed(r, d)
  BY <1>3 DEF Number!SetText, Boxed
<1> HIDE DEF r, x, d
<1>5. d # Number!Untyped
  BY <1>2 DEF Number!Untyped
<1>6. LET y == Boxed(r, d)
      IN  /\ y \in NumberStates /\ y.field = a.field /\ y.line = a.field /\ y.told = a.told /\ Flags(a, y)
          /\ (y.ok <=> a.ok /\ Writable(a)) /\ y.box = d
  BY <1>2, <1>3, IsBoxed DEF Flags
<1>7. /\ t \in NumberStates /\ t.field = a.field /\ t.line = a.field /\ t.told = a.told /\ Flags(a, t)
      /\ (t.ok <=> a.ok /\ Writable(a)) /\ Number!Fit(Number!Parsed(t.box)) = Number!Fit(x)
  <2>1. CASE t = r /\ Number!Parsed(r.box) = x
    BY <1>3, <2>1
  <2>2. CASE t = Boxed(r, d)
    BY <1>2, <1>5, <1>6, <2>2 DEF Number!Parsed
  <2> QED BY <1>4, <2>1, <2>2
<1> HIDE DEF t
<1>8. /\ b \in NumberStates /\ b.field = a.field /\ b.line = a.field /\ b.told = a.told /\ Flags(a, b)
      /\ (b.ok <=> a.ok /\ Writable(a)) /\ Number!Fit(Number!Parsed(b.box)) = Number!Fit(x)
      /\ b.special = Number!SpecialOf(a.field)
  BY <1>7, IsReturned DEF Flags
<1> HIDE DEF b
<1>9. Agrees(b)
  BY <1>8 DEF Agrees, x, Number!SpinKinds
<1>10. Result(a, b)
  BY <1>8, <1>9 DEF Result, Unmoved, Writable
<1> QED BY <1>1, <1>10

LEMMA RefreshResult ==
  ASSUME NumberKind, numberEditable \in BOOLEAN, NEW a \in NumberStates,
         number = "enum" => a.box \in Listed \cup {Number!Unknown}
  PROVE  Result(a, Number!refresh[a])
BY SpinResult, EnumResult, MaskResult, LineResult DEF NumberKind, Number!Kinds

-----------------------------------------------------------------------------
(* The invariant of these widgets.  A field that is shown can be written, but   *)
(* for the special values that are taken for what is displayed.               *)
Exempt == number = "long" /\ how.offset > 0
Sane(a) == (Exempt \/ (a.ok /\ Writable(a))) /\ (number = "float" => Remembered(a))
Prepared(a) == a \in NumberStates /\ Sane(a) /\ (number = "enum" => a.box \in Listed \cup {Number!Unknown})
Shown(a) == a \in NumberStates /\ Sane(a) /\ Agrees(a)
Idle(a) == a.connected /\ ~a.making

Reported(a) == a.told = a.field

LEMMA ShownIsPrepared ==
  ASSUME NumberKind, NEW a, Shown(a)
  PROVE  Prepared(a) /\ Still(a)
<1>1. a \in NumberStates /\ Sane(a) /\ Agrees(a)
  BY DEF Shown
<1>2. a.field \in Number!Values /\ a.box \in Int
  BY <1>1, FieldsOfStates
<1>3. number = "enum" => a.box = Number!ItemOf(a.field) /\ a.box \in Listed \cup {Number!Unknown}
  BY <1>1, <1>2, ItemsOfEnum DEF Agrees
<1>4. Prepared(a)
  BY <1>1, <1>3 DEF Prepared
<1>5. CASE number \in Number!SpinKinds
  BY <1>4, <1>1, <1>5 DEF Still, SpinQuiet, Agrees, Number!SpinKinds
<1>6. CASE number = "enum"
  BY <1>4, <1>3, <1>6 DEF Still, EnumQuiet, Number!SpinKinds
<1>7. CASE number = "bitmask"
  BY <1>4, <1>1, <1>7 DEF Still, Sane, Exempt, Writable, Number!SpinKinds
<1>8. CASE number \in {"longlong", "ulonglong"}
  BY <1>4, <1>8 DEF Still, Number!SpinKinds
<1> QED BY <1>4, <1>5, <1>6, <1>7, <1>8 DEF NumberKind, Number!Kinds

LEMMA RefreshShows ==
  ASSUME NumberKind, numberEditable \in BOOLEAN, NEW a, Prepared(a), Still(a) \/ Allowed(a)
  PROVE  LET b == Number!refresh[a]
         IN  Shown(b) /\ Flags(a, b) /\ (Still(a) => Unmoved(a, b))
<1> DEFINE b == Number!refresh[a]
<1>1. a \in NumberStates /\ Sane(a)
  BY DEF Prepared
<1>2. Result(a, b)
  BY <1>1, RefreshResult DEF Prepared
<1> HIDE DEF b
<1>3. Sane(b)
  BY <1>1, <1>2 DEF Sane, Result, Exempt
<1>4. Shown(b) /\ Flags(a, b) /\ (Still(a) => Unmoved(a, b))
  BY <1>2, <1>3 DEF Shown, Result
<1> QED BY <1>4 DEF b

LEMMA EmitShows ==
  ASSUME NumberKind, NEW a, Shown(a)
  PROVE  LET b == Number!Emit(a) IN Shown(b) /\ Flags(a, b) /\ Reported(b) /\ b.field = a.field
<1> DEFINE b == Number!Emit(a)
<1>1. a \in NumberStates
  BY DEF Shown
<1>2. /\ b \in NumberStates /\ b.field = a.field /\ b.line = a.line /\ b.box = a.box /\ b.old = a.old
      /\ b.told = a.field /\ b.special = a.special /\ Flags(a, b) /\ (b.ok <=> a.ok)
  BY <1>1, IsEmitted
<1> HIDE DEF b
<1>3. Agrees(b) /\ Sane(b)
  BY <1>2 DEF Shown, Agrees, Sane, Writable, Remembered
<1>4. Shown(b) /\ Flags(a, b) /\ Reported(b) /\ b.field = a.field
  BY <1>2, <1>3 DEF Shown, Reported
<1> QED BY <1>4 DEF b

(* A field that is set and can be edited is shown and reported.                *)
LEMMA SetsSane ==
  ASSUME NumberKind, NEW a, Prepared(a), NEW v \in Number!Values, Exempt \/ Number!CanWrite(v)
  PROVE  LET b == [a EXCEPT !.field = v]
         IN  Prepared(b) /\ Flags(a, b) /\ b.field = v /\ b.box = a.box /\ b.told = a.told /\ b.line = a.line
<1> DEFINE b == [a EXCEPT !.field = v]
<1>1. /\ b \in NumberStates /\ Flags(a, b) /\ b.field = v /\ b.box = a.box /\ b.told = a.told /\ b.line = a.line
      /\ b.old = a.old /\ (b.ok <=> a.ok)
  BY DEF Prepared, NumberStates, Number!States, Flags
<1> HIDE DEF b
<1>2. Prepared(b)
  BY <1>1 DEF Prepared, Sane, Writable, Remembered
<1>3. Prepared(b) /\ Flags(a, b) /\ b.field = v /\ b.box = a.box /\ b.told = a.told /\ b.line = a.line
  BY <1>1, <1>2
<1> QED BY <1>3 DEF b

LEMMA TakeShows ==
  ASSUME NumberKind, numberEditable \in BOOLEAN, numberEditable, NEW a, Prepared(a), NEW v \in Number!Values
  PROVE  LET b == Number!Take(Number!refresh, a, v) IN Shown(b) /\ Flags(a, b) /\ Reported(b)
<1> DEFINE t == Taken(a, v)
           c == Number!refresh[t]
           b == Number!Take(Number!refresh, a, v)
<1>1. b = Number!Emit(c)
  BY DEF Number!Take, Taken
<1>2. /\ t \in NumberStates /\ t.box = a.box /\ t.old = a.old /\ Flags(a, t) /\ (t.ok <=> a.ok)
      /\ Number!CanWrite(t.field)
  BY IsTaken DEF Prepared
<1> HIDE DEF t, b
<1>3. Prepared(t)
  BY <1>2 DEF Prepared, Sane, Writable, Remembered
<1>4. Shown(c) /\ Flags(t, c)
  BY <1>3, RefreshShows DEF Allowed
<1> HIDE DEF c
<1>5. Shown(b) /\ Flags(c, b) /\ Reported(b)
  BY <1>1, <1>4, EmitShows
<1>6. Shown(b) /\ Flags(a, b) /\ Reported(b)
  BY <1>2, <1>4, <1>5 DEF Flags
<1> QED BY <1>6 DEF b

(* What a step of the widget results in.                                     *)
Answer(a, b) ==
  /\ Shown(b) /\ Flags(a, b) /\ (Reported(b) \/ Unmoved(a, b))
  /\ ~numberEditable => b.field = a.field

LEMMA NumbersAreValues ==
  ASSUME NumberKind, NEW d \in Nat, d <= MaxType
  PROVE  d \notin Number!NotNumbers /\ Number!FromDisplay(d) \in Ordinary /\ Number!FromDisplay(d) \in Number!Values
<1>1. d \notin Number!NotNumbers
  BY ValuesAssumption DEF Number!NotNumbers, Number!Nan, Number!Inf, Number!MinusInf
<1> QED BY <1>1, FromDisplayOf, OrdinaryNumbers

LEMMA SpinEdited ==
  ASSUME NumberKind, numberEditable \in BOOLEAN, number \in Number!SpinKinds, numberEditable,
         NEW w0, Shown(w0), w0.field \notin Number!NotNumbers,
         NEW b \in Nat, b <= MaxType, Number!Fit(b) = b
  PROVE  Answer(w0, Number!SpinUpdated(Number!refresh, Boxed(w0, b), b))
<1> DEFINE a == Boxed(w0, b)
<1>1. /\ a \in NumberStates /\ a.field = w0.field /\ a.line = w0.line /\ a.box = b /\ a.old = w0.old
      /\ a.told = w0.told /\ a.special = w0.special /\ Flags(w0, a) /\ (a.ok <=> w0.ok)
  BY IsBoxed DEF Shown
<1> HIDE DEF a
<1>2. Prepared(a)
  BY <1>1 DEF Shown, Prepared, Sane, Writable, Remembered, Number!SpinKinds
<1>3. CASE b = Number!Display(a.field)
  <2>1. Number!SpinUpdated(Number!refresh, a, b) = a
    BY <1>3 DEF Number!SpinUpdated
  <2>2. Agrees(a)
    BY <1>1, <1>3 DEF Shown, Agrees, Number!SpinKinds
  <2>3. Answer(w0, a)
    BY <1>1, <1>2, <2>2 DEF Answer, Shown, Prepared, Unmoved
  <2> QED BY <2>1, <2>3 DEF a
<1>4. CASE b # Number!Display(a.field)
  <2> DEFINE c == Number!Take(Number!refresh, a, Number!FromDisplay(b))
  <2>1. Number!SpinUpdated(Number!refresh, a, b) = c
    BY <1>4 DEF Number!SpinUpdated
  <2>2. Shown(c) /\ Flags(a, c) /\ Reported(c)
    BY <1>2, NumbersAreValues, TakeShows
  <2> HIDE DEF c
  <2>3. Answer(w0, c)
    BY <1>1, <2>2 DEF Answer, Flags
  <2> QED BY <2>1, <2>3 DEF a
<1> QED BY <1>3, <1>4

LEMMA LineEdited ==
  ASSUME NumberKind, numberEditable \in BOOLEAN, number \in {"longlong", "ulonglong"}, numberEditable,
         NEW w0, Shown(w0), NEW b \in Int, b = Number!Untyped \/ (b \in Nat /\ b <= MaxType)
  PROVE  Answer(w0, Number!LineUpdated(Number!refresh, Boxed(w0, b), b))
<1> DEFINE a == Boxed(w0, b)
           p == Number!Parsed(b)
           d == Number!Fit(p)
           u == Number!FromDisplay(d)
           v == IF number = "ulonglong" /\ ~Number!CanWrite(u) THEN a.field ELSE u
<1>1. /\ a \in NumberStates /\ a.field = w0.field /\ a.line = w0.line /\ a.box = b /\ a.old = w0.old
      /\ a.told = w0.told /\ a.special = w0.special /\ Flags(w0, a) /\ (a.ok <=> w0.ok)
  BY IsBoxed DEF Shown
<1>2. Number!LineUpdated(Number!refresh, a, b) = IF d = Number!Display(a.field) THEN a ELSE Number!Take(Number!refresh, a, v)
  BY DEF Number!LineUpdated
<1> HIDE DEF a
<1>3. Prepared(a)
  BY <1>1 DEF Shown, Prepared, Sane, Writable, Remembered, Number!SpinKinds
<1>4. p \in Nat /\ p <= MaxType
  BY ValuesAssumption DEF Number!Parsed
<1> HIDE DEF p
<1>5. d \in Nat /\ d <= p /\ Number!Fit(d) = d
  BY <1>4, FitOf
<1> HIDE DEF d
<1>6. d <= MaxType
  BY <1>4, <1>5, ValuesAssumption
<1>7. v \in Number!Values
  BY <1>1, <1>5, <1>6, NumbersAreValues, FieldsOfStates
<1> HIDE DEF v, u
<1>8. CASE d = Number!Display(a.field)
  <2>1. Number!Fit(Number!Parsed(a.box)) = Number!Fit(Number!Display(a.field))
    BY <1>1, <1>5, <1>8 DEF d, p
  <2>2. Agrees(a)
    BY <1>1, <2>1 DEF Shown, Agrees, Number!SpinKinds
  <2>3. Answer(w0, a)
    BY <1>1, <1>3, <2>2 DEF Answer, Shown, Prepared, Unmoved
  <2> QED BY <1>2, <1>8, <2>3 DEF a
<1>9. CASE d # Number!Display(a.field)
  <2> DEFINE c == Number!Take(Number!refresh, a, v)
  <2>1. Shown(c) /\ Flags(a, c) /\ Reported(c)
    BY <1>3, <1>7, TakeShows
  <2>2. Number!LineUpdated(Number!refresh, a, b) = c
    BY <1>2, <1>9
  <2> HIDE DEF c
  <2>3. Answer(w0, c)
    BY <1>1, <2>1 DEF Answer, Flags
  <2> QED BY <2>2, <2>3 DEF a
<1> QED BY <1>8, <1>9

LEMMA ItemEdited ==
  ASSUME NumberKind, numberEditable \in BOOLEAN, number = "enum", NEW w0, Shown(w0),
         NEW b \in Listed \cup {Number!Unknown}
  PROVE  Answer(w0, Number!ItemUpdated(Number!refresh, Boxed(w0, b), b))
<1> DEFINE a == Boxed(w0, b)
           v == Number!ValueOf(b)
           y == Written(a, v)
           e == Number!Emit(y)
           c == Number!refresh[e]
           z == Number!refresh[a]
<1>1. b \in Int
  BY ValuesAssumption DEF Number!Unknown
<1>2. /\ a \in NumberStates /\ a.field = w0.field /\ a.line = w0.line /\ a.box = b /\ a.old = w0.old
      /\ a.told = w0.told /\ a.special = w0.special /\ Flags(w0, a) /\ (a.ok <=> w0.ok)
  BY <1>1, IsBoxed DEF Shown
<1>3. Number!ItemUpdated(Number!refresh, a, b) =
        IF ~Number!Valid(a.field) /\ b = Number!Unknown THEN a
        ELSE IF ~numberEditable THEN z
        ELSE IF v = a.field THEN a ELSE c
  BY DEF Number!ItemUpdated, Written
<1> HIDE DEF a
<1>4. Prepared(a)
  BY <1>2 DEF Shown, Prepared, Sane, Writable, Remembered, Exempt
<1>5. /\ v \in Number!Values /\ Number!CanWrite(v) /\ Number!ItemOf(v) = b
  <2>1. CASE b = Number!Unknown
    BY <2>1, InvalidIsNotListed, OrdinaryNumbers DEF Number!ValueOf, Number!ItemOf
  <2>2. CASE b # Number!Unknown
    BY <2>2, ValuesAssumption DEF Number!ValueOf, Number!ItemOf, Number!CanWrite, Number!Values
  <2> QED BY <2>1, <2>2
<1> HIDE DEF v
<1>6. ASSUME Number!ItemOf(a.field) = b PROVE Answer(w0, a)
  <2>1. Agrees(a)
    BY <1>2, <1>6 DEF Shown, Agrees, Number!SpinKinds
  <2> QED BY <1>2, <1>4, <2>1 DEF Answer, Shown, Prepared, Unmoved
<1>7. CASE ~Number!Valid(a.field) /\ b = Number!Unknown
  <2>1. Number!ItemOf(a.field) = b
    BY <1>7 DEF Number!Valid, Number!ItemOf
  <2> QED BY <1>3, <1>6, <1>7, <2>1 DEF a
<1>8. CASE ~(~Number!Valid(a.field) /\ b = Number!Unknown) /\ ~numberEditable
  <2>1. Still(a)
    BY <1>8 DEF Still, Number!SpinKinds
  <2>2. Shown(z) /\ Flags(a, z) /\ Unmoved(a, z)
    BY <1>4, <2>1, RefreshShows
  <2> HIDE DEF z
  <2>3. Answer(w0, z)
    BY <1>2, <2>2 DEF Answer, Flags, Unmoved
  <2> QED BY <1>3, <1>8, <2>3 DEF a
<1>9. CASE ~(~Number!Valid(a.field) /\ b = Number!Unknown) /\ numberEditable /\ v = a.field
  BY <1>3, <1>5, <1>6, <1>9 DEF a
<1>10. CASE ~(~Number!Valid(a.field) /\ b = Number!Unknown) /\ numberEditable /\ v # a.field
  <2>1. y \in NumberStates /\ y.field = v /\ y.box = b /\ Flags(a, y) /\ (y.ok <=> a.ok)
    BY <1>2, <1>5, IsWritten
  <2> HIDE DEF y
  <2>2. e \in NumberStates /\ e.field = v /\ e.told = v /\ e.box = b /\ Flags(a, e) /\ (e.ok <=> a.ok)
    BY <2>1, IsEmitted DEF Flags
  <2> HIDE DEF e
  <2>3. Still(e)
    BY <2>2 DEF Still, EnumQuiet, EnumLeft, v, Number!SpinKinds
  <2>4. Prepared(e)
    BY <1>4, <1>5, <2>2 DEF Prepared, Sane, Writable, Remembered, Exempt
  <2>5. Shown(c) /\ Flags(e, c) /\ Unmoved(e, c)
    BY <2>3, <2>4, RefreshShows
  <2> HIDE DEF c
  <2>6. Answer(w0, c)
    BY <1>2, <1>10, <2>2, <2>5 DEF Answer, Flags, Unmoved, Reported
  <2> QED BY <1>3, <1>10, <2>6 DEF a
<1> QED BY <1>7, <1>8, <1>9, <1>10

LEMMA ChecksEdited ==
  ASSUME NumberKind, numberEditable \in BOOLEAN, number = "bitmask", NEW w0, Shown(w0), NEW b \in 0 .. MaxSer
  PROVE  Answer(w0, Number!ChecksUpdated(Number!refresh, Boxed(w0, b), b))
<1> DEFINE a == Boxed(w0, b)
           y == Written(a, b)
           c == Number!refresh[y]
           e == Number!Emit(c)
           z == Number!refresh[a]
<1>1. b \in Int /\ b \in Number!Values /\ Number!CanWrite(b)
  BY ValuesAssumption DEF Number!Values, Number!CanWrite
<1>2. /\ a \in NumberStates /\ a.field = w0.field /\ a.line = w0.line /\ a.box = b /\ a.old = w0.old
      /\ a.told = w0.told /\ a.special = w0.special /\ Flags(w0, a) /\ (a.ok <=> w0.ok)
  BY <1>1, IsBoxed DEF Shown
<1>3. Number!ChecksUpdated(Number!refresh, a, b) = IF numberEditable THEN e ELSE z
  BY DEF Number!ChecksUpdated, Written
<1> HIDE DEF a
<1>4. Prepared(a)
  BY <1>2 DEF Shown, Prepared, Sane, Writable, Remembered, Exempt
<1>5. CASE numberEditable
  <2>1. y \in NumberStates /\ y.field = b /\ Flags(a, y) /\ (y.ok <=> a.ok)
    BY <1>1, <1>2, IsWritten
  <2> HIDE DEF y
  <2>2. Prepared(y)
    BY <1>1, <1>4, <2>1 DEF Prepared, Sane, Writable, Exempt
  <2>3. Shown(c) /\ Flags(y, c)
    BY <1>5, <2>2, RefreshShows DEF Allowed
  <2> HIDE DEF c
  <2>4. Shown(e) /\ Flags(c, e) /\ Reported(e)
    BY <2>3, EmitShows
  <2> HIDE DEF e
  <2>5. Answer(w0, e)
    BY <1>2, <1>5, <2>1, <2>3, <2>4 DEF Answer, Flags
  <2> QED BY <1>3, <1>5, <2>5 DEF a
<1>6. CASE ~numberEditable
  <2>1. Still(a)
    BY <1>6 DEF Still, Number!SpinKinds
  <2>2. Shown(z) /\ Flags(a, z) /\ Unmoved(a, z)
    BY <1>4, <2>1, RefreshShows
  <2> HIDE DEF z
  <2>3. Answer(w0, z)
    BY <1>2, <2>2 DEF Answer, Flags, Unmoved
  <2> QED BY <1>3, <1>6, <2>3 DEF a
<1> QED BY <1>5, <1>6

-----------------------------------------------------------------------------
(* The steps of the widget.  First what the user sets it to.                   *)
NumberSettled(a) == Shown(a) /\ Idle(a)

LEMMA EditBoxAnswers ==
  ASSUME NumberKind, numberEditable \in BOOLEAN, NumberSettled(numberWidget), NEW b \in 0 .. MaxType \cup {Number!Unknown},
         Number!EditBox(b)
  PROVE  Answer(numberWidget, numberWidget')
<1> DEFINE a == Boxed(numberWidget, b)
           u == Number!Updated(Number!refresh, a, b)
<1>1. numberWidget' = u
  BY DEF Number!EditBox, Number!BoxUpdated, Boxed
<1>2. Shown(numberWidget) /\ b \in Number!BoxValues
  BY DEF NumberSettled, Number!EditBox
<1>3. number \notin {"enum", "bitmask"} => numberEditable
  BY DEF Number!EditBox, Number!ReadOnly
<1>4. b \in Int /\ ((b \in Nat /\ b <= MaxType) \/ b = Number!Unknown)
  BY ValuesAssumption DEF Number!Unknown
<1>5. CASE number \in Number!SpinKinds
  <2>1. b \in Nat /\ b <= MaxType /\ Number!Fit(b) = b
    <3>1. CASE number = "float"
      BY <1>2, <3>1, ValuesAssumption DEF Number!BoxValues
    <3>2. CASE number # "float"
      BY <1>2, <1>5, <3>2, ValuesAssumption DEF Number!BoxValues, Number!SpinKinds
    <3> QED BY <3>1, <3>2
  <2>2. numberWidget.field \notin Number!NotNumbers
    BY <1>2, FieldsOfStates DEF Number!EditBox, Shown
  <2>3. u = Number!SpinUpdated(Number!refresh, a, b)
    BY <1>5 DEF Number!Updated, Number!SpinKinds
  <2> HIDE DEF u, a
  <2>4. numberEditable
    BY <1>3, <1>5 DEF Number!SpinKinds
  <2> QED BY <1>1, <1>2, <1>5, <2>1, <2>2, <2>3, <2>4, SpinEdited DEF a
<1>6. CASE number \in {"longlong", "ulonglong"}
  <2>1. u = Number!LineUpdated(Number!refresh, a, b)
    BY <1>6 DEF Number!Updated, Number!SpinKinds
  <2>2. b = Number!Untyped \/ (b \in Nat /\ b <= MaxType)
    BY <1>4 DEF Number!Untyped, Number!Unknown
  <2> HIDE DEF u, a
  <2> QED BY <1>1, <1>2, <1>3, <1>4, <1>6, <2>1, <2>2, LineEdited DEF a
<1>7. CASE number = "enum"
  <2>1. u = Number!ItemUpdated(Number!refresh, a, b) /\ b \in Listed \cup {Number!Unknown}
    BY <1>2, <1>7 DEF Number!Updated, Number!SpinKinds, Number!BoxValues
  <2> HIDE DEF u, a
  <2> QED BY <1>1, <1>2, <1>7, <2>1, ItemEdited DEF a
<1>8. CASE number = "bitmask"
  <2>1. u = Number!ChecksUpdated(Number!refresh, a, b) /\ b \in 0 .. MaxSer
    BY <1>2, <1>8 DEF Number!Updated, Number!SpinKinds, Number!BoxValues
  <2> HIDE DEF u, a
  <2> QED BY <1>1, <1>2, <1>8, <2>1, ChecksEdited DEF a
<1> QED BY <1>5, <1>6, <1>7, <1>8 DEF NumberKind, Number!Kinds

LEMMA BytesAreValues ==
  ASSUME NumberKind, NEW v \in Number!Bytes
  PROVE  v \in Number!Values /\ Number!CanWrite(v) /\ v \in Nat
BY ValuesAssumption DEF Number!Bytes, Number!Values, Number!CanWrite, Number!NotNumbers, Number!Nan, Number!Inf, Number!MinusInf

(* The bytes that can be shown as they are.                                    *)
Showable(v) ==
  CASE number = "enum" -> Number!Valid(v) => v \in Listed
    [] number = "float" -> v \in Number!NotNumbers \/ Number!Fit(v) = v
    [] number \in {"short", "long"} -> Number!Fit(Number!Display(v)) = Number!Display(v)
    [] OTHER -> TRUE

LEMMA EditBytesAnswers ==
  ASSUME NumberKind, numberEditable \in BOOLEAN, NumberSettled(numberWidget), NEW v \in Number!Bytes, Number!EditBytes(v)
  PROVE  /\ NumberSettled(numberWidget') /\ Reported(numberWidget')
         /\ Showable(v) => (numberWidget').field = v
<1> DEFINE w0 == numberWidget
           q == (number # "scaled")
           x == [w0 EXCEPT !.field = v]
           a == [x EXCEPT !.connected = q]
           c == Number!refresh[a]
           d == [c EXCEPT !.connected = TRUE]
           b == Number!Emit(d)
<1>1. numberEditable /\ numberWidget' = b
  BY DEF Number!EditBytes, Number!EditedBytes, Number!Refresh
<1>2. Prepared(w0) /\ Idle(w0)
  BY ShownIsPrepared DEF NumberSettled
<1>3. v \in Number!Values /\ Number!CanWrite(v)
  BY BytesAreValues
<1>4. Prepared(x) /\ Flags(w0, x) /\ x.field = v /\ x.box = w0.box
  BY <1>2, <1>3, SetsSane
<1> HIDE DEF x
<1>5. q \in BOOLEAN /\ (number = "scaled" => ~q)
  OBVIOUS
<1> HIDE DEF q
<1>6. /\ a \in NumberStates /\ a.field = v /\ a.box = x.box /\ (a.connected <=> q) /\ (a.making <=> x.making)
      /\ (a.ok <=> x.ok) /\ a.old = x.old
  BY <1>4, <1>5 DEF Prepared, NumberStates, Number!States
<1> HIDE DEF a
<1>7. Prepared(a)
  BY <1>4, <1>6 DEF Prepared, Sane, Writable, Remembered
<1>8. Shown(c) /\ Flags(a, c) /\ (Still(a) => Unmoved(a, c))
  BY <1>1, <1>7, RefreshShows DEF Allowed
<1> HIDE DEF c
<1>9. /\ d \in NumberStates /\ d.field = c.field /\ d.line = c.line /\ d.box = c.box /\ d.special = c.special
      /\ d.connected /\ (d.making <=> c.making) /\ (d.ok <=> c.ok) /\ d.old = c.old
  BY <1>8 DEF Shown, NumberStates, Number!States
<1> HIDE DEF d
<1>10. Shown(d)
  BY <1>8, <1>9 DEF Shown, Sane, Agrees, Writable, Remembered
<1>11. Shown(b) /\ Flags(d, b) /\ Reported(b) /\ b.field = d.field
  BY <1>10, EmitShows
<1> HIDE DEF b
<1>12. NumberSettled(b)
  BY <1>2, <1>4, <1>6, <1>8, <1>9, <1>11 DEF NumberSettled, Idle, Flags
<1>13. ASSUME Showable(v) PROVE Still(a)
  <2>1. CASE number = "enum"
    <3>1. v # Number!Unknown
      BY BytesAreValues DEF Number!Unknown
    <3>2. EnumQuiet(a)
      BY <1>1, <1>6, <1>13, <2>1, <3>1 DEF Showable, EnumQuiet, Number!Valid, Number!ItemOf, Number!ValueOf
    <3> QED BY <2>1, <3>2 DEF Still, Number!SpinKinds
  <2>2. CASE number = "float"
    BY <1>3, <1>6, <1>13, <2>2, DisplayOf DEF Showable, Still, SpinQuiet, Number!SpinKinds
  <2>3. CASE number \in {"short", "long"}
    BY <1>3, <1>6, <1>13, <2>3 DEF Showable, Still, SpinQuiet, Number!SpinKinds
  <2>4. CASE number = "scaled"
    BY <1>5, <1>6, <2>4 DEF Still, SpinQuiet, Number!SpinKinds
  <2>5. CASE number = "bitmask"
    BY <1>3, <1>6, <2>5 DEF Still, Number!SpinKinds
  <2>6. CASE number \in {"longlong", "ulonglong"}
    BY <2>6 DEF Still, Number!SpinKinds
  <2> QED BY <2>1, <2>2, <2>3, <2>4, <2>5, <2>6 DEF NumberKind, Number!Kinds, Number!SpinKinds
<1>14. Showable(v) => b.field = v
  BY <1>6, <1>8, <1>9, <1>11, <1>13 DEF Unmoved
<1> QED BY <1>1, <1>11, <1>12, <1>14

LEMMA SpecialLooked ==
  ASSUME NumberKind, NEW w0, Shown(w0), NEW s \in Int
  PROVE  LET a == [w0 EXCEPT !.special = s]
         IN  Prepared(a) /\ Flags(w0, a) /\ Still(a) /\ a.field = w0.field
<1> DEFINE a == [w0 EXCEPT !.special = s]
<1>1. Prepared(w0) /\ Still(w0)
  BY ShownIsPrepared
<1>2. /\ a \in NumberStates /\ a.field = w0.field /\ a.line = w0.line /\ a.box = w0.box /\ a.old = w0.old
      /\ Flags(w0, a) /\ (a.ok <=> w0.ok)
  BY <1>1 DEF Prepared, NumberStates, Number!States, Flags
<1> HIDE DEF a
<1>3. Prepared(a)
  BY <1>1, <1>2 DEF Prepared, Sane, Writable, Remembered
<1>4. ASSUME number \in Number!SpinKinds PROVE SpinQuiet(a)
  BY <1>1, <1>2, <1>4 DEF Still, SpinQuiet, Flags
<1>5. ASSUME number = "enum" PROVE EnumQuiet(a) \/ ~numberEditable
  BY <1>1, <1>2, <1>5 DEF Still, EnumQuiet, EnumLeft, Flags
<1>6. ASSUME number = "bitmask" PROVE ~numberEditable \/ Number!CanWrite(a.field)
  BY <1>1, <1>2, <1>6 DEF Still
<1>7. Still(a)
  BY <1>4, <1>5, <1>6 DEF Still
<1>8. Prepared(a) /\ Flags(w0, a) /\ Still(a) /\ a.field = w0.field
  BY <1>2, <1>3, <1>7
<1> QED BY <1>8 DEF a

(* A field that is set and shown again, by a widget that can be edited.        *)
LEMMA SetIsShown ==
  ASSUME NumberKind, numberEditable \in BOOLEAN, numberEditable, NEW w0, Shown(w0),
         NEW v \in Number!Values, Exempt \/ Number!CanWrite(v)
  PROVE  LET b == Number!refresh[[w0 EXCEPT !.field = v]] IN Shown(b) /\ Flags(w0, b)
<1> DEFINE a == [w0 EXCEPT !.field = v]
           b == Number!refresh[a]
<1>1. Prepared(a) /\ Flags(w0, a)
  BY ShownIsPrepared, SetsSane
<1> HIDE DEF a
<1>2. Shown(b) /\ Flags(a, b)
  BY <1>1, RefreshShows DEF Allowed
<1> HIDE DEF b
<1>3. Shown(b) /\ Flags(w0, b)
  BY <1>1, <1>2 DEF Flags
<1> QED BY <1>3 DEF b, a

LEMMA ChooseSpecialShows ==
  ASSUME NumberKind, numberEditable \in BOOLEAN, NumberSettled(numberWidget), NEW v \in Specials \cup {Number!NotSpecial},
         Number!ChooseSpecial(v)
  PROVE  /\ NumberSettled(numberWidget')
         /\ ~numberEditable => (numberWidget').field = numberWidget.field
<1> DEFINE w0 == numberWidget
           x == [w0 EXCEPT !.special = v]
           b == Number!refresh[x]
<1>1. Shown(w0) /\ Idle(w0) /\ number \notin {"enum", "bitmask"}
  BY DEF NumberSettled, Number!ChooseSpecial
<1>2. numberWidget' = IF v = Number!NotSpecial \/ ~numberEditable THEN b ELSE Number!SpecialTaken(v)
  BY DEF Number!ChooseSpecial, Number!Refresh
<1>3. v \in Int
  BY ValuesAssumption DEF Number!NotSpecial
<1>4. CASE v = Number!NotSpecial \/ ~numberEditable
  <2>1. Prepared(x) /\ Flags(w0, x) /\ Still(x) /\ x.field = w0.field
    BY <1>1, <1>3, SpecialLooked
  <2> HIDE DEF x
  <2>2. Shown(b) /\ Flags(x, b) /\ Unmoved(x, b)
    BY <2>1, RefreshShows
  <2> HIDE DEF b
  <2>3. NumberSettled(b) /\ b.field = w0.field
    BY <1>1, <2>1, <2>2 DEF NumberSettled, Idle, Flags, Unmoved
  <2> QED BY <1>2, <1>4, <2>3
<1>5. CASE v # Number!NotSpecial /\ numberEditable
  <2> DEFINE c == Number!SpecialTaken(v)
  <2>1. v \in 0 .. MaxSer /\ v \in Nat /\ v <= MaxType /\ v \in Number!Values /\ Number!CanWrite(v)
    BY <1>5, ValuesAssumption DEF Number!CanWrite, Number!Values
  <2>2. numberWidget' = c
    BY <1>2, <1>5
  <2>3. CASE number = "float"
    <3> DEFINE d == Number!Take(Number!refresh, w0, Number!FromDisplay(v))
    <3>1. c = IF v = Number!Display(w0.field) THEN w0 ELSE d
      BY <2>3 DEF Number!SpecialTaken, Number!FloatSpecial, Number!SpinUpdated
    <3>2. Number!FromDisplay(v) \in Number!Values /\ Prepared(w0)
      BY <1>1, <2>1, NumbersAreValues, ShownIsPrepared
    <3>3. Shown(d) /\ Flags(w0, d)
      BY <1>5, <3>2, TakeShows
    <3> HIDE DEF c, d
    <3>4. NumberSettled(c)
      BY <1>1, <3>1, <3>3 DEF NumberSettled, Idle, Flags
    <3> QED BY <1>5, <2>2, <3>4
  <2>4. CASE number = "long"
    <3> DEFINE u == Number!FromDisplay(v)
               d == Number!refresh[[w0 EXCEPT !.field = u]]
    <3>1. c = d
      BY <2>4 DEF Number!SpecialTaken, Number!LongSpecial, Number!Refresh
    <3>2. u \in Number!Values
      BY <2>1, NumbersAreValues
    <3>3. Exempt \/ Number!CanWrite(u)
      <4>1. CASE how.offset > 0
        BY <2>4, <4>1 DEF Exempt
      <4>2. CASE ~(how.offset > 0)
        <5>1. how.offset = 0
          BY <4>2, OptionsOfKind
        <5>2. u = v - 0
          BY <2>1, <5>1, FromDisplayOf
        <5> QED BY <2>1, <5>2
      <4> QED BY <4>1, <4>2
    <3> HIDE DEF u
    <3>4. Shown(d) /\ Flags(w0, d)
      BY <1>1, <1>5, <3>2, <3>3, SetIsShown
    <3> HIDE DEF c, d
    <3>5. NumberSettled(c)
      BY <1>1, <3>1, <3>4 DEF NumberSettled, Idle, Flags
    <3> QED BY <1>5, <2>2, <3>5
  <2>5. CASE number \notin {"float", "long"}
    <3> DEFINE d == Number!refresh[[w0 EXCEPT !.field = v]]
    <3>1. c = d
      BY <2>5 DEF Number!SpecialTaken, Number!IntSpecial, Number!Refresh
    <3>2. Shown(d) /\ Flags(w0, d)
      BY <1>1, <1>5, <2>1, SetIsShown
    <3> HIDE DEF c, d
    <3>3. NumberSettled(c)
      BY <1>1, <3>1, <3>2 DEF NumberSettled, Idle, Flags
    <3> QED BY <1>5, <2>2, <3>3
  <2> QED BY <2>3, <2>4, <2>5
<1> QED BY <1>4, <1>5

LEMMA ChooseTypeAnswers ==
  ASSUME NumberKind, numberEditable \in BOOLEAN, NumberSettled(numberWidget), NEW v \in Number!NotNumbers \cup {0},
         Number!ChooseType(v)
  PROVE  /\ NumberSettled(numberWidget') /\ (Reported(numberWidget') \/ Unmoved(numberWidget, numberWidget'))
         /\ ~numberEditable => (numberWidget').field = numberWidget.field
<1> DEFINE w0 == numberWidget
           u == IF v = 0 THEN w0.old ELSE v
           x == Number!TypeTaken(v)
           c == Number!refresh[x]
           e == Number!Emit(c)
           b == Number!refresh[w0]
<1>1. Shown(w0) /\ Idle(w0) /\ number = "float"
  BY DEF NumberSettled, Number!ChooseType
<1>2. numberWidget' = IF numberEditable THEN e ELSE b
  BY DEF Number!ChooseType, Number!Refresh
<1>3. CASE ~numberEditable
  <2>1. Prepared(w0) /\ Still(w0)
    BY <1>1, ShownIsPrepared
  <2>2. Shown(b) /\ Flags(w0, b) /\ Unmoved(w0, b)
    BY <2>1, RefreshShows
  <2> HIDE DEF b
  <2>3. NumberSettled(b) /\ Unmoved(w0, b) /\ b.field = w0.field
    BY <1>1, <2>2 DEF NumberSettled, Idle, Flags, Unmoved
  <2> QED BY <1>2, <1>3, <2>3
<1>4. CASE numberEditable
  <2>1. x = [w0 EXCEPT !.field = u]
    BY DEF Number!TypeTaken
  <2>2. u \in Number!Values /\ Number!CanWrite(u)
    <3>1. CASE v = 0
      BY <1>1, <3>1, ValuesAssumption DEF Shown, Sane, Remembered, Number!Values, Number!CanWrite
    <3>2. CASE v # 0
      BY <1>1, <3>2 DEF Number!Values, Number!CanWrite
    <3> QED BY <3>1, <3>2
  <2> HIDE DEF u, x
  <2>3. Shown(c) /\ Flags(w0, c)
    BY <1>1, <1>4, <2>1, <2>2, SetIsShown
  <2> HIDE DEF c
  <2>4. Shown(e) /\ Flags(c, e) /\ Reported(e)
    BY <2>3, EmitShows
  <2> HIDE DEF e
  <2>5. NumberSettled(e)
    BY <1>1, <2>3, <2>4 DEF NumberSettled, Idle, Flags
  <2> QED BY <1>2, <1>4, <2>4, <2>5
<1> QED BY <1>3, <1>4

LEMMA MessageRefreshedShows ==
  ASSUME NumberKind, numberEditable \in BOOLEAN, NumberSettled(numberWidget), NEW v \in Number!Bytes, Number!MessageRefreshed(v)
  PROVE  NumberSettled(numberWidget') /\ numberEditable
<1> DEFINE w0 == numberWidget
           y == [w0 EXCEPT !.field = v]
           x == [w0 EXCEPT !.field = v, !.told = v]
           b == Number!refresh[x]
<1>1. Shown(w0) /\ Idle(w0) /\ numberEditable
  BY DEF NumberSettled, Number!MessageRefreshed
<1>2. numberWidget' = b
  BY DEF Number!MessageRefreshed, Number!Refresh
<1>3. v \in Number!Values /\ Number!CanWrite(v) /\ v \in Nat
  BY BytesAreValues
<1>4. Prepared(y) /\ Flags(w0, y) /\ y.field = v
  BY <1>1, <1>3, ShownIsPrepared, SetsSane
<1>5. x = [y EXCEPT !.told = v]
  BY <1>1 DEF Shown, NumberStates, Number!States
<1> HIDE DEF x, y
<1>6. x \in NumberStates /\ x.field = y.field /\ x.box = y.box /\ x.old = y.old /\ Flags(y, x) /\ (x.ok <=> y.ok)
  BY <1>3, <1>4, <1>5 DEF Prepared, NumberStates, Number!States, Flags
<1>7. Prepared(x)
  BY <1>4, <1>6 DEF Prepared, Sane, Writable, Remembered
<1>8. Shown(b) /\ Flags(x, b)
  BY <1>1, <1>7, RefreshShows DEF Allowed
<1> HIDE DEF b
<1>9. NumberSettled(b)
  BY <1>1, <1>4, <1>6, <1>8 DEF NumberSettled, Idle, Flags
<1> QED BY <1>1, <1>2, <1>9

LEMMA MadeIsSettled ==
  ASSUME NumberKind, numberEditable \in BOOLEAN, numberEditable, NEW v \in Number!Bytes
  PROVE  NumberSettled(Number!Made(v))
<1> DEFINE q == Number!ConnectedFirst
           x == IF number = "enum" THEN Number!Unknown ELSE 0
           a == [field |-> v, line |-> v, box |-> x, special |-> Number!NotSpecial, old |-> 0,
                 told |-> v, connected |-> q, making |-> TRUE, ok |-> TRUE]
           c == Number!refresh[a]
           d == [c EXCEPT !.connected = TRUE]
           e == [d EXCEPT !.making = FALSE]
           b == [e EXCEPT !.told = v]
<1>1. v \in Number!Values /\ Number!CanWrite(v) /\ v \in Nat
  BY BytesAreValues
<1>2. Number!Made(v) = [c EXCEPT !.connected = TRUE, !.making = FALSE, !.told = v]
  BY DEF Number!Made, Number!Refresh
<1>3. q \in BOOLEAN /\ x \in Int /\ Number!NotSpecial \in Int /\ (number = "enum" => x = Number!Unknown)
  BY DEF Number!ConnectedFirst, Number!Unknown, Number!NotSpecial
<1> HIDE DEF q, x
<1>4. a \in NumberStates /\ a.field = v /\ a.box = x /\ a.old = 0 /\ a.making /\ a.ok
  BY <1>1, <1>3 DEF NumberStates, Number!States
<1> HIDE DEF a
<1>5. Prepared(a)
  BY <1>1, <1>3, <1>4, ValuesAssumption DEF Prepared, Sane, Writable, Remembered
<1>6. Shown(c)
  BY <1>5, RefreshShows DEF Allowed
<1> HIDE DEF c
<1>7. /\ d \in NumberStates /\ d.field = c.field /\ d.line = c.line /\ d.box = c.box /\ d.special = c.special
      /\ d.connected /\ (d.ok <=> c.ok) /\ d.old = c.old
  BY <1>6 DEF Shown, NumberStates, Number!States
<1>8. Number!Made(v) = b
  BY <1>2, <1>6 DEF Shown, NumberStates, Number!States
<1> HIDE DEF d
<1>9. /\ e \in NumberStates /\ e.field = c.field /\ e.line = c.line /\ e.box = c.box /\ e.special = c.special
      /\ e.connected /\ (e.ok <=> c.ok) /\ e.old = c.old /\ ~e.making
  BY <1>7 DEF NumberStates, Number!States
<1> HIDE DEF e
<1>10. /\ b \in NumberStates /\ b.field = c.field /\ b.line = c.line /\ b.box = c.box /\ b.special = c.special
       /\ b.connected /\ (b.ok <=> c.ok) /\ b.old = c.old /\ ~b.making
  BY <1>1, <1>9 DEF NumberStates, Number!States
<1> HIDE DEF b
<1>11. Shown(b) /\ Idle(b)
  BY <1>6, <1>10 DEF Shown, Idle, Sane, Agrees, Writable, Remembered
<1> QED BY <1>8, <1>11 DEF NumberSettled

-----------------------------------------------------------------------------
(* The invariant, and that every step keeps it.                               *)
NumberSound ==
  /\ NumberKind /\ numberEditable \in BOOLEAN /\ NumberSettled(numberWidget)
  /\ Reported(numberWidget) \/ silent
  /\ typed # Number!Untyped /\ Showable(typed) => numberWidget.field = typed

NumberRun == subject = "number" => NumberSound

LEMMA NumberIsRight ==
  ASSUME NumberSound
  PROVE  Number!ShownIsField /\ Number!ChangesAreReported /\ Number!TypedBytesStay /\ Number!NoAssertionFails
<1>1. NumberKind /\ Shown(numberWidget)
  BY DEF NumberSound, NumberSettled
<1>2. Agrees(numberWidget) /\ Sane(numberWidget)
  BY <1>1 DEF Shown
<1>3. Number!ShownIsField
  BY <1>1, <1>2 DEF Agrees, NumberKind, Number!Kinds, Number!SpinKinds, Number!ShownIsField
<1>4. Number!NoAssertionFails
  BY <1>2 DEF Sane, Exempt, Number!NoAssertionFails
<1>5. Number!ChangesAreReported
  BY DEF NumberSound, Reported, Number!ChangesAreReported
<1>6. Number!TypedBytesStay
  BY DEF NumberSound, Showable, Number!TypedBytesStay
<1> QED BY <1>3, <1>4, <1>5, <1>6

(* The kind of widget and the options of the field stay.                       *)
LEMMA ShownLater ==
  ASSUME NumberKind, UNCHANGED <<number, how>>, NumberSettled(numberWidget')
  PROVE  NumberKind' /\ NumberSettled(numberWidget)'
<1>1. NumberKind'
  BY DEF NumberKind, Number!Kinds, Number!SpinKinds, Number!Options
<1>2. numberWidget' \in NumberStates /\ Sane(numberWidget') /\ Agrees(numberWidget') /\ Idle(numberWidget')
  BY DEF NumberSettled, Shown
<1>3. (numberWidget \in NumberStates)'
  BY <1>2 DEF NumberStates, Number!States, Number!Values
<1>4. Sane(numberWidget)'
  BY <1>2 DEF Sane, Exempt, Writable, Remembered, Number!CanWrite
<1>5. Agrees(numberWidget)'
  BY <1>2 DEF Agrees, Number!SpecialOf, Number!ItemOf, Number!Fit, Number!Bounded, Number!Parsed, Number!Display
<1>6. Idle(numberWidget)'
  BY <1>2 DEF Idle
<1> QED BY <1>1, <1>3, <1>4, <1>5, <1>6 DEF NumberSettled, Shown

LEMMA ShowableLater ==
  ASSUME UNCHANGED <<number, how>>, Showable(typed)'
  PROVE  Showable(typed')
BY DEF Showable, Number!Valid, Number!Fit, Number!Bounded, Number!Display

LEMMA NumberSteps ==
  ASSUME NumberSound, Number!Next
  PROVE  NumberSound' /\ Number!ReadOnlyStaysStep
<1> USE DEF Number!Unchanged
<1>1. NumberKind /\ numberEditable \in BOOLEAN /\ NumberSettled(numberWidget) /\ (Reported(numberWidget) \/ silent)
  BY DEF NumberSound
<1>2. ASSUME UNCHANGED <<number, how>>, numberEditable' \in BOOLEAN, NumberSettled(numberWidget'),
             Reported(numberWidget') \/ silent',
             typed' # Number!Untyped => (Showable(typed') => (numberWidget').field = typed')
      PROVE  NumberSound'
  <2>1. NumberKind' /\ NumberSettled(numberWidget)'
    BY <1>1, <1>2, ShownLater
  <2>2. Showable(typed)' => Showable(typed')
    BY <1>2, ShowableLater
  <2>3. (Reported(numberWidget) \/ silent)'
    BY <1>2 DEF Reported
  <2> QED BY <1>2, <2>1, <2>2, <2>3 DEF NumberSound, Number!Untyped
<1>3. ASSUME NEW b \in 0 .. MaxType \cup {Number!Unknown}, Number!EditBox(b)
      PROVE  NumberSound' /\ Number!ReadOnlyStaysStep
  <2>1. Answer(numberWidget, numberWidget')
    BY <1>1, <1>3, EditBoxAnswers
  <2>2. UNCHANGED <<number, how, numberEditable, silent>> /\ typed' = Number!Untyped
    BY <1>3 DEF Number!EditBox
  <2>3. NumberSettled(numberWidget')
    BY <1>1, <2>1 DEF Answer, NumberSettled, Idle, Flags
  <2>4. Reported(numberWidget') \/ silent'
    BY <1>1, <2>1, <2>2 DEF Answer, Unmoved, Reported
  <2>5. NumberSound'
    BY <1>1, <1>2, <2>2, <2>3, <2>4
  <2> QED BY <2>1, <2>5 DEF Answer, Number!ReadOnlyStaysStep
<1>4. ASSUME NEW v \in Number!Bytes, Number!EditBytes(v)
      PROVE  NumberSound' /\ Number!ReadOnlyStaysStep
  <2>1. NumberSettled(numberWidget') /\ Reported(numberWidget') /\ (Showable(v) => (numberWidget').field = v)
    BY <1>1, <1>4, EditBytesAnswers
  <2>2. UNCHANGED <<number, how, numberEditable>> /\ typed' = v /\ numberEditable
    BY <1>4 DEF Number!EditBytes
  <2>3. NumberSound'
    BY <1>1, <1>2, <2>1, <2>2
  <2> QED BY <2>2, <2>3 DEF Number!ReadOnlyStaysStep
<1>5. ASSUME NEW v \in Number!Bytes, Number!MessageRefreshed(v)
      PROVE  NumberSound' /\ Number!ReadOnlyStaysStep
  <2>1. NumberSettled(numberWidget') /\ numberEditable
    BY <1>1, <1>5, MessageRefreshedShows
  <2>2. UNCHANGED <<number, how, numberEditable>> /\ typed' = Number!Untyped
        /\ silent' = ((numberWidget').told # (numberWidget').field)
    BY <1>5 DEF Number!MessageRefreshed
  <2>3. Reported(numberWidget') \/ silent'
    BY <2>2 DEF Reported
  <2>4. NumberSound'
    BY <1>1, <1>2, <2>1, <2>2, <2>3
  <2> QED BY <2>1, <2>4 DEF Number!ReadOnlyStaysStep
<1>6. ASSUME NEW v \in Specials \cup {Number!NotSpecial}, Number!ChooseSpecial(v)
      PROVE  NumberSound' /\ Number!ReadOnlyStaysStep
  <2>1. NumberSettled(numberWidget') /\ (~numberEditable => (numberWidget').field = numberWidget.field)
    BY <1>1, <1>6, ChooseSpecialShows
  <2>2. UNCHANGED <<number, how, numberEditable>> /\ typed' = Number!Untyped
        /\ silent' = (silent \/ (numberWidget').told # (numberWidget').field)
    BY <1>6 DEF Number!ChooseSpecial
  <2>3. Reported(numberWidget') \/ silent'
    BY <2>2 DEF Reported
  <2>4. NumberSound'
    BY <1>1, <1>2, <2>1, <2>2, <2>3
  <2> QED BY <2>1, <2>4 DEF Number!ReadOnlyStaysStep
<1>7. ASSUME NEW v \in Number!NotNumbers \cup {0}, Number!ChooseType(v)
      PROVE  NumberSound' /\ Number!ReadOnlyStaysStep
  <2>1. /\ NumberSettled(numberWidget') /\ (Reported(numberWidget') \/ Unmoved(numberWidget, numberWidget'))
        /\ ~numberEditable => (numberWidget').field = numberWidget.field
    BY <1>1, <1>7, ChooseTypeAnswers
  <2>2. UNCHANGED <<number, how, numberEditable, silent>> /\ typed' = Number!Untyped
    BY <1>7 DEF Number!ChooseType
  <2>3. Reported(numberWidget') \/ silent'
    BY <1>1, <2>1, <2>2 DEF Unmoved, Reported
  <2>4. NumberSound'
    BY <1>1, <1>2, <2>1, <2>2, <2>3
  <2> QED BY <2>1, <2>4 DEF Number!ReadOnlyStaysStep
<1>8. CASE Number!SetEditEnabled
  <2>1. UNCHANGED <<number, how, numberWidget, silent>> /\ numberEditable' = ~numberEditable /\ typed' = Number!Untyped
    BY <1>8 DEF Number!SetEditEnabled
  <2>2. NumberSettled(numberWidget') /\ (Reported(numberWidget') \/ silent') /\ numberEditable' \in BOOLEAN
    BY <1>1, <2>1
  <2>3. NumberSound'
    BY <1>2, <2>1, <2>2
  <2> QED BY <2>1, <2>3 DEF Number!ReadOnlyStaysStep
<1> QED BY <1>3, <1>4, <1>5, <1>6, <1>7, <1>8 DEF Number!Next

LEMMA NumberStays ==
  ASSUME NumberSound, UNCHANGED numberVars PROVE NumberSound' /\ Number!ReadOnlyStaysStep
<1>1. UNCHANGED <<number, how, numberEditable, numberWidget, typed, silent>>
  BY DEF numberVars
<1>2. NumberKind' /\ NumberSettled(numberWidget)'
  BY <1>1, ShownLater DEF NumberSound
<1>3. Showable(typed)' => Showable(typed)
  BY <1>1, ShowableLater
<1> QED BY <1>1, <1>2, <1>3 DEF NumberSound, Reported, Number!Untyped, Number!ReadOnlyStaysStep

LEMMA NumberInvariant == Spec => []NumberRun
<1>1. ASSUME Init PROVE NumberSound
  <2>1. NumberKind /\ numberEditable /\ numberEditable \in BOOLEAN /\ typed = Number!Untyped
        /\ silent = (numberWidget.field # numberWidget.told)
    BY <1>1 DEF Init, Number!Init, NumberKind
  <2>2. PICK v \in Number!Bytes : numberWidget = Number!Made(v)
    BY <1>1 DEF Init, Number!Init
  <2>3. NumberSettled(numberWidget)
    BY <2>1, <2>2, MadeIsSettled
  <2>4. Reported(numberWidget) \/ silent
    BY <2>1 DEF Reported
  <2> QED BY <2>1, <2>3, <2>4 DEF NumberSound
<1>2. NumberRun /\ [Next]_vars => NumberRun'
  <2> SUFFICES ASSUME NumberRun, [Next]_vars PROVE NumberRun'
    OBVIOUS
  <2>1. CASE NumberStep /\ UNCHANGED subject
    BY <2>1, NumberSteps DEF NumberStep, NumberRun
  <2>2. CASE UNCHANGED <<subject, numberVars>>
    BY <2>2, NumberStays DEF NumberRun
  <2>3. (NumberStep /\ UNCHANGED subject) \/ UNCHANGED <<subject, numberVars>>
    BY DEF Next, vars, fieldVars, SettingsStep, SerialStep, FrameStep, MsgFilesStep, FilesStep, MemberStep, TextStep
  <2> QED BY <2>1, <2>2, <2>3
<1> QED BY <1>1, <1>2, PTL DEF Spec, NumberRun

-----------------------------------------------------------------------------
(* The widgets of texts.  First the texts themselves: what a box drops, where a  *)
(* string ends, and what is cut or filled.                                     *)
Texts == Seq(Text!Chars)
Clear(s, c) == \A i \in 1 .. Len(s) : s[i] # c

Rests(s, g) ==
  g = [n \in 0 .. Len(s) |-> IF n = 0 THEN <<>>
                             ELSE IF s[n] = Text!Return THEN g[n - 1] ELSE Append(g[n - 1], s[n])]

LEMMA RestsExist ==
  ASSUME NEW s \in Texts PROVE \E g : Rests(s, g)
<1> DEFINE Part(n, g) == g = [i \in 0 .. n |-> IF i = 0 THEN <<>>
                                               ELSE IF s[i] = Text!Return THEN g[i - 1] ELSE Append(g[i - 1], s[i])]
           T == {n \in Nat : \E g : Part(n, g)}
<1>1. 0 \in T
  <2>1. Part(0, [i \in {0} |-> <<>>])
    BY 0 .. 0 = {0}
  <2> QED BY <2>1
<1>2. ASSUME NEW n \in Nat, n \in T PROVE n + 1 \in T
  <2>1. PICK g : Part(n, g)
    BY <1>2
  <2> DEFINE h == [i \in 0 .. n + 1 |-> IF i \in 0 .. n THEN g[i]
                                        ELSE IF s[n + 1] = Text!Return THEN g[n] ELSE Append(g[n], s[n + 1])]
  <2>2. Part(n + 1, h)
    <3>1. ASSUME NEW i \in 0 .. n + 1
          PROVE  h[i] = IF i = 0 THEN <<>> ELSE IF s[i] = Text!Return THEN h[i - 1] ELSE Append(h[i - 1], s[i])
      <4>1. CASE i \in 0 .. n
        <5>1. g[i] = IF i = 0 THEN <<>> ELSE IF s[i] = Text!Return THEN g[i - 1] ELSE Append(g[i - 1], s[i])
          BY <2>1, <4>1
        <5>2. i # 0 => i - 1 \in 0 .. n
          BY <4>1
        <5> QED BY <4>1, <5>1, <5>2
      <4>2. CASE i = n + 1
        <5>1. n \in 0 .. n /\ n + 1 \notin 0 .. n /\ i # 0 /\ i - 1 = n
          BY <4>2
        <5> QED BY <4>2, <5>1
      <4> QED BY <4>1, <4>2
    <3>2. h = [i \in 0 .. n + 1 |-> h[i]]
      OBVIOUS
    <3> HIDE DEF h
    <3> QED BY <3>1, <3>2
  <2>3. \E x : Part(n + 1, x)
    <3> HIDE DEF h, Part
    <3> QED BY <2>2
  <2> HIDE DEF h, Part
  <2> QED BY <2>3
<1> HIDE DEF T
<1>3. Len(s) \in Nat
  BY DEF Texts
<1>4. Len(s) \in T
  <2> DEFINE m == Len(s)
  <2>1. \A k \in 0 .. m : k \in T
    <3>1. m \in Nat /\ \A k \in 0 .. m : k < m /\ k \in T => k + 1 \in T
      BY <1>2, <1>3
    <3> HIDE DEF m
    <3> QED BY <1>1, <3>1, UpTo
  <2> QED BY <1>3, <2>1
<1> QED BY <1>4 DEF T, Rests

LEMMA RestIs ==
  ASSUME NEW s \in Texts PROVE \E g : Rests(s, g) /\ Text!Without(Text!Return, s) = g[Len(s)]
<1> DEFINE g == CHOOSE g : Rests(s, g)
<1>1. Rests(s, g)
  BY RestsExist
<1>2. Text!Without(Text!Return, s) = g[Len(s)]
  BY DEF Text!Without, Rests
<1> QED BY <1>1, <1>2

LEMMA WithoutReturns ==
  ASSUME NEW s \in Texts
  PROVE  LET t == Text!Without(Text!Return, s)
         IN  t \in Texts /\ Len(t) <= Len(s) /\ Clear(t, Text!Return) /\ (Clear(s, Text!Return) => t = s)
<1> DEFINE m == Len(s)
           r == Text!Return
           t == Text!Without(r, s)
<1>1. PICK g : Rests(s, g) /\ t = g[m]
  BY RestIs
<1> HIDE DEF t
<1>2. m \in Nat /\ \A n \in 1 .. m : s[n] \in Text!Chars
  BY DEF Texts
<1>3. g[0] = <<>> /\ \A n \in 1 .. m : g[n] = IF s[n] = r THEN g[n - 1] ELSE Append(g[n - 1], s[n])
  <2>1. g = [n \in 0 .. m |-> IF n = 0 THEN <<>> ELSE IF s[n] = r THEN g[n - 1] ELSE Append(g[n - 1], s[n])]
    BY <1>1 DEF Rests
  <2>2. 0 \in 0 .. m /\ \A n \in 1 .. m : n \in 0 .. m /\ n # 0
    BY <1>2
  <2> HIDE DEF m, r
  <2>3. g[0] = <<>>
    BY <2>1, <2>2, Zenon
  <2>4. ASSUME NEW n \in 1 .. m PROVE g[n] = IF s[n] = r THEN g[n - 1] ELSE Append(g[n - 1], s[n])
    BY <2>1, <2>2, Zenon
  <2> QED BY <2>3, <2>4
<1> DEFINE T == {n \in 0 .. m : /\ g[n] \in Texts /\ Len(g[n]) <= n /\ Clear(g[n], r)
                                /\ Clear(s, r) => Len(g[n]) = n /\ \A i \in 1 .. n : g[n][i] = s[i]}
<1> HIDE DEF m, r
<1>4. 0 \in T
  <2>1. <<>> \in Texts /\ Len(<<>>) = 0
    BY EmptySeq DEF Texts
  <2>2. Clear(<<>>, r)
    BY <2>1 DEF Clear
  <2>3. 0 \in 0 .. m /\ 1 .. 0 = {}
    BY <1>2
  <2> QED BY <1>3, <2>1, <2>2, <2>3
<1>5. ASSUME NEW k \in 0 .. m, k < m, k \in T PROVE k + 1 \in T
  <2> DEFINE c == s[k + 1]
             p == g[k]
             q == g[k + 1]
  <2>1. k + 1 \in 1 .. m /\ k + 1 - 1 = k /\ c \in Text!Chars
    BY <1>2, <1>5
  <2>2. q = IF c = r THEN p ELSE Append(p, c)
    BY <1>3, <2>1
  <2>3. /\ p \in Texts /\ Len(p) \in Nat /\ Len(p) <= k /\ Clear(p, r)
        /\ Clear(s, r) => Len(p) = k /\ \A i \in 1 .. k : p[i] = s[i]
    BY <1>5 DEF Texts
  <2>4. Clear(s, r) => c # r
    BY <2>1 DEF Clear, m
  <2> HIDE DEF p, q, c
  <2>5. CASE c = r
    BY <2>1, <2>2, <2>3, <2>4, <2>5 DEF q
  <2>6. CASE c # r
    <3>1. q \in Texts /\ Len(q) = Len(p) + 1 /\ q[Len(p) + 1] = c /\ \A i \in 1 .. Len(p) : q[i] = p[i]
      BY <2>1, <2>2, <2>3, <2>6 DEF Texts
    <3>2. Len(p) \in Nat
      BY <2>3 DEF Texts
    <3>3. Clear(q, r)
      BY <2>3, <2>6, <3>1, <3>2 DEF Clear
    <3>4. Clear(s, r) => Len(q) = k + 1 /\ \A i \in 1 .. k + 1 : q[i] = s[i]
      BY <2>1, <2>3, <3>1 DEF c
    <3>5. Len(q) <= k + 1
      BY <2>1, <2>3, <3>1
    <3> QED BY <2>1, <3>1, <3>3, <3>4, <3>5 DEF q
  <2> QED BY <2>5, <2>6
<1>6. m \in T
  <2> HIDE DEF T
  <2>1. \A k \in 0 .. m : k \in T
    BY <1>2, <1>4, <1>5, UpTo
  <2> QED BY <1>2, <2>1
<1>7. t \in Texts /\ Len(t) <= m /\ Clear(t, r)
  BY <1>1, <1>6
<1>8. ASSUME Clear(s, r) PROVE t = s
  <2>1. Len(t) = m /\ \A i \in 1 .. m : t[i] = s[i]
    BY <1>1, <1>6, <1>8
  <2> QED BY <1>7, <2>1, SeqEqual DEF m, Texts
<1> QED BY <1>7, <1>8 DEF t, r, m

LEMMA PrefixIs ==
  ASSUME NEW s \in Texts, NEW n \in Nat
  PROVE  LET t == Text!Prefix(s, n)
         IN  /\ t \in Texts /\ Len(t) = (IF Len(s) < n THEN Len(s) ELSE n) /\ \A i \in 1 .. Len(t) : t[i] = s[i]
             /\ Len(s) <= n => t = s
<1> DEFINE k == IF Len(s) < n THEN Len(s) ELSE n
           t == Text!Prefix(s, n)
<1>1. Len(s) \in Nat /\ k \in Nat /\ k <= Len(s) /\ \A i \in 1 .. k : s[i] \in Text!Chars
  BY DEF Texts
<1>2. t = SubSeq(s, 1, k)
  BY DEF Text!Prefix
<1> HIDE DEF k
<1>3. t \in Texts /\ Len(t) = k /\ \A i \in 1 .. k : t[i] = s[i]
  <2>1. /\ SubSeq(s, 1, k) \in Seq(Text!Chars) /\ Len(SubSeq(s, 1, k)) = (IF 1 <= k THEN k - 1 + 1 ELSE 0)
        /\ \A i \in 1 .. k - 1 + 1 : SubSeq(s, 1, k)[i] = s[1 + i - 1]
    BY <1>1, SubSeqProperties
  <2> QED BY <1>1, <1>2, <2>1 DEF Texts
<1>4. Len(s) <= n => t = s
  BY <1>1, <1>3, SeqEqual DEF Texts, k
<1> QED BY <1>3, <1>4 DEF k, t

LEMMA FillIs ==
  ASSUME NEW s \in Texts, Len(s) <= 2 * MaxSize
  PROVE  LET t == Text!Fill(s)
         IN  /\ t \in Texts /\ (textual # "fixed" => t = s)
             /\ textual = "fixed" => Len(t) = 2 * MaxSize /\ (Len(s) = 2 * MaxSize => t = s)
<1> DEFINE k == 2 * MaxSize - Len(s)
           z == [i \in 1 .. k |-> "0"]
<1>1. MaxSize \in Nat /\ Len(s) \in Nat /\ k \in Nat /\ Len(s) + k = 2 * MaxSize
  BY DataPartsAssumption DEF Texts
<1>2. Text!Fill(s) = IF textual = "fixed" THEN s \o z ELSE s
  BY DEF Text!Fill
<1> HIDE DEF k
<1>3. z \in Seq(Text!Chars) /\ Len(z) = k
  BY <1>1 DEF Text!Chars
<1> HIDE DEF z
<1>4. s \o z \in Seq(Text!Chars) /\ Len(s \o z) = Len(s) + Len(z) /\ (z = <<>> => s \o z = s)
  <2>1. s \in Seq(Text!Chars)
    BY DEF Texts
  <2>2. s \o z \in Seq(Text!Chars) /\ Len(s \o z) = Len(s) + Len(z)
    BY <1>3, <2>1, ConcatProperties, Zenon
  <2>3. z = <<>> => s \o z = s
    BY <2>1, ConcatEmptySeq, Zenon
  <2> QED BY <2>2, <2>3
<1>5. k = 0 => z = <<>>
  BY <1>3, EmptySeq
<1> QED BY <1>1, <1>2, <1>3, <1>4, <1>5 DEF Texts

LEMMA LimitedIs ==
  ASSUME NEW s \in Texts, Text!Raw
  PROVE  LET t == Text!Limited(s)
         IN  /\ t \in Texts /\ Len(t) <= 2 * MaxSize /\ (textual = "fixed" => Len(t) = 2 * MaxSize)
             /\ Len(s) <= 2 * MaxSize /\ (textual = "fixed" => Len(s) = 2 * MaxSize) => t = s
<1> DEFINE p == Text!Prefix(s, 2 * MaxSize)
<1>1. MaxSize \in Nat /\ 2 * MaxSize \in Nat /\ Len(s) \in Nat
  BY DataPartsAssumption DEF Texts
<1>2. p \in Texts /\ Len(p) <= 2 * MaxSize /\ (Len(s) <= 2 * MaxSize => p = s)
  BY <1>1, PrefixIs
<1>3. Text!Limited(s) = Text!Fill(p)
  BY DEF Text!Limited
<1> HIDE DEF p
<1> QED BY <1>2, <1>3, FillIs

(* The values that stay as they are when they are shown and read back.         *)
Even(s) == Len(s) % 2 = 0
NeatRaw(v) == Even(v) /\ Len(v) <= 2 * MaxSize /\ (textual = "fixed" => Len(v) = 2 * MaxSize)
NeatText(v) == Len(v) <= MaxSize /\ Clear(v, Text!Return) /\ Clear(v, Text!Zero)
Neat(v) == v \in Texts /\ (Text!Raw => NeatRaw(v)) /\ (~Text!Raw => NeatText(v))

LEMMA WholeIs ==
  ASSUME NEW s \in Texts, Text!Raw, Len(s) <= 2 * MaxSize, textual = "fixed" => Len(s) = 2 * MaxSize
  PROVE  Neat(Text!Whole(s)) /\ (Even(s) => Text!Whole(s) = s) /\ (~Even(s) => Text!Whole(s) = Append(s, "0"))
<1> DEFINE n == Len(s)
           t == Append(s, "0")
<1>1. MaxSize \in Nat /\ n \in Nat
  BY DataPartsAssumption DEF Texts
<1>2. t \in Texts /\ Len(t) = n + 1
  BY DEF Texts, Text!Chars
<1>3. Text!Whole(s) = IF Even(s) THEN s ELSE t
  BY DEF Text!Whole, Even
<1>4. CASE Even(s)
  BY <1>3, <1>4 DEF Neat, NeatRaw
<1>5. CASE ~Even(s)
  <2>1. n % 2 = 1 /\ (n + 1) % 2 = 0 /\ n + 1 <= 2 * MaxSize /\ n # 2 * MaxSize
    BY <1>1, <1>5 DEF Even
  <2> QED BY <1>2, <1>3, <1>5, <2>1 DEF Neat, NeatRaw, Even
<1> QED BY <1>4, <1>5

LEMMA UpToZeroIs ==
  ASSUME NEW s \in Texts
  PROVE  LET t == Text!UpToZero(s)
         IN  /\ t \in Texts /\ Clear(t, Text!Zero) /\ Len(t) <= Len(s) /\ \A i \in 1 .. Len(t) : t[i] = s[i]
             /\ Clear(s, Text!Zero) => t = s
<1> DEFINE z == Text!Zero
           t == Text!UpToZero(s)
           First(i) == s[i] = z /\ ~Text!Contains(SubSeq(s, 1, i - 1), z)
<1>1. Len(s) \in Nat /\ DOMAIN s = 1 .. Len(s) /\ (Text!Contains(s, z) <=> ~Clear(s, z))
  BY DEF Texts, Text!Contains, Clear
<1>2. CASE Clear(s, z)
  BY <1>1, <1>2 DEF Text!UpToZero
<1>3. CASE ~Clear(s, z)
  <2> DEFINE T == {i \in 1 .. Len(s) : s[i] = z}
             k == CHOOSE i \in DOMAIN s : First(i)
  <2>1. PICK j \in T : \A y \in T : j <= y
    <3>1. T \subseteq Nat /\ T # {}
      BY <1>1, <1>3 DEF Clear
    <3> HIDE DEF T
    <3> QED BY <3>1, Least
  <2>2. ASSUME NEW i \in 1 .. Len(s) PROVE LET p == SubSeq(s, 1, i - 1)
                                           IN  p \in Texts /\ Len(p) = i - 1 /\ \A y \in 1 .. i - 1 : p[y] = s[y]
    <3>1. i - 1 \in 0 .. Len(s) /\ \A y \in 1 .. i - 1 : s[y] \in Text!Chars
      BY <1>1 DEF Texts
    <3>2. /\ SubSeq(s, 1, i - 1) \in Seq(Text!Chars) /\ Len(SubSeq(s, 1, i - 1)) = (IF 1 <= i - 1 THEN i - 1 - 1 + 1 ELSE 0)
          /\ \A y \in 1 .. i - 1 - 1 + 1 : SubSeq(s, 1, i - 1)[y] = s[1 + y - 1]
      BY <3>1, SubSeqProperties
    <3> QED BY <1>1, <3>1, <3>2 DEF Texts
  <2>3. First(j)
    <3>1. j \in 1 .. Len(s) /\ s[j] = z /\ \A y \in 1 .. j - 1 : s[y] # z
      BY <1>1, <2>1
    <3> QED BY <1>1, <2>2, <3>1 DEF Text!Contains
  <2> HIDE DEF T
  <2>4. k \in 1 .. Len(s) /\ First(k)
    BY <1>1, <2>1, <2>3 DEF T
  <2>5. t = SubSeq(s, 1, k - 1)
    BY <1>1, <1>3 DEF Text!UpToZero
  <2> HIDE DEF k
  <2>6. t \in Texts /\ Len(t) = k - 1 /\ \A y \in 1 .. k - 1 : t[y] = s[y]
    BY <2>2, <2>4, <2>5
  <2>7. Clear(t, z)
    BY <2>4, <2>5 DEF Text!Contains, Clear
  <2> QED BY <1>1, <1>3, <2>4, <2>6, <2>7
<1> QED BY <1>2, <1>3

-----------------------------------------------------------------------------
(* Refreshing such a widget: the parts it sets, and the state from which the     *)
(* report of the box refreshes it again.                                      *)
TextStates == Text!States
TextKind == textual \in {"string", "raw", "fixed"}

Newer(v, s) == IF ~Text!Raw THEN Text!UpToZero(s) ELSE IF s = <<>> THEN v ELSE Text!Whole(s)
Byted(a) == [a EXCEPT !.bytes = Text!Shown(a)]
Worded(a) == [Byted(a) EXCEPT !.text = Text!Plain(Text!Shown(a))]
TextCall(a) == [Text!Set(Worded(a), Text!Limited(Worded(a).text)) EXCEPT !.all = TRUE]
TextRight(a) == Text!Same(a.text, Text!Shown(a))
TextQuiet(a) == TextRight(a) \/ ~a.connected
TextTold(c) == [c EXCEPT !.told = c.value]

Same4(a, b) == b.value = a.value /\ b.told = a.told /\ (b.all <=> a.all) /\ (b.connected <=> a.connected)

LEMMA TextFieldsOf ==
  ASSUME NEW a \in TextStates
  PROVE  /\ a.value \in Texts /\ a.text \in Texts /\ a.bytes \in Texts /\ a.told \in Texts
         /\ Text!Shown(a) \in Texts /\ Text!Plain(Text!Shown(a)) \in Texts
         /\ ~Text!Raw \/ a.all => Text!Shown(a) = a.value
         /\ Text!Raw => Text!Plain(Text!Shown(a)) = Text!Shown(a)
         /\ ~Text!Raw => Clear(Text!Plain(Text!Shown(a)), Text!Return)
<1>1. a.value \in Texts /\ a.text \in Texts /\ a.bytes \in Texts /\ a.told \in Texts
  BY DEF TextStates, Text!States, Texts
<1>2. 2 * TruncateLength \in Nat
  BY DataPartsAssumption
<1>3. Text!Prefix(a.value, 2 * TruncateLength) \in Texts
  BY <1>1, <1>2, PrefixIs
<1>4. Text!Shown(a) \in Texts /\ (~Text!Raw \/ a.all => Text!Shown(a) = a.value)
  BY <1>1, <1>3 DEF Text!Shown, Text!Truncated
<1>5. Text!Plain(Text!Shown(a)) = IF Text!Raw THEN Text!Shown(a) ELSE Text!Without(Text!Return, Text!Shown(a))
  BY DEF Text!Plain
<1> QED BY <1>1, <1>4, <1>5, WithoutReturns

LEMMA TextLimits ==
  ASSUME NEW s \in Texts PROVE Text!Limited(s) \in Texts
<1>1. MaxSize \in Nat
  BY DataPartsAssumption
<1>2. CASE Text!Raw
  BY <1>2, LimitedIs
<1>3. CASE ~Text!Raw
  BY <1>1, <1>3, PrefixIs DEF Text!Limited
<1> QED BY <1>2, <1>3

LEMMA WholeTexts ==
  ASSUME NEW s \in Texts PROVE Text!Whole(s) \in Texts
BY DEF Text!Whole, Texts, Text!Chars

LEMMA SetTexts ==
  ASSUME NEW a \in TextStates, NEW s \in Texts
  PROVE  LET b == Text!Set(a, s)
         IN  /\ b \in TextStates /\ b.value = Newer(a.value, s) /\ b.text = a.text /\ b.bytes = a.bytes /\ b.told = a.told
             /\ (b.all <=> a.all) /\ (b.connected <=> a.connected)
<1> DEFINE v == Newer(a.value, s)
<1>1. v \in Texts
  BY TextFieldsOf, WholeTexts, UpToZeroIs DEF Newer
<1>2. a = [a EXCEPT !.value = a.value]
  BY DEF TextStates, Text!States
<1>3. Text!Set(a, s) = [a EXCEPT !.value = v]
  BY <1>2 DEF Text!Set, Newer
<1> HIDE DEF v
<1>4. LET b == Text!Set(a, s)
      IN  /\ b \in TextStates /\ b.value = v /\ b.text = a.text /\ b.bytes = a.bytes /\ b.told = a.told
          /\ (b.all <=> a.all) /\ (b.connected <=> a.connected)
  BY <1>1, <1>3 DEF TextStates, Text!States, Texts
<1> QED BY <1>4 DEF v

LEMMA IsByted ==
  ASSUME NEW a \in TextStates
  PROVE  LET b == Byted(a) IN b \in TextStates /\ Same4(a, b) /\ b.text = a.text /\ b.bytes = Text!Shown(a)
<1> DEFINE s == Text!Shown(a)
<1>1. s \in Texts
  BY TextFieldsOf
<1>2. Byted(a) = [a EXCEPT !.bytes = s]
  BY DEF Byted
<1> HIDE DEF s
<1>3. LET b == Byted(a) IN b \in TextStates /\ Same4(a, b) /\ b.text = a.text /\ b.bytes = s
  BY <1>1, <1>2 DEF TextStates, Text!States, Texts, Same4
<1> QED BY <1>3 DEF s

LEMMA IsWorded ==
  ASSUME NEW a \in TextStates
  PROVE  LET b == Worded(a)
         IN  b \in TextStates /\ Same4(a, b) /\ b.text = Text!Plain(Text!Shown(a)) /\ b.bytes = Text!Shown(a)
<1> DEFINE s == Text!Plain(Text!Shown(a))
           c == Byted(a)
<1>1. s \in Texts
  BY TextFieldsOf
<1>2. Worded(a) = [c EXCEPT !.text = s]
  BY DEF Worded
<1>3. c \in TextStates /\ Same4(a, c) /\ c.bytes = Text!Shown(a)
  BY IsByted
<1> HIDE DEF s, c
<1>4. LET b == Worded(a) IN b \in TextStates /\ Same4(a, b) /\ b.text = s /\ b.bytes = Text!Shown(a)
  BY <1>1, <1>2, <1>3 DEF TextStates, Text!States, Texts, Same4
<1> QED BY <1>4 DEF s

LEMMA IsTextTold ==
  ASSUME NEW a \in TextStates
  PROVE  LET b == TextTold(a)
         IN  /\ b \in TextStates /\ b.value = a.value /\ b.text = a.text /\ b.bytes = a.bytes /\ b.told = a.value
             /\ (b.all <=> a.all) /\ (b.connected <=> a.connected)
<1>1. a.value \in Texts
  BY TextFieldsOf
<1> QED BY <1>1 DEF TextTold, TextStates, Text!States, Texts

LEMMA IsTextCall ==
  ASSUME NEW a \in TextStates
  PROVE  LET n == TextCall(a)
             s == Text!Plain(Text!Shown(a))
         IN  /\ n \in TextStates /\ n.all /\ (n.connected <=> a.connected) /\ n.text = s /\ n.told = a.told
             /\ n.value = Newer(a.value, Text!Limited(s))
<1> DEFINE s == Text!Plain(Text!Shown(a))
           l == Text!Limited(s)
           b == Worded(a)
           c == Text!Set(b, l)
<1>1. b \in TextStates /\ Same4(a, b) /\ b.text = s
  BY IsWorded
<1>2. l \in Texts
  BY TextFieldsOf, TextLimits
<1>3. TextCall(a) = [c EXCEPT !.all = TRUE]
  BY <1>1 DEF TextCall
<1> HIDE DEF s, l, b
<1>4. /\ c \in TextStates /\ c.value = Newer(b.value, l) /\ c.text = b.text /\ c.told = b.told
      /\ (c.connected <=> b.connected)
  BY <1>1, <1>2, SetTexts
<1> HIDE DEF c
<1>5. LET n == TextCall(a)
      IN  /\ n \in TextStates /\ n.all /\ (n.connected <=> c.connected) /\ n.text = c.text /\ n.told = c.told
          /\ n.value = c.value
  BY <1>3, <1>4 DEF TextStates, Text!States
<1> QED BY <1>1, <1>4, <1>5 DEF Same4, l, s

LEMMA TextRefreshed ==
  ASSUME NEW a \in TextStates, NEW g
  PROVE  Text!Refreshed(g, a) =
           IF TextRight(a) THEN Byted(a) ELSE IF ~a.connected THEN Worded(a) ELSE TextTold(g[TextCall(a)])
<1> DEFINE b == Byted(a)
           c == Worded(a)
           n == TextCall(a)
<1>1. Text!Refreshed(g, a) = IF TextRight(a) THEN b ELSE IF a.connected THEN Text!Changed(g, c) ELSE c
  BY DEF Text!Refreshed, TextRight, Byted, Worded
<1>2. Text!Changed(g, c) = TextTold(g[n])
  BY DEF Text!Changed, TextTold, TextCall
<1> HIDE DEF b, c, n
<1> QED BY <1>1, <1>2 DEF b, c, n

(* Values that are neat are read back as they are shown.                       *)
LEMMA NeatIsReadBack ==
  ASSUME NEW v, Neat(v)
  PROVE  Text!Plain(v) = v /\ Newer(v, Text!Limited(v)) = v
<1>1. v \in Texts
  BY DEF Neat
<1>2. CASE Text!Raw
  <2>1. Even(v) /\ Len(v) <= 2 * MaxSize /\ (textual = "fixed" => Len(v) = 2 * MaxSize)
    BY <1>2 DEF Neat, NeatRaw
  <2>2. Text!Limited(v) = v
    BY <1>1, <1>2, <2>1, LimitedIs
  <2>3. Text!Whole(v) = v
    BY <1>1, <1>2, <2>1, WholeIs
  <2> QED BY <1>2, <2>2, <2>3 DEF Newer, Text!Plain
<1>3. CASE ~Text!Raw
  <2>1. Len(v) <= MaxSize /\ Clear(v, Text!Return) /\ Clear(v, Text!Zero)
    BY <1>3 DEF Neat, NeatText
  <2>2. Text!Limited(v) = v
    BY <1>1, <1>3, <2>1, PrefixIs, DataPartsAssumption DEF Text!Limited
  <2>3. Text!UpToZero(v) = v
    BY <1>1, <2>1, UpToZeroIs
  <2>4. Text!Without(Text!Return, v) = v
    BY <1>1, <2>1, WithoutReturns
  <2> QED BY <1>3, <2>2, <2>3, <2>4 DEF Newer, Text!Plain
<1> QED BY <1>2, <1>3

LEMMA NeatCall ==
  ASSUME NEW a \in TextStates, Neat(a.value), Text!Raw => a.all
  PROVE  LET n == TextCall(a)
         IN  /\ n \in TextStates /\ n.all /\ n.value = a.value /\ n.text = a.value /\ n.told = a.told
             /\ TextRight(n) /\ Text!Shown(n) = a.value
<1> DEFINE n == TextCall(a)
<1>1. Text!Shown(a) = a.value
  BY TextFieldsOf
<1>2. Text!Plain(a.value) = a.value /\ Newer(a.value, Text!Limited(a.value)) = a.value
  BY NeatIsReadBack
<1>3. n \in TextStates /\ n.all /\ n.text = a.value /\ n.told = a.told /\ n.value = a.value
  BY <1>1, <1>2, IsTextCall
<1> HIDE DEF n
<1>4. Text!Shown(n) = n.value
  BY <1>3, TextFieldsOf
<1>5. TextRight(n)
  BY <1>3, <1>4 DEF TextRight, Text!Same
<1> QED BY <1>3, <1>4, <1>5 DEF n

(* What is read back is neat, but raw data that are not read.                   *)
LEMMA ReadIsNeat ==
  ASSUME NEW v \in Texts, NEW s \in Texts, ~Text!Raw => Clear(s, Text!Return)
  PROVE  Neat(Newer(v, Text!Limited(s))) \/ (Text!Raw /\ Newer(v, Text!Limited(s)) = v)
<1> DEFINE l == Text!Limited(s)
<1>1. MaxSize \in Nat
  BY DataPartsAssumption
<1>2. CASE Text!Raw
  <2>1. l \in Texts /\ Len(l) <= 2 * MaxSize /\ (textual = "fixed" => Len(l) = 2 * MaxSize)
    BY <1>2, LimitedIs
  <2> HIDE DEF l
  <2>2. Neat(Text!Whole(l))
    BY <1>2, <2>1, WholeIs
  <2>3. Newer(v, l) = v \/ Newer(v, l) = Text!Whole(l)
    BY <1>2 DEF Newer
  <2> QED BY <1>2, <2>2, <2>3 DEF l
<1>3. CASE ~Text!Raw
  <2> DEFINE t == Text!UpToZero(l)
  <2>1. l \in Texts /\ Len(l) = (IF Len(s) < MaxSize THEN Len(s) ELSE MaxSize) /\ \A i \in 1 .. Len(l) : l[i] = s[i]
    BY <1>1, <1>3, PrefixIs DEF Text!Limited
  <2> HIDE DEF l
  <2>2. t \in Texts /\ Clear(t, Text!Zero) /\ Len(t) <= Len(l) /\ \A i \in 1 .. Len(t) : t[i] = l[i]
    BY <2>1, UpToZeroIs
  <2>3. Newer(v, l) = t
    BY <1>3 DEF Newer
  <2> HIDE DEF t
  <2>4. Len(s) \in Nat /\ Len(l) \in Nat /\ Len(t) \in Nat /\ Len(l) <= Len(s) /\ Len(l) <= MaxSize
    BY <1>1, <2>1, <2>2 DEF Texts
  <2>5. Clear(t, Text!Return)
    BY <1>3, <2>1, <2>2, <2>4 DEF Clear
  <2>6. NeatText(t)
    BY <1>1, <2>2, <2>4, <2>5 DEF NeatText
  <2> QED BY <1>3, <2>2, <2>3, <2>6 DEF Neat, l
<1> QED BY <1>2, <1>3

(* The calls end here as well.                                                *)
TextAlone(a) == \A g, h : Text!Refreshed(g, a) = Text!Refreshed(h, a)
TextDepends(a, n) == \A g, h : g[n] = h[n] => Text!Refreshed(g, a) = Text!Refreshed(h, a)

LEMMA TextCallsEnd ==
  ASSUME NEW a \in TextStates
  PROVE  \E n, m, k \in TextStates : TextDepends(a, n) /\ TextDepends(n, m) /\ TextDepends(m, k) /\ TextAlone(k)
<1>1. ASSUME NEW x \in TextStates PROVE TextDepends(x, TextCall(x)) /\ (TextRight(x) => TextAlone(x))
  BY TextRefreshed DEF TextDepends, TextAlone
<1>2. ASSUME NEW x \in TextStates
      PROVE  LET c == TextCall(x) IN c \in TextStates /\ c.all /\ (Neat(c.value) \/ (Text!Raw /\ c.value = x.value))
  <2> DEFINE s == Text!Plain(Text!Shown(x))
  <2>1. s \in Texts /\ x.value \in Texts /\ (~Text!Raw => Clear(s, Text!Return))
    BY TextFieldsOf
  <2> HIDE DEF s
  <2>2. Neat(Newer(x.value, Text!Limited(s))) \/ (Text!Raw /\ Newer(x.value, Text!Limited(s)) = x.value)
    BY <2>1, ReadIsNeat
  <2> QED BY <2>2, IsTextCall DEF s
<1> DEFINE n == TextCall(a)
           m == TextCall(n)
           k == TextCall(m)
<1>3. n \in TextStates /\ n.all /\ (Neat(n.value) \/ Text!Raw) /\ TextDepends(a, n)
  BY <1>1, <1>2
<1> HIDE DEF n
<1>4. /\ m \in TextStates /\ m.all /\ (Neat(m.value) \/ (Text!Raw /\ m.value = n.value)) /\ TextDepends(n, m)
      /\ m.text = Text!Plain(Text!Shown(n)) /\ (Neat(n.value) => TextRight(m))
  BY <1>1, <1>2, <1>3, IsTextCall, NeatCall
<1> HIDE DEF m
<1>5. k \in TextStates /\ TextDepends(m, k) /\ (Neat(m.value) => TextRight(k))
  BY <1>1, <1>2, <1>4, NeatCall
<1> HIDE DEF k
<1>6. Neat(m.value) \/ TextRight(m)
  <2> SUFFICES ASSUME ~Neat(m.value), ~Neat(n.value) PROVE TextRight(m)
    BY <1>4
  <2>1. Text!Raw /\ m.value = n.value
    BY <1>4
  <2>2. m.text = n.value /\ Text!Shown(m) = m.value
    BY <1>3, <1>4, <2>1, TextFieldsOf
  <2> QED BY <2>1, <2>2 DEF TextRight, Text!Same
<1>7. CASE TextRight(m)
  <2>1. TextAlone(m)
    BY <1>1, <1>4, <1>7
  <2>2. TextDepends(m, m)
    BY <2>1 DEF TextDepends, TextAlone
  <2> QED BY <1>3, <1>4, <2>1, <2>2
<1>8. CASE Neat(m.value)
  <2>1. TextAlone(k)
    BY <1>1, <1>5, <1>8
  <2> QED BY <1>3, <1>4, <1>5, <2>1
<1> QED BY <1>6, <1>7, <1>8

LEMMA TextRefreshExists == \E f : f = [a \in TextStates |-> Text!Refreshed(f, a)]
<1> DEFINE f0 == [a \in TextStates |-> a]
           f1 == [a \in TextStates |-> Text!Refreshed(f0, a)]
           f2 == [a \in TextStates |-> Text!Refreshed(f1, a)]
           f3 == [a \in TextStates |-> Text!Refreshed(f2, a)]
           f4 == [a \in TextStates |-> Text!Refreshed(f3, a)]
<1>1. ASSUME NEW a \in TextStates PROVE Text!Refreshed(f3, a) = Text!Refreshed(f4, a)
  <2>1. PICK n \in TextStates, m \in TextStates, k \in TextStates :
          TextDepends(a, n) /\ TextDepends(n, m) /\ TextDepends(m, k) /\ TextAlone(k)
    BY TextCallsEnd
  <2>2. f1[k] = Text!Refreshed(f0, k) /\ f2[k] = Text!Refreshed(f1, k)
    OBVIOUS
  <2>3. f2[m] = Text!Refreshed(f1, m) /\ f3[m] = Text!Refreshed(f2, m)
    OBVIOUS
  <2>4. f3[n] = Text!Refreshed(f2, n) /\ f4[n] = Text!Refreshed(f3, n)
    OBVIOUS
  <2> HIDE DEF f0, f1, f2, f3, f4
  <2>5. f1[k] = f2[k]
    BY <2>1, <2>2 DEF TextAlone
  <2>6. f2[m] = f3[m]
    BY <2>1, <2>3, <2>5 DEF TextDepends
  <2>7. f3[n] = f4[n]
    BY <2>1, <2>4, <2>6 DEF TextDepends
  <2> QED BY <2>1, <2>7 DEF TextDepends
<1>2. f4 = [a \in TextStates |-> Text!Refreshed(f4, a)]
  <2>1. f4 = [a \in TextStates |-> Text!Refreshed(f3, a)]
    OBVIOUS
  <2> HIDE DEF f3, f4
  <2> QED BY <1>1, <2>1
<1> QED BY <1>2

LEMMA TextRefreshIs ==
  ASSUME NEW a \in TextStates PROVE Text!refresh[a] = Text!Refreshed(Text!refresh, a)
<1> DEFINE f == CHOOSE f : f = [b \in TextStates |-> Text!Refreshed(f, b)]
<1>1. f = [b \in TextStates |-> Text!Refreshed(f, b)]
  BY TextRefreshExists
<1>2. Text!refresh = f
  BY DEF Text!refresh, TextStates
<1> HIDE DEF f
<1> QED BY <1>1, <1>2

(* What a refreshing results in, of a value that is neat, of a string, and       *)
(* before the box is connected.                                              *)
LEMMA NeatRefresh ==
  ASSUME NEW a \in TextStates, Neat(a.value), Text!Raw => a.all
  PROVE  LET b == Text!refresh[a]
         IN  /\ b \in TextStates /\ b.value = a.value /\ b.bytes = a.value /\ Text!Same(b.text, a.value)
             /\ b.told \in {a.told, a.value} /\ (Text!Raw => b.all)
<1> DEFINE b == Text!refresh[a]
           n == TextCall(a)
           c == Byted(n)
<1>1. Text!Shown(a) = a.value
  BY TextFieldsOf
<1>2. b = IF TextRight(a) THEN Byted(a) ELSE IF ~a.connected THEN Worded(a) ELSE TextTold(Text!refresh[n])
  BY TextRefreshIs, TextRefreshed
<1>3. CASE TextRight(a)
  BY <1>1, <1>2, <1>3, IsByted DEF TextRight, Same4
<1>4. CASE ~TextRight(a) /\ ~a.connected
  BY <1>1, <1>2, <1>4, IsWorded, NeatIsReadBack DEF Same4, Text!Same
<1>5. CASE ~TextRight(a) /\ a.connected
  <2>1. /\ n \in TextStates /\ n.all /\ n.value = a.value /\ n.text = a.value
        /\ TextRight(n) /\ Text!Shown(n) = a.value
    BY NeatCall
  <2> HIDE DEF n
  <2>2. Text!refresh[n] = c
    BY <2>1, TextRefreshIs, TextRefreshed
  <2>3. c \in TextStates /\ c.value = a.value /\ c.text = a.value /\ c.all /\ c.bytes = a.value
    BY <2>1, IsByted DEF Same4
  <2> HIDE DEF c
  <2>4. b = TextTold(c)
    BY <1>2, <1>5, <2>2
  <2> HIDE DEF b
  <2>5. /\ b \in TextStates /\ b.value = a.value /\ b.text = a.value /\ b.bytes = a.value /\ b.told = a.value
        /\ b.all
    BY <2>3, <2>4, IsTextTold
  <2> QED BY <2>5 DEF b, Text!Same
<1> QED BY <1>3, <1>4, <1>5

(* What a box can hold of a string that the field can have: a neat one, and all  *)
(* of it when it is neat itself.                                              *)
LEMMA HeldIs ==
  ASSUME NEW v \in Texts, ~Text!Raw, Len(v) <= MaxSize
  PROVE  LET t == Text!Held(v)
             s == Text!Plain(v)
         IN  /\ t \in Texts /\ Neat(t) /\ Text!Limited(s) = s /\ t = Text!UpToZero(s)
             /\ Neat(v) => t = v
<1> DEFINE s == Text!Plain(v)
           t == Text!UpToZero(s)
<1>1. s = Text!Without(Text!Return, v) /\ Text!Held(v) = t /\ MaxSize \in Nat
  BY DataPartsAssumption DEF Text!Plain, Text!Held
<1>2. s \in Texts /\ Len(s) <= Len(v) /\ Clear(s, Text!Return) /\ (Clear(v, Text!Return) => s = v)
  BY <1>1, WithoutReturns
<1> HIDE DEF s
<1>3. Len(s) \in Nat /\ Len(v) \in Nat /\ Len(s) <= MaxSize
  BY <1>1, <1>2 DEF Texts
<1>4. Text!Limited(s) = s
  BY <1>1, <1>2, <1>3, PrefixIs DEF Text!Limited
<1>5. /\ t \in Texts /\ Clear(t, Text!Zero) /\ Len(t) <= Len(s) /\ \A i \in 1 .. Len(t) : t[i] = s[i]
      /\ Clear(s, Text!Zero) => t = s
  BY <1>2, UpToZeroIs
<1> HIDE DEF t
<1>6. Len(t) \in Nat /\ Len(t) <= MaxSize
  BY <1>1, <1>3, <1>5 DEF Texts
<1>7. Clear(t, Text!Return)
  BY <1>2, <1>3, <1>5, <1>6 DEF Clear
<1>8. Neat(t)
  BY <1>5, <1>6, <1>7 DEF Neat, NeatText
<1>9. Neat(v) => t = v
  BY <1>2, <1>5 DEF Neat, NeatText
<1> QED BY <1>1, <1>4, <1>5, <1>8, <1>9 DEF s, t

LEMMA StringRefresh ==
  ASSUME NEW a \in TextStates, ~Text!Raw, a.connected, Neat(a.text), Len(a.value) <= MaxSize
  PROVE  LET b == Text!refresh[a]
         IN  /\ b \in TextStates /\ b.text = b.value /\ b.bytes = b.value /\ Neat(b.value)
             /\ b.value = Text!Held(a.value) /\ (b.told = b.value \/ (b.told = a.told /\ b.value = a.value))
<1> DEFINE b == Text!refresh[a]
           n == TextCall(a)
           s == Text!Plain(Text!Shown(a))
           c == Text!refresh[n]
<1>1. Text!Shown(a) = a.value /\ s \in Texts /\ Clear(s, Text!Return) /\ a.value \in Texts
  BY TextFieldsOf
<1>2. b = IF TextRight(a) THEN Byted(a) ELSE TextTold(c)
  BY TextRefreshIs, TextRefreshed
<1>3. CASE TextRight(a)
  <2>1. a.text = a.value
    BY <1>1, <1>3 DEF TextRight, Text!Same
  <2>2. Text!Held(a.value) = a.value
    BY <1>1, <2>1, HeldIs
  <2> QED BY <1>1, <1>2, <1>3, <2>1, <2>2, IsByted DEF Same4
<1>4. CASE ~TextRight(a)
  <2>1. /\ s = Text!Plain(a.value) /\ Neat(Text!Held(a.value)) /\ Text!Limited(s) = s
        /\ Text!Held(a.value) = Text!UpToZero(s)
    BY <1>1, HeldIs
  <2> HIDE DEF s
  <2>2. Newer(a.value, Text!Limited(s)) = Text!Held(a.value)
    BY <2>1 DEF Newer
  <2>3. n \in TextStates /\ n.value = Text!Held(a.value) /\ Neat(n.value)
    BY <2>1, <2>2, IsTextCall DEF s
  <2> HIDE DEF n
  <2>4. c \in TextStates /\ c.value = n.value /\ c.bytes = n.value /\ c.text = n.value
    BY <2>3, NeatRefresh DEF Text!Same
  <2> HIDE DEF c
  <2>5. b = TextTold(c)
    BY <1>2, <1>4
  <2> HIDE DEF b
  <2>6. /\ b \in TextStates /\ b.value = c.value /\ b.text = c.text /\ b.bytes = c.bytes /\ b.told = c.value
    BY <2>4, <2>5, IsTextTold
  <2> QED BY <2>3, <2>4, <2>6 DEF b
<1> QED BY <1>3, <1>4

LEMMA UnconnectedRefresh ==
  ASSUME NEW a \in TextStates, ~a.connected, Text!Raw
  PROVE  LET b == Text!refresh[a]
         IN  /\ b \in TextStates /\ b.value = a.value /\ b.bytes = Text!Shown(a) /\ Text!Same(b.text, Text!Shown(a))
             /\ (b.all <=> a.all)
<1>1. Text!refresh[a] = IF TextRight(a) THEN Byted(a) ELSE Worded(a)
  BY TextRefreshIs, TextRefreshed
<1>2. Text!Plain(Text!Shown(a)) = Text!Shown(a)
  BY TextFieldsOf
<1> QED BY <1>1, <1>2, IsByted, IsWorded DEF Same4, TextRight, Text!Same

-----------------------------------------------------------------------------
(* The invariant of these widgets: raw data can be read back as they are, and all *)
(* of them are shown when they can be edited; a string is as long as the field     *)
(* can have it, and once shown what its box can hold.                            *)
Cut(v, whole) == IF Text!Raw /\ ~whole /\ Len(v) > 2 * TruncateLength THEN Text!Prefix(v, 2 * TruncateLength) ELSE v
TextWhole(edits, v, t, b, whole) ==
  /\ Text!Raw => /\ Neat(v) /\ b = Cut(v, whole) /\ Text!Same(t, Cut(v, whole))
                 /\ edits => whole
  /\ ~Text!Raw => t = v /\ b = v /\ Neat(v)

TextTyped == value \in Texts /\ box \in Texts /\ bytes \in Texts /\ told \in Texts /\ all \in BOOLEAN
EnteredRight(e, v, t) ==
  e # Text!Nothing =>
    LET s == Text!Limited(e)
    IN  /\ Text!Raw /\ s # <<>> => v = IF Len(s) % 2 = 1 THEN Append(s, "0") ELSE s
        /\ ~Text!Raw => v = Text!Held(s)
        /\ t = v

(* Before it is shown.                                                        *)
Unseen ==
  /\ Text!Raw => Neat(value)
  /\ Len(value) <= MaxSize \/ Text!Raw
  /\ box = <<>> /\ ~all /\ ~textEditable /\ entered = Text!Nothing

TextSound ==
  /\ TextKind /\ TextTyped
  /\ IF visible THEN TextWhole(textEditable, value, box, bytes, all) /\ EnteredRight(entered, value, told) ELSE Unseen
TextRun == subject = "text" => TextSound

LEMMA StateIs ==
  ASSUME TextTyped
  PROVE  LET s == Text!State
         IN  /\ s \in TextStates /\ s.value = value /\ s.text = box /\ s.bytes = bytes /\ (s.all <=> all) /\ s.told = told
             /\ s.connected /\ Text!Shown(s) = Cut(value, all)
             /\ (Text!Truncated(s) <=> Text!Raw /\ ~all /\ Len(value) > 2 * TruncateLength)
<1>1. LET s == Text!State
      IN  /\ s \in TextStates /\ s.value = value /\ s.text = box /\ s.bytes = bytes /\ (s.all <=> all) /\ s.told = told
          /\ s.connected
  BY DEF TextTyped, Text!State, TextStates, Text!States, Texts
<1>2. Text!Shown(Text!State) = Cut(value, all)
  BY DEF Cut, Text!Shown, Text!Truncated, Text!State
<1>3. Text!Truncated(Text!State) <=> Text!Raw /\ ~all /\ Len(value) > 2 * TruncateLength
  BY DEF Text!Truncated, Text!State
<1> QED BY <1>1, <1>2, <1>3

LEMMA TextIsRight ==
  ASSUME TextSound
  PROVE  Text!TextIsValue /\ Text!EnteredIsValue /\ Text!EditedIsWhole
<1> USE DEF TextSound
<1>0. CASE ~visible
  BY <1>0 DEF Unseen, Text!TextIsValue, Text!EnteredIsValue, Text!EditedIsWhole
<1> SUFFICES ASSUME visible PROVE Text!TextIsValue /\ Text!EnteredIsValue /\ Text!EditedIsWhole
  BY <1>0
<1>1. TextTyped /\ TextWhole(textEditable, value, box, bytes, all)
  OBVIOUS
<1>2. Text!Shown(Text!State) = Cut(value, all) /\ (Text!Truncated(Text!State) => Text!Raw /\ ~all)
  BY <1>1, StateIs
<1>3. CASE Text!Raw
  BY <1>1, <1>2, <1>3 DEF TextWhole, Text!TextIsValue, Text!Plain, Text!EditedIsWhole, EnteredRight, Text!EnteredIsValue
<1>4. CASE ~Text!Raw
  <2>1. Cut(value, all) = value /\ Text!Without(Text!Return, value) = value
    BY <1>1, <1>4, WithoutReturns DEF Cut, TextWhole, TextTyped, Neat, NeatText
  <2>2. Text!TextIsValue
    BY <1>1, <1>2, <1>4, <2>1 DEF TextWhole, Text!TextIsValue, Text!Plain, Text!Same
  <2>3. Text!EditedIsWhole
    BY <1>2, <1>4 DEF Text!EditedIsWhole
  <2>4. Text!EnteredIsValue
    BY <1>4 DEF EnteredRight, Text!EnteredIsValue
  <2> QED BY <2>2, <2>3, <2>4
<1> QED BY <1>3, <1>4

(* What a field can have, and what is entered.                                 *)
LEMMA OverTexts ==
  ASSUME NEW S, S \subseteq Text!Chars, NEW n \in Nat, NEW s \in Text!Over(S, n)
  PROVE  s \in Texts /\ Len(s) <= n /\ \A i \in 1 .. Len(s) : s[i] \in S
<1>1. PICK k \in 0 .. n : s \in [1 .. k -> S]
  BY DEF Text!Over
<1>2. s \in Seq(S) /\ Len(s) = k
  BY <1>1
<1>3. s \in Seq(Text!Chars)
  BY <1>2, SeqMonotonic
<1> QED BY <1>1, <1>2, <1>3 DEF Texts

LEMMA StoredIs ==
  ASSUME TextKind, NEW v \in Text!Stored
  PROVE  v \in Texts /\ (Text!Raw => Neat(v)) /\ (~Text!Raw => Len(v) <= MaxSize)
<1>1. MaxSize \in Nat /\ 2 * MaxSize \in Nat
  BY DataPartsAssumption
<1>2. CASE textual = "string"
  <2>1. v \in Text!Over({Text!Letter, Text!Return, Text!Zero}, MaxSize)
    BY <1>2 DEF Text!Stored
  <2>2. {Text!Letter, Text!Return, Text!Zero} \subseteq Text!Chars
    BY DEF Text!Chars
  <2> QED BY <1>1, <1>2, <2>1, <2>2, OverTexts DEF Text!Raw
<1>3. CASE textual \in {"raw", "fixed"}
  <2>1. v \in Text!Pairs(MaxSize) /\ (textual = "fixed" => Len(v) = 2 * MaxSize)
    BY <1>3 DEF Text!Stored
  <2>2. v \in Text!Over({"0", "1"}, 2 * MaxSize) /\ Len(v) % 2 = 0
    BY <2>1 DEF Text!Pairs
  <2>3. {"0", "1"} \subseteq Text!Chars
    BY DEF Text!Chars
  <2>4. v \in Texts /\ Len(v) <= 2 * MaxSize
    BY <1>1, <2>2, <2>3, OverTexts
  <2> QED BY <1>3, <2>1, <2>2, <2>4 DEF Neat, NeatRaw, Even, Text!Raw
<1> QED BY <1>2, <1>3 DEF TextKind

LEMMA EnteredIs ==
  ASSUME NEW s \in Text!Entered
  PROVE  s \in Texts /\ (~Text!Raw => Clear(s, Text!Return) /\ Clear(s, Text!Zero))
<1>1. MaxSize \in Nat /\ 2 * MaxSize + 1 \in Nat /\ MaxSize + 1 \in Nat
  BY DataPartsAssumption
<1>2. CASE Text!Raw
  <2>1. s \in Text!Over({"0", "1"}, 2 * MaxSize + 1) /\ {"0", "1"} \subseteq Text!Chars
    BY <1>2 DEF Text!Entered, Text!Chars
  <2> QED BY <1>1, <1>2, <2>1, OverTexts
<1>3. CASE ~Text!Raw
  <2>1. s \in Text!Over({Text!Letter}, MaxSize + 1) /\ {Text!Letter} \subseteq Text!Chars
    BY <1>3 DEF Text!Entered, Text!Chars
  <2>2. s \in Texts /\ \A i \in 1 .. Len(s) : s[i] \in {Text!Letter}
    BY <1>1, <2>1, OverTexts
  <2>3. Text!Letter # Text!Return /\ Text!Letter # Text!Zero
    BY DEF Text!Letter, Text!Return, Text!Zero
  <2> QED BY <2>2, <2>3 DEF Clear
<1> QED BY <1>2, <1>3

(* The limits of what was entered.                                             *)
LEMMA LimitedEntered ==
  ASSUME NEW s \in Text!Entered, NEW v, Neat(v) \/ ~Text!Raw
  PROVE  LET l == Text!Limited(s)
             u == Newer(v, l)
         IN  /\ Neat(u)
             /\ Text!Raw /\ l # <<>> => u = IF Len(l) % 2 = 1 THEN Append(l, "0") ELSE l
             /\ ~Text!Raw => u = Text!Held(l)
<1> DEFINE l == Text!Limited(s)
<1>1. s \in Texts /\ (~Text!Raw => Clear(s, Text!Return) /\ Clear(s, Text!Zero)) /\ MaxSize \in Nat
  BY EnteredIs, DataPartsAssumption
<1>2. CASE Text!Raw
  <2>1. l \in Texts /\ Len(l) <= 2 * MaxSize /\ (textual = "fixed" => Len(l) = 2 * MaxSize)
    BY <1>1, <1>2, LimitedIs
  <2> HIDE DEF l
  <2>2. Neat(Text!Whole(l)) /\ (Even(l) => Text!Whole(l) = l) /\ (~Even(l) => Text!Whole(l) = Append(l, "0"))
    BY <1>2, <2>1, WholeIs
  <2>3. Even(l) <=> ~(Len(l) % 2 = 1)
    BY <2>1 DEF Even, Texts
  <2>4. Newer(v, l) = IF l = <<>> THEN v ELSE Text!Whole(l)
    BY <1>2 DEF Newer
  <2> QED BY <1>2, <2>2, <2>3, <2>4 DEF l
<1>3. CASE ~Text!Raw
  <2>1. l \in Texts /\ Len(l) = (IF Len(s) < MaxSize THEN Len(s) ELSE MaxSize) /\ \A i \in 1 .. Len(l) : l[i] = s[i]
    BY <1>1, <1>3, PrefixIs DEF Text!Limited
  <2> HIDE DEF l
  <2>2. Len(s) \in Nat /\ Len(l) \in Nat /\ Len(l) <= Len(s) /\ Len(l) <= MaxSize
    BY <1>1, <2>1 DEF Texts
  <2>3. Clear(l, Text!Return) /\ Clear(l, Text!Zero)
    BY <1>1, <1>3, <2>1, <2>2 DEF Clear
  <2>4. Newer(v, l) = l
    BY <1>3, <2>1, <2>3, UpToZeroIs DEF Newer
  <2>5. Neat(l)
    BY <1>3, <2>1, <2>2, <2>3 DEF Neat, NeatText
  <2>6. Text!Held(l) = l
    BY <1>3, <2>1, <2>2, <2>5, HeldIs
  <2> QED BY <1>3, <2>4, <2>5, <2>6 DEF l
<1> QED BY <1>2, <1>3

-----------------------------------------------------------------------------
(* The steps of these widgets.                                               *)
Right(edits, e, b) == b \in TextStates /\ TextWhole(edits, b.value, b.text, b.bytes, b.all) /\ EnteredRight(e, b.value, b.told)

LEMMA TextLater ==
  ASSUME TextKind, textual' = textual, visible' = TRUE, NEW b, Text!Becomes(b), Right(textEditable', entered', b)
  PROVE  TextSound'
<1>1. /\ value' = b.value /\ box' = b.text /\ bytes' = b.bytes /\ all' = b.all /\ told' = b.told
  BY DEF Text!Becomes
<1>2. /\ value' \in Texts /\ box' \in Texts /\ bytes' \in Texts /\ told' \in Texts /\ all' \in BOOLEAN
  BY <1>1 DEF Right, TextStates, Text!States, Texts
<1>3. TextWhole(textEditable', value', box', bytes', all') /\ EnteredRight(entered', value', told')
  BY <1>1 DEF Right
<1>4. TextTyped'
  BY <1>2 DEF TextTyped, Texts, Text!Chars
<1>5. TextWhole(textEditable, value, box, bytes, all)'
  BY <1>3 DEF TextWhole, Neat, NeatRaw, NeatText, Even, Clear, Cut, Text!Raw, Text!Prefix, Text!Same, Texts
<1>6. EnteredRight(entered, value, told)'
  <2>1. CASE entered' = Text!Nothing
    BY <2>1 DEF EnteredRight, Text!Nothing
  <2>2. CASE Text!Raw
    BY <1>3, <2>2 DEF EnteredRight, Text!Nothing, Text!Raw, Text!Limited, Text!Fill, Text!Prefix
  <2>3. CASE ~Text!Raw /\ entered' # Text!Nothing
    <3> DEFINE l == Text!Prefix(entered', MaxSize)
    <3>1. Text!Limited(entered') = l /\ value' = Text!Held(l) /\ told' = value'
      BY <1>3, <2>3 DEF EnteredRight, Text!Limited
    <3>2. value' = Text!UpToZero(Text!Without(Text!Return, l))
      BY <2>3, <3>1 DEF Text!Held, Text!Plain
    <3> HIDE DEF l
    <3>3. ~Text!Raw'
      BY <2>3 DEF Text!Raw
    <3>4. Text!Limited(entered)' = l
      BY <3>3 DEF l, Text!Limited, Text!Prefix
    <3>5. value' = Text!Held(Text!Limited(entered))'
      BY <3>2, <3>3, <3>4 DEF Text!Held, Text!Plain
    <3> QED BY <3>1, <3>3, <3>5 DEF EnteredRight
  <2> QED BY <2>1, <2>2, <2>3
<1>7. TextKind'
  BY DEF TextKind
<1> QED BY <1>4, <1>5, <1>6, <1>7 DEF TextSound

(* All of the raw data are shown again.                                        *)
LEMMA AllIsShown ==
  ASSUME TextSound, visible, Text!Raw, NEW edits
  PROVE  LET b == Text!refresh[[Text!State EXCEPT !.all = TRUE]] IN Right(edits, Text!Nothing, b) /\ b.value = value
<1> DEFINE s == Text!State
           a == [s EXCEPT !.all = TRUE]
           b == Text!refresh[a]
<1>1. s \in TextStates /\ s.value = value /\ Neat(value)
  BY StateIs DEF TextSound, TextWhole
<1> HIDE DEF s
<1>2. a \in TextStates /\ a.value = value /\ a.all
  BY <1>1 DEF TextStates, Text!States
<1> HIDE DEF a
<1>3. b \in TextStates /\ b.value = a.value /\ b.bytes = a.value /\ Text!Same(b.text, a.value) /\ b.all
  BY <1>1, <1>2, NeatRefresh
<1> HIDE DEF b
<1>4. Cut(value, b.all) = value
  BY <1>3 DEF Cut
<1>5. TextWhole(edits, b.value, b.text, b.bytes, b.all)
  BY <1>1, <1>2, <1>3, <1>4 DEF TextWhole
<1>6. Right(edits, Text!Nothing, b) /\ b.value = value
  BY <1>2, <1>3, <1>5 DEF Right, EnteredRight
<1> QED BY <1>6 DEF b, a, s

LEMMA EnableEditSound ==
  ASSUME TextSound, Text!EnableEdit PROVE TextSound' /\ value' = value
<1> DEFINE s == Text!State
           c == [s EXCEPT !.all = Text!Raw]
           b == Text!Enabled
<1>1. textual' = textual /\ Text!Becomes(b) /\ entered' = Text!Nothing /\ TextKind
  BY DEF Text!EnableEdit, TextSound
<1>0. visible /\ visible' = TRUE
  BY DEF Text!EnableEdit, TextSound
<1>2. /\ s \in TextStates /\ s.value = value /\ s.text = box /\ s.bytes = bytes /\ s.told = told
      /\ (Text!Truncated(s) <=> Text!Raw /\ ~all /\ Len(value) > 2 * TruncateLength)
      /\ TextWhole(textEditable, value, box, bytes, all)
  BY <1>0, StateIs DEF TextSound
<1>3. b = IF Text!Truncated(s) THEN Text!refresh[[s EXCEPT !.all = TRUE]] ELSE c
  BY DEF Text!Enabled, Text!Refresh
<1> HIDE DEF b, s
<1>4. CASE Text!Truncated(s)
  <2>1. Right(textEditable', Text!Nothing, b) /\ b.value = value
    BY <1>0, <1>2, <1>3, <1>4, AllIsShown DEF s
  <2> QED BY <1>0, <1>1, <2>1, TextLater DEF Text!Becomes
<1>5. CASE ~Text!Truncated(s)
  <2>1. Text!Raw \in BOOLEAN
    BY DEF Text!Raw
  <2>2. /\ c \in TextStates /\ c.value = value /\ c.text = box /\ c.bytes = bytes /\ c.told = told /\ (c.all <=> Text!Raw)
    BY <1>2, <2>1 DEF TextStates, Text!States
  <2> HIDE DEF c
  <2>3. Text!Raw => Cut(value, all) = value /\ Cut(value, c.all) = value
    BY <1>2, <1>5, <2>2 DEF Cut
  <2>4. TextWhole(textEditable', c.value, c.text, c.bytes, c.all)
    BY <1>2, <2>2, <2>3 DEF TextWhole
  <2>5. Right(textEditable', Text!Nothing, c)
    BY <2>2, <2>4 DEF Right, EnteredRight
  <2> QED BY <1>0, <1>1, <1>3, <1>5, <2>2, <2>5, TextLater DEF Text!Becomes
<1> QED BY <1>4, <1>5

LEMMA ShowAllSound ==
  ASSUME TextSound, Text!ShowAllPressed PROVE TextSound' /\ value' = value
<1> DEFINE b == Text!refresh[[Text!State EXCEPT !.all = TRUE]]
<1>1. /\ textual' = textual /\ Text!Becomes(b) /\ entered' = Text!Nothing /\ TextKind /\ Text!Raw
      /\ visible /\ visible' = TRUE
  BY DEF Text!ShowAllPressed, TextSound, Text!Refresh, Text!Truncated
<1>2. Right(textEditable', Text!Nothing, b) /\ b.value = value
  BY <1>1, AllIsShown
<1> HIDE DEF b
<1> QED BY <1>1, <1>2, TextLater DEF Text!Becomes

LEMMA EnterSound ==
  ASSUME TextSound, NEW s \in Text!Entered, Text!Enter(s) PROVE TextSound'
<1> DEFINE st == Text!State
           a == [st EXCEPT !.text = s]
           l == Text!Limited(s)
           x == Text!Set(a, l)
           n == [x EXCEPT !.all = TRUE]
           c == Text!refresh[n]
           b == TextTold(c)
<1>1. /\ textual' = textual /\ Text!Becomes(Text!TextChanged(a)) /\ entered' = s /\ TextKind
      /\ visible /\ visible' = TRUE
  BY DEF Text!Enter, TextSound, Unseen
<1>2. st \in TextStates /\ st.value = value /\ (Neat(value) \/ ~Text!Raw)
  BY <1>1, StateIs DEF TextSound, TextWhole
<1> HIDE DEF st
<1>3. s \in Texts /\ l \in Texts
  BY EnteredIs, TextLimits
<1>4. a \in TextStates /\ a.value = value /\ a.text = s
  BY <1>2, <1>3 DEF TextStates, Text!States, Texts
<1>5. Text!TextChanged(a) = b
  BY <1>4 DEF Text!TextChanged, Text!Changed, TextTold
<1> HIDE DEF a, l
<1>6. x \in TextStates /\ x.value = Newer(value, l)
  BY <1>3, <1>4, SetTexts
<1> HIDE DEF x
<1>7. n \in TextStates /\ n.value = x.value /\ n.all
  BY <1>6 DEF TextStates, Text!States
<1> HIDE DEF n
<1>8. /\ Neat(n.value)
      /\ Text!Raw /\ l # <<>> => n.value = IF Len(l) % 2 = 1 THEN Append(l, "0") ELSE l
      /\ ~Text!Raw => n.value = Text!Held(l)
  BY <1>2, <1>6, <1>7, LimitedEntered DEF l
<1>9. c \in TextStates /\ c.value = n.value /\ c.bytes = n.value /\ Text!Same(c.text, n.value) /\ (Text!Raw => c.all)
  BY <1>7, <1>8, NeatRefresh
<1> HIDE DEF c
<1>10. /\ b \in TextStates /\ b.value = n.value /\ b.bytes = n.value /\ b.text = c.text /\ b.told = n.value
       /\ (b.all <=> c.all)
  BY <1>9, IsTextTold
<1> HIDE DEF b
<1>11. TextWhole(textEditable', b.value, b.text, b.bytes, b.all)
  BY <1>8, <1>9, <1>10 DEF TextWhole, Cut, Neat, NeatText, Text!Same
<1>12. EnteredRight(s, b.value, b.told)
  BY <1>8, <1>10 DEF EnteredRight, l
<1> QED BY <1>1, <1>5, <1>10, <1>11, <1>12, TextLater DEF Right

LEMMA TextMessageSound ==
  ASSUME TextSound, NEW v \in Text!Stored, Text!MessageRefreshed(v) PROVE TextSound'
<1> DEFINE st == Text!State
           a == [st EXCEPT !.value = v, !.told = v]
           b == Text!refresh[a]
<1>1. /\ textual' = textual /\ Text!Becomes(b) /\ entered' = v /\ TextKind
      /\ textEditable /\ textEditable' = textEditable /\ visible /\ visible' = TRUE
  BY DEF Text!MessageRefreshed, TextSound, Text!Refresh, Unseen
<1>2. st \in TextStates /\ st.text = box /\ (st.all <=> all) /\ st.connected
      /\ TextWhole(textEditable, value, box, bytes, all)
  BY <1>1, StateIs DEF TextSound
<1>3. v \in Texts /\ (Text!Raw => Neat(v)) /\ (~Text!Raw => Len(v) <= MaxSize)
  BY <1>1, StoredIs
<1> HIDE DEF st
<1>4. a \in TextStates /\ a.value = v /\ a.told = v /\ a.text = box /\ (a.all <=> all) /\ a.connected
  BY <1>2, <1>3 DEF TextStates, Text!States, Texts
<1> HIDE DEF a
<1>5. CASE Text!Raw
  <2>1. a.all
    BY <1>1, <1>2, <1>4, <1>5 DEF TextWhole
  <2>2. /\ b \in TextStates /\ b.value = v /\ b.bytes = v /\ Text!Same(b.text, v) /\ b.told = v /\ b.all
    BY <1>3, <1>4, <1>5, <2>1, NeatRefresh
  <2> HIDE DEF b
  <2>3. TextWhole(textEditable', b.value, b.text, b.bytes, b.all)
    BY <1>3, <1>5, <2>2 DEF TextWhole, Cut
  <2>4. Even(v) /\ Text!Limited(v) = v
    BY <1>3, <1>5, LimitedIs DEF Neat, NeatRaw
  <2>5. EnteredRight(v, b.value, b.told)
    BY <1>3, <1>5, <2>2, <2>4 DEF EnteredRight, Even
  <2> QED BY <1>1, <1>5, <2>2, <2>3, <2>5, TextLater DEF Right
<1>6. CASE ~Text!Raw
  <2>1. Neat(a.text)
    BY <1>2, <1>4, <1>6 DEF TextWhole
  <2>2. /\ b \in TextStates /\ b.text = b.value /\ b.bytes = b.value /\ Neat(b.value)
        /\ b.value = Text!Held(v) /\ b.told = b.value
    BY <1>3, <1>4, <1>6, <2>1, StringRefresh
  <2> HIDE DEF b
  <2>3. TextWhole(textEditable', b.value, b.text, b.bytes, b.all)
    BY <1>6, <2>2 DEF TextWhole
  <2>4. Text!Limited(v) = v
    BY <1>3, <1>6, PrefixIs, DataPartsAssumption DEF Text!Limited
  <2>5. EnteredRight(v, b.value, b.told)
    BY <1>6, <2>2, <2>4 DEF EnteredRight
  <2> QED BY <1>1, <2>2, <2>3, <2>5, TextLater DEF Right
<1> QED BY <1>5, <1>6

(* Showing the value for the first time.                                       *)
LEMMA ShowSound ==
  ASSUME TextSound, Text!Show PROVE TextSound' /\ Text!ShowingKeepsStep
<1> DEFINE q == ~Text!Raw
           st == Text!State
           a == [st EXCEPT !.connected = q]
           c == Text!refresh[a]
           b == [c EXCEPT !.told = told]
<1>1. /\ textual' = textual /\ Text!Becomes(b) /\ entered' = Text!Nothing /\ TextKind
      /\ ~visible /\ visible' = TRUE /\ textEditable' = textEditable /\ TextTyped /\ Unseen
  BY DEF Text!Show, TextSound, Text!Refresh
<1>2. /\ q \in BOOLEAN /\ (q <=> ~Text!Raw)
      /\ st \in TextStates /\ st.value = value /\ st.text = <<>> /\ ~st.all
  BY <1>1, StateIs DEF Unseen, Text!Raw
<1> HIDE DEF q, st
<1>3. a \in TextStates /\ a.value = value /\ a.text = <<>> /\ ~a.all /\ (a.connected <=> q)
  BY <1>2 DEF TextStates, Text!States
<1> HIDE DEF a
<1>4. CASE Text!Raw
  <2>1. /\ c \in TextStates /\ c.value = value /\ c.bytes = Text!Shown(a) /\ Text!Same(c.text, Text!Shown(a)) /\ ~c.all
    BY <1>2, <1>3, <1>4, UnconnectedRefresh
  <2>2. Text!Shown(a) = Cut(value, c.all)
    BY <1>3, <1>4, <2>1 DEF Text!Shown, Text!Truncated, Cut
  <2> HIDE DEF c
  <2>3. /\ b \in TextStates /\ b.value = c.value /\ b.text = c.text /\ b.bytes = c.bytes /\ (b.all <=> c.all)
    BY <1>1, <2>1 DEF TextTyped, TextStates, Text!States, Texts
  <2> HIDE DEF b
  <2>4. TextWhole(textEditable', b.value, b.text, b.bytes, b.all)
    BY <1>1, <1>4, <2>1, <2>2, <2>3 DEF TextWhole, Unseen, Cut
  <2>5. Right(textEditable', entered', b)
    BY <1>1, <2>3, <2>4 DEF Right, EnteredRight
  <2>6. value' = value
    BY <1>1, <2>1, <2>3 DEF Text!Becomes
  <2>7. Text!ShowingKeepsStep
    BY <1>1, <1>4, <2>6 DEF Text!ShowingKeepsStep, Text!Held
  <2> QED BY <1>1, <2>5, <2>7, TextLater
<1>5. CASE ~Text!Raw
  <2>0. Len(<<>>) = 0 /\ MaxSize \in Nat /\ <<>> \in Texts
    BY EmptySeq, DataPartsAssumption DEF Texts
  <2>1. Neat(a.text) /\ Len(a.value) <= MaxSize
    BY <1>1, <1>3, <1>5, <2>0 DEF Neat, NeatText, Clear, Unseen
  <2>2. /\ c \in TextStates /\ c.text = c.value /\ c.bytes = c.value /\ Neat(c.value) /\ c.value = Text!Held(value)
    BY <1>2, <1>3, <1>5, <2>1, StringRefresh
  <2> HIDE DEF c
  <2>3. /\ b \in TextStates /\ b.value = c.value /\ b.text = c.text /\ b.bytes = c.bytes
    BY <1>1, <2>2 DEF TextTyped, TextStates, Text!States, Texts
  <2> HIDE DEF b
  <2>4. TextWhole(textEditable', b.value, b.text, b.bytes, b.all)
    BY <1>5, <2>2, <2>3 DEF TextWhole
  <2>5. Right(textEditable', entered', b)
    BY <1>1, <2>3, <2>4 DEF Right, EnteredRight
  <2>6. value' = Text!Held(value)
    BY <1>1, <2>2, <2>3 DEF Text!Becomes
  <2>7. Text!ShowingKeepsStep
    BY <1>1, <2>6 DEF Text!ShowingKeepsStep
  <2> QED BY <1>1, <2>5, <2>7, TextLater
<1> QED BY <1>4, <1>5

LEMMA TextSteps ==
  ASSUME TextSound, Text!Next PROVE TextSound' /\ Text!ShowingKeepsStep
<1>0. CASE Text!Show
  BY <1>0, ShowSound
<1>1. CASE Text!EnableEdit
  BY <1>1, EnableEditSound DEF Text!ShowingKeepsStep, Text!EnableEdit
<1>2. CASE Text!ShowAllPressed
  BY <1>2, ShowAllSound DEF Text!ShowingKeepsStep, Text!ShowAllPressed
<1>3. ASSUME Text!Counted PROVE Text!ShowingKeepsStep
  BY <1>3 DEF Text!Counted, Text!ShowingKeepsStep
<1>4. ASSUME NEW s \in Text!Entered, Text!Enter(s) PROVE TextSound' /\ Text!ShowingKeepsStep
  BY <1>3, <1>4, EnterSound DEF Text!Enter
<1>5. ASSUME NEW v \in Text!Stored, Text!MessageRefreshed(v) PROVE TextSound' /\ Text!ShowingKeepsStep
  BY <1>3, <1>5, TextMessageSound DEF Text!MessageRefreshed
<1> QED BY <1>0, <1>1, <1>2, <1>4, <1>5 DEF Text!Next

LEMMA TextInit ==
  ASSUME Text!Init PROVE TextSound
<1>1. /\ TextKind /\ entered = Text!Nothing /\ box = <<>> /\ bytes = <<>> /\ all = FALSE /\ told = value
      /\ textEditable = FALSE /\ visible = FALSE /\ value \in Text!Stored
  BY DEF Text!Init, TextKind
<1>2. value \in Texts /\ (Text!Raw => Neat(value)) /\ (~Text!Raw => Len(value) <= MaxSize) /\ <<>> \in Texts
  BY <1>1, StoredIs DEF Texts
<1>3. TextTyped
  BY <1>1, <1>2 DEF TextTyped
<1>4. Unseen
  BY <1>1, <1>2 DEF Unseen
<1> QED BY <1>1, <1>3, <1>4 DEF TextSound

LEMMA TextStays ==
  ASSUME TextSound, UNCHANGED textVars PROVE TextSound'
<1>1. UNCHANGED <<textual, value, box, bytes, all, textEditable, told, entered, visible>>
  BY DEF textVars
<1>2. TextKind /\ TextTyped
  BY DEF TextSound
<1>3. TextTyped' /\ TextKind'
  BY <1>1, <1>2 DEF TextTyped, TextKind, Texts, Text!Chars
<1>4. TextWhole(textEditable, value, box, bytes, all)' <=> TextWhole(textEditable, value, box, bytes, all)
  BY <1>1 DEF TextWhole, Neat, NeatRaw, NeatText, Even, Clear, Cut, Text!Raw, Text!Prefix, Text!Same, Texts
<1>5. EnteredRight(entered, value, told)' <=> EnteredRight(entered, value, told)
  BY <1>1 DEF EnteredRight, Text!Nothing, Text!Raw, Text!Limited, Text!Fill, Text!Prefix, Text!Held, Text!Plain,
              Text!UpToZero, Text!Without
<1>6. Unseen' <=> Unseen
  BY <1>1 DEF Unseen, Neat, NeatRaw, NeatText, Even, Clear, Text!Raw, Texts, Text!Nothing
<1>7. TextSound'
  BY <1>1, <1>2, <1>3, <1>4, <1>5, <1>6 DEF TextSound
<1> QED BY <1>7
LEMMA TextInvariant == Spec => []TextRun
<1>1. Init => TextRun
  BY TextInit DEF Init, TextRun
<1>2. TextRun /\ [Next]_vars => TextRun'
  <2> SUFFICES ASSUME TextRun, [Next]_vars PROVE TextRun'
    OBVIOUS
  <2>1. CASE TextStep /\ UNCHANGED subject
    BY <2>1, TextSteps DEF TextStep, TextRun
  <2>2. CASE UNCHANGED <<subject, textVars>>
    BY <2>2, TextStays DEF TextRun
  <2>3. (TextStep /\ UNCHANGED subject) \/ UNCHANGED <<subject, textVars>>
    BY DEF Next, vars, fieldVars, SettingsStep, SerialStep, FrameStep, MsgFilesStep, FilesStep, NumberStep, MemberStep
  <2> QED BY <2>1, <2>2, <2>3
<1> QED BY <1>1, <1>2, PTL DEF Spec

-----------------------------------------------------------------------------
(* The parts of every widget show the value of its field in whatever order they *)
(* were changed, what was changed is reported, and what was typed becomes the   *)
(* value: numbers (IntValueFieldWidget and the others of one value), texts and  *)
(* raw data with the bytes behind them, and fields with members.              *)
THEOREM WidgetsAreRight == Spec => []WidgetsShowFields
<1>1. NumberRun /\ TextRun /\ MemberRun => WidgetsShowFields
  BY NumberIsRight, TextIsRight DEF NumberRun, TextRun, MemberRun, MemberSound, WidgetsShowFields
<1> QED BY <1>1, NumberInvariant, TextInvariant, MemberInvariant, PTL

(* No field is set or shown that cannot be: the calls that the boxes of a widget *)
(* make back, each within another, leave a value the field can write (the       *)
(* assertions of refreshInternal(), setSerialisedValue() and updateCurrent()).  *)
THEOREM NoWidgetAsserts == Spec => []NoAssertionFails
<1>1. NumberRun /\ MemberRun => NoAssertionFails
  BY NumberIsRight DEF NumberRun, MemberRun, MemberSound, NoAssertionFails
<1> QED BY <1>1, NumberInvariant, MemberInvariant, PTL

(* No step of a save touches a temporary file it did not make, and none changes a *)
(* field that cannot be edited.  Showing raw data, at first, as a whole, or to be  *)
(* edited, does not cut them, and showing a string leaves of it exactly what its  *)
(* box can hold, so that it is cut at most once, the first time it is shown.  A    *)
(* member that is selected starts with its default.                             *)
THEOREM StepsAreKept == Spec => StepsKeep
<1> DEFINE A == subject = "files" => Files!LeftoversStayStep
           B == /\ subject = "number" => Number!ReadOnlyStaysStep
                /\ subject = "text" => Text!ShowingKeepsStep
                /\ subject = "member" => Member!ReadOnlyStaysStep /\ Member!SelectedIsNewStep
<1>1. NumberRun /\ TextRun /\ MemberRun /\ Next => B
  BY NumberSteps, NumberStays, TextSteps, TextStays, MemberSteps, MemberStays
     DEF Next, NumberRun, TextRun, MemberRun, SettingsStep, SerialStep, FrameStep, MsgFilesStep, FilesStep,
         NumberStep, TextStep, MemberStep, fieldVars, memberVars
<1>2. NumberRun /\ TextRun /\ MemberRun /\ [Next]_vars => [B]_vars
  BY <1>1
<1>3. [A]_vars /\ [B]_vars
        => [/\ subject = "files" => Files!LeftoversStayStep
            /\ subject = "number" => Number!ReadOnlyStaysStep
            /\ subject = "text" => Text!ShowingKeepsStep
            /\ subject = "member" => Member!ReadOnlyStaysStep /\ Member!SelectedIsNewStep]_vars
  OBVIOUS
<1>4. Spec => [][A]_vars
  BY NothingOverwritten
<1> HIDE DEF A, B
<1>5. Spec => [][B]_vars
  BY <1>2, NumberInvariant, TextInvariant, MemberInvariant, PTL DEF Spec
<1> QED BY <1>3, <1>4, <1>5, PTL DEF StepsKeep
================================================================================
