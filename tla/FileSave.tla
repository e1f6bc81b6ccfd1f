------------------------------- MODULE FileSave -------------------------------
(***************************************************************************)
(* How a file is replaced by ToolsConfigMgr::saveConfig() and by             *)
(* ToolsMsgFileMgr::save(): the new contents are written under a name that    *)
(* does not exist, the old file is removed, and the new one is renamed.       *)
(* Steps can fail, the disk can be full, and the program can end between      *)
(* any two of them.                                                          *)
(***************************************************************************)
EXTENDS Integers

CONSTANTS
  MaxSaves,     (* bound: calls of save()                                   *)
  MaxTmp        (* bound: temporary names; larger than the ends of programs  *)

(* What the theorems of DataParts_proofs need to know of the bounds.           *)
Bounds == MaxSaves \in Nat /\ MaxTmp \in Nat \ {0}

VARIABLES
  disk,         (* name -> contents; 0 is the target, n has n times ".tmp"   *)
  step,         (* what has been done: idle, open, written, removed          *)
  tmp,          (* filenameTmp                                              *)
  version,      (* the number of the save, which stands for its contents     *)
  buffered,     (* the contents are still in the buffer of the QFile         *)
  result,       (* what the last save() returned                            *)
  full,         (* history: the disk was full                               *)
  ended,        (* history: how often the program ended within a save()      *)
  read          (* the contents last loaded                                 *)

vars == <<disk, step, tmp, version, buffered, result, full, ended, read>>

Absent == 0
Partial == -1
FileNames == 0 .. MaxTmp
Target == 0

Init ==
  /\ disk \in {[n \in FileNames |-> Absent], [n \in FileNames |-> IF n = Target THEN 1 ELSE Absent]}
  /\ version = disk[Target] /\ step = "idle" /\ tmp = 1 /\ buffered = FALSE /\ result = TRUE
  /\ full = FALSE /\ ended = 0 /\ read = Absent

Return(value) == step' = "idle" /\ result' = value

(* Any temporary file is taken.                                             *)
WrongTmpName == 1

(* The first name that no file has.                                          *)
TmpName == CHOOSE n \in FileNames \ {Target} : disk[n] = Absent /\ \A k \in 1 .. n - 1 : disk[k] # Absent

Open ==
  /\ step = "idle" /\ version < MaxSaves
  /\ \E n \in FileNames \ {Target} : disk[n] = Absent
  /\ \/ /\ version' = version + 1 /\ tmp' = TmpName
        /\ disk' = [disk EXCEPT ![TmpName] = Partial] /\ step' = "open" /\ UNCHANGED result
     \/ Return(FALSE) /\ UNCHANGED <<version, tmp, disk>>
  /\ UNCHANGED <<buffered, full, ended, read>>

(* The result of write() is ignored: small contents wait in the buffer, large  *)
(* ones go to the disk, or only a part of them when it is full.               *)
Write ==
  /\ step = "open" /\ step' = "written"
  /\ \/ buffered' = TRUE /\ UNCHANGED <<disk, full>>
     \/ buffered' = FALSE /\ disk' = [disk EXCEPT ![tmp] = version] /\ UNCHANGED full
     \/ buffered' = FALSE /\ full' = TRUE /\ UNCHANGED disk
  /\ UNCHANGED <<tmp, version, result, ended, read>>

RemoveOld ==
  /\ step = "written"
  /\ \/ disk' = [disk EXCEPT ![Target] = Absent] /\ step' = "removed" /\ UNCHANGED <<result, buffered>>
     \/ /\ disk[Target] # Absent
        /\ disk' = [disk EXCEPT ![tmp] = Absent] /\ Return(FALSE) /\ buffered' = FALSE
  /\ UNCHANGED <<tmp, version, full, ended, read>>

Flushed == IF buffered THEN [disk EXCEPT ![tmp] = version] ELSE disk
Renamed == [Flushed EXCEPT ![Target] = Flushed[tmp], ![tmp] = Absent]

(* The file takes its name before its contents are written.                   *)
WrongMoved == [disk EXCEPT ![Target] = disk[tmp], ![tmp] = Absent]

Moved == Renamed

(* The new file is removed when it cannot get its name.                        *)
WrongLeft == [disk EXCEPT ![tmp] = Absent]

Left == Flushed

(* rename() closes the file first; it fails when the buffer cannot be written. *)
Rename ==
  /\ step = "removed" /\ buffered' = FALSE
  /\ \/ disk' = Moved /\ Return(TRUE) /\ UNCHANGED full
     \/ disk' = Left /\ Return(FALSE) /\ UNCHANGED full
     \/ buffered /\ full' = TRUE /\ Return(FALSE) /\ UNCHANGED disk
  /\ UNCHANGED <<tmp, version, ended, read>>

(* The program ends: what is in the buffer is lost.                           *)
EndProgram ==
  /\ step # "idle" /\ ended + 1 < MaxTmp /\ ended' = ended + 1
  /\ step' = "idle" /\ buffered' = FALSE /\ result' = FALSE /\ read' = Absent
  /\ UNCHANGED <<disk, tmp, version, full>>

(* load(), loadConfig(): what is not all there is refused.                    *)
Load ==
  /\ step = "idle" /\ disk[Target] # Absent
  /\ read' = IF disk[Target] = Partial THEN read ELSE disk[Target]
  /\ UNCHANGED <<disk, step, tmp, version, buffered, result, full, ended>>

Next == Open \/ Write \/ RemoveOld \/ Rename \/ EndProgram \/ Load

Spec == Init /\ [][Next]_vars

-----------------------------------------------------------------------------
(* Whenever the program ends, and whatever fails (a full disk aside), there is *)
(* no file of that name, or all of one.                                      *)
NeverPartial == ~full => disk[Target] # Partial

(* What was saved is there.                                                 *)
SavedIsThere == result /\ step = "idle" /\ ~full => disk[Target] = version

(* A save that fails leaves the old contents or the new ones, at least under   *)
(* the temporary name (unless the program ends or the disk is full).           *)
OneCopyRemains ==
  version > 0 /\ step = "idle" /\ ended = 0 /\ ~full => \E n \in FileNames : disk[n] > 0

(* What an earlier program left behind is not written over.                   *)
LeftoversStayStep ==
  \A n \in FileNames \ {Target} : step = "idle" /\ disk[n] # Absent => disk'[n] = disk[n]

LeftoversStay == [][LeftoversStayStep]_vars
===============================================================================
