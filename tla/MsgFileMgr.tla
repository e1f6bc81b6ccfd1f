------------------------------ MODULE MsgFileMgr ------------------------------
(***************************************************************************)
(* What lists of messages are in a file and how they come back               *)
(* (lib/src/ToolsMsgFileMgr.cpp): a received list or a send list is saved,   *)
(* or received messages are recorded one by one, and the file is loaded as    *)
(* either kind of list, perhaps when another protocol is in use.             *)
(*                                                                         *)
(* A type of messages has an id and may have several forms; which of them     *)
(* can be decoded from the data of a message is what the protocol knows.      *)
(* Bytes that were no message are in the received list too, as a message that  *)
(* has only raw data and no form; its id is "0".                              *)
(***************************************************************************)
EXTENDS Integers, Sequences, SequencesExt, Lists

CONSTANTS
  FormsOf,        (* protocol -> id -> form (from 1) -> the data it decodes  *)
  Noises,         (* data that were no message when they were received       *)
  MaxTime,        (* bound: the time stamps                                  *)
  DelayLimit,     (* number of values of an unsigned long long               *)
  MaxMsgs         (* bound: messages in a list                               *)

VARIABLES
  msgs,           (* the list to be saved                                   *)
  protocol,       (* the protocol in use                                    *)
  kind,           (* what the file was saved as; "none" before               *)
  file,           (* the entries of the file                                *)
  text,           (* the tokens of a recording: the numbers of the messages  *)
  recorded,       (* how many of them were recorded                          *)
  loaded          (* the list that was loaded, and as what                   *)

vars == <<msgs, protocol, kind, file, text, recorded, loaded>>

Protocols == DOMAIN FormsOf
Unloaded == [as |-> "none", msgs |-> <<>>]

Decodes(id, form, data) == data \in FormsOf[protocol][id][form]
Forms(id) == IF id \in DOMAIN FormsOf[protocol] THEN DOMAIN FormsOf[protocol][id] ELSE {}
FirstForm(id, data) == CHOOSE f \in Forms(id) : Decodes(id, f, data) /\ \A g \in 1 .. f - 1 : ~Decodes(id, g, data)
Contents(id) == UNION {FormsOf[protocol][id][f] : f \in Forms(id)}

-----------------------------------------------------------------------------
(* The messages: idx is their property ToolsMsgIdx (0 when they have none),    *)
(* which names the form in messages created from the list of all messages.    *)
Basic(id, form, data) ==
  [id |-> id, form |-> form, idx |-> 1, data |-> data, type |-> "none", stamp |-> 0, comment |-> FALSE,
   extra |-> FALSE, delay |-> 0, repeat |-> 0, count |-> 0]

(* What the received list has of a message: its time, and the comment and the   *)
(* extra information it may have.                                            *)
Stored(msg, type, t) == [msg EXCEPT !.type = type, !.stamp = t, !.comment = (t = 1), !.extra = (t = 2)]

(* The frame gives a received message the first form that decodes its data.    *)
Arrived(id, data, t) == Stored(Basic(id, FirstForm(id, data), data), "received", t)

(* The copies that were sent have their forms, but not the index of them.      *)
Departed(id, form, data, t) == Stored(Basic(id, form, data), "sent", t)

(* encodeMsgData(), convertRecvMsg(): the numericIdImpl() of an invalid message *)
(* is 0, so that its idAsString() is not empty; the data of such a message are  *)
(* its raw data, and only the id of its entry says that it is none.            *)
GarbageId == "0"
Garbage(data, t) == Stored(Basic(GarbageId, 0, data), "received", t)

RecvMsgs ==
  (UNION {{Arrived(id, data, t) : data \in Contents(id), t \in 1 .. MaxTime} : id \in DOMAIN FormsOf[protocol]})
    \cup (UNION {UNION {{Departed(id, f, data, MaxTime) : data \in FormsOf[protocol][id][f]} : f \in Forms(id)} :
                   id \in DOMAIN FormsOf[protocol]})
    \cup {Garbage(data, t) : data \in Noises, t \in 1 .. MaxTime}

(* Repetition without count is for ever, and then it has a duration.  A copy    *)
(* of a message in the list has not the property ToolsMsgIdx.                 *)
Composed(id, form, data, d, r, copy) ==
  [Basic(id, form, data) EXCEPT !.idx = IF copy THEN 1 ELSE form, !.delay = d, !.repeat = r[1], !.count = r[2],
                                !.comment = (d = 0)]
SendMsgs ==
  UNION {UNION {{Composed(id, f, data, d, r, copy) :
                   data \in FormsOf[protocol][id][f], d \in {0, 1}, r \in {<<0, 1>>, <<1, 0>>, <<1, 2>>}, copy \in BOOLEAN} :
                  f \in Forms(id)} : id \in DOMAIN FormsOf[protocol]}

-----------------------------------------------------------------------------
(* convertRecvMsg(), convertSendMsgList(): an entry of the file has the         *)
(* properties that are saved, the others have the value 0 of a property that   *)
(* is missing.                                                               *)
SavedRecv(msg) == [msg EXCEPT !.delay = 0, !.repeat = 0, !.count = 0]
SavedSend(msg) == [msg EXCEPT !.stamp = 0, !.type = "none"]
Saved(msg, as) == IF as = "recv" THEN SavedRecv(msg) ELSE SavedSend(msg)

(* The forms are tried with the last one first.                               *)
WrongForm(entry) ==
  LET forms == {f \in Forms(entry.id) : Decodes(entry.id, f, entry.data)}
  IN  IF forms = {} THEN 0 ELSE CHOOSE f \in forms : \A g \in forms : g <= f

(* createMsgObjectFrom(): the saved form is tried, if it is not the first,     *)
(* then all of them; 0 when none decodes the data.  A message of raw data is    *)
(* made for an entry without id only, and save() makes no such entry: garbage   *)
(* is nothing now, or a message of a protocol that has the id 0.               *)
Form(entry) ==
  LET forms == {f \in Forms(entry.id) : Decodes(entry.id, f, entry.data)}
  IN  IF entry.idx > 1 /\ entry.idx \in forms THEN entry.idx
      ELSE IF forms = {} THEN 0 ELSE CHOOSE f \in forms : \A g \in forms : f <= g

Created(entry) == [entry EXCEPT !.form = Form(entry), !.idx = Form(entry)]
CanCreate(entry) == Form(entry) # 0

(* Entries without a time stamp are of a send list.                           *)
LoadRecv(entries) ==
  LET read == AtPositions(entries, {i \in DOMAIN entries : CanCreate(entries[i]) /\ entries[i].stamp # 0})
  IN  [i \in DOMAIN read |-> Created(read[i])]

(* The delays count from the first message.                                   *)
WrongDelayed(prev, entry) ==
  IF entry.repeat # 0 \/ entry.count # 0 THEN [prev |-> prev, msg |-> entry]
  ELSE LET since == IF prev = 0 THEN entry.stamp ELSE prev
       IN  [prev |-> since, msg |-> [entry EXCEPT !.count = 1, !.delay = entry.stamp - since]]

(* convertSendMsgList(): an entry that has neither repetition nor delay is of  *)
(* a received list; it is delayed by the time since the one before (an         *)
(* unsigned difference), and sent once.                                      *)
Delayed(prev, entry) ==
  IF entry.repeat # 0 \/ entry.count # 0 THEN [prev |-> prev, msg |-> entry]
  ELSE IF entry.delay # 0 \/ entry.stamp = 0 THEN [prev |-> prev, msg |-> [entry EXCEPT !.count = 1]]
       ELSE LET since == IF prev = 0 THEN entry.stamp ELSE prev
                wait == (entry.stamp - since) % DelayLimit
            IN  [prev |-> IF wait = 0 THEN since ELSE entry.stamp,
                 msg |-> [entry EXCEPT !.count = 1, !.delay = wait]]

Converted(list) ==
  LET made[i \in 0 .. Len(list)] ==
        IF i = 0 THEN [prev |-> 0] ELSE Delayed(made[i - 1].prev, list[i])
  IN  [i \in DOMAIN list |-> [made[i].msg EXCEPT !.stamp = 0, !.type = "none"]]

LoadSend(entries) ==
  LET read == AtPositions(entries, {i \in DOMAIN entries : CanCreate(entries[i])})
  IN  Converted([i \in DOMAIN read |-> Created(read[i])])

-----------------------------------------------------------------------------
Init ==
  /\ protocol \in Protocols
  /\ \/ \E n \in 0 .. MaxMsgs : msgs \in [1 .. n -> RecvMsgs]
     \/ \E n \in 1 .. MaxMsgs - 1 : msgs \in [1 .. n -> SendMsgs]
  /\ kind = "none" /\ file = <<>> /\ text = <<>> /\ recorded = 0 /\ loaded = Unloaded

KindOf(list) == IF list # <<>> /\ list[1].stamp = 0 THEN "send" ELSE "recv"

(* save()                                                                   *)
Save ==
  /\ kind = "none" /\ text = <<>>
  /\ kind' = KindOf(msgs) /\ file' = [i \in DOMAIN msgs |-> Saved(msgs[i], kind')]
  /\ UNCHANGED <<msgs, protocol, text, recorded, loaded>>

(* The protocol is replaced before the file is loaded.                        *)
ChangeProtocol ==
  /\ kind # "none" /\ loaded = Unloaded
  /\ protocol' \in Protocols \ {protocol}
  /\ UNCHANGED <<msgs, kind, file, text, recorded, loaded>>

(* load()                                                                   *)
Load(as) ==
  /\ kind # "none"
  /\ loaded' = [as |-> as, msgs |-> IF as = "recv" THEN LoadRecv(file) ELSE LoadSend(file)]
  /\ UNCHANGED <<msgs, protocol, kind, file, text, recorded>>

(* startRecvSave()                                                          *)
Begin == 0
End == MaxMsgs + 1
Comma == MaxMsgs + 2

StartRecvSave ==
  /\ kind = "none" /\ text = <<>> /\ KindOf(msgs) = "recv"
  /\ text' = <<Begin>>
  /\ UNCHANGED <<msgs, protocol, kind, file, recorded, loaded>>

(* A comma follows every message.                                            *)
WrongAdded(msg) == <<msg, Comma>>

(* A comma goes before all but the first.                                     *)
Added(msg) == IF recorded = 0 THEN <<msg>> ELSE <<Comma, msg>>

(* addToRecvSave()                                                          *)
AddToRecvSave ==
  /\ text # <<>> /\ Last(text) # End /\ recorded < Len(msgs)
  /\ recorded' = recorded + 1 /\ text' = text \o Added(recorded')
  /\ UNCHANGED <<msgs, protocol, kind, file, loaded>>

(* The handler is released: it ends the list and closes the file.              *)
CloseRecvSave ==
  /\ text # <<>> /\ Last(text) # End /\ text' = Append(text, End)
  /\ UNCHANGED <<msgs, protocol, kind, file, recorded, loaded>>

Next ==
  \/ Save \/ ChangeProtocol \/ StartRecvSave \/ AddToRecvSave \/ CloseRecvSave
  \/ \E as \in {"recv", "send"} : Load(as)

Spec == Init /\ [][Next]_vars

-----------------------------------------------------------------------------
(* The messages the protocol now in use can decode, and what is kept of one:   *)
(* the form its index names, if that one decodes its data, or else the first  *)
(* that does.                                                                *)
Known == AtPositions(msgs, {i \in DOMAIN msgs : msgs[i].data \in Contents(msgs[i].id)})
Kept(msg) ==
  IF msg.idx = msg.form /\ msg.form \in Forms(msg.id) /\ Decodes(msg.id, msg.form, msg.data) THEN msg
  ELSE [msg EXCEPT !.form = FirstForm(msg.id, msg.data)]
Plain(msg) == [msg EXCEPT !.idx = 1]

(* A received list that was saved and loaded is the same list, with its times,  *)
(* directions, comments and extra information, but for the messages the         *)
(* protocol now in use does not have.  That is all of the bytes that were no    *)
(* message: they are saved and lost, unless the protocol has a message of the   *)
(* id 0 that decodes them, and then they come back as that message.            *)
RecvComesBack ==
  kind = "recv" /\ loaded.as = "recv" =>
    /\ [i \in DOMAIN loaded.msgs |-> Plain(loaded.msgs[i])] = [i \in DOMAIN Known |-> Plain(Kept(Known[i]))]
    /\ \A i \in DOMAIN loaded.msgs : loaded.msgs[i].id \in DOMAIN FormsOf[protocol]

(* A send list comes back with the forms, delays and repetitions it had.  Of    *)
(* a copy, which has lost its form, only what its data decide is known.        *)
SendComesBack ==
  kind = "send" /\ loaded.as = "send" =>
    /\ Len(loaded.msgs) = Len(Known)
    /\ \A i \in DOMAIN Known : Plain(loaded.msgs[i]) = Plain(Kept(Known[i]))

(* A received list loaded into the send area is sent at the pace at which it    *)
(* was received, when its time stamps ascend.                                *)
ReplayKeepsPace ==
  LET ascends == \A i, j \in DOMAIN Known : i < j => Known[i].stamp <= Known[j].stamp
      passed[i \in 0 .. Len(Known)] == IF i = 0 THEN 0 ELSE passed[i - 1] + loaded.msgs[i].delay
  IN  kind = "recv" /\ loaded.as = "send" /\ ascends =>
        /\ Len(loaded.msgs) = Len(Known)
        /\ \A i \in DOMAIN Known :
             loaded.msgs[i].count = 1 /\ passed[i] = Known[i].stamp - Known[1].stamp

(* A recording that was closed is a list of the messages, however many there    *)
(* were.                                                                    *)
RecordingIsList ==
  text # <<>> /\ Last(text) = End =>
    text = <<Begin>> \o [k \in 1 .. (2 * recorded - 1) |-> IF k % 2 = 1 THEN (k + 1) \div 2 ELSE Comma] \o <<End>>
===============================================================================
