------------------------------ MODULE FrameRead -------------------------------
(***************************************************************************)
(* How bytes become messages (ToolsFrameBase::readDataImpl()) and messages   *)
(* become bytes again (ToolsProtocol: cloneMessage(), updateMessage(),       *)
(* write()).  The frame keeps what it could not use yet, in m_inData and      *)
(* m_garbage, and it is one frame for all who read with it: the clients of a  *)
(* server, whose data the socket reports one after the other, and the dialog  *)
(* in which the user types the bytes of messages to send.                    *)
(*                                                                         *)
(* A frame of the modelled protocol is the bytes "h", "p"; "x" is noise.      *)
(***************************************************************************)
EXTENDS Naturals, Sequences, FiniteSets, SequencesExt

CONSTANTS
  Clients,        (* who sends data                                        *)
  GarbageLimit,   (* noise is reported when there is that much of it         *)
  MinTransport,   (* the shortest input the transport message decodes        *)
  MaxBytes,       (* bound: bytes read                                      *)
  MaxChunk,       (* bound: bytes of one call                                *)
  MaxListed       (* bound: messages in the send list                        *)

VARIABLES
  frame,          (* m_inData and m_garbage                                 *)
  sendList,       (* the messages in the send area                          *)
  input,          (* history: all bytes given to read()                     *)
  out,            (* history: all messages returned by it                   *)
  flushed,        (* history: a read() was final                            *)
  written,        (* history: a message that was sent, and its bytes         *)
  ok              (* no assertion failed                                    *)

vars == <<frame, sendList, input, out, flushed, written, ok>>

Byte == [byte : {"h", "p", "x"}, from : Clients \cup {"typed"}]
Chunks(from) == {[i \in DOMAIN s |-> [byte |-> s[i], from |-> from]] :
                   s \in UNION {[1 .. n -> {"h", "p", "x"}] : n \in 1 .. MaxChunk}}

Message(raw, valid) == [raw |-> raw, valid |-> valid, extra |-> "none"]
RawOf(msgs) == FlattenSeq([i \in DOMAIN msgs |-> msgs[i].raw])

(* What m_frame.read() finds at the beginning of the data.                    *)
NotEnoughData(data) == Len(data) = 1 /\ data[1].byte = "h"
Success(data) == Len(data) >= 2 /\ data[1].byte = "h" /\ data[2].byte = "p"

-----------------------------------------------------------------------------
(* The reading of one call: f is the frame and the messages so far.           *)
CheckGarbage(f) ==
  IF f.garbage = <<>> THEN f
  ELSE [f EXCEPT !.msgs = Append(@, Message(f.garbage, FALSE)), !.garbage = <<>>]

(* The noise before a message is not reported before it.                      *)
WrongTakeFrame(f) ==
  [f EXCEPT !.msgs = Append(@, Message(SubSeq(f.inData, 1, 2), TRUE)), !.inData = SubSeq(@, 3, Len(@))]

TakeFrame(f) ==
  [CheckGarbage(f) EXCEPT !.msgs = Append(@, Message(SubSeq(f.inData, 1, 2), TRUE)),
                          !.inData = SubSeq(@, 3, Len(@))]

(* Everything that is left is noise.                                         *)
WrongTakeGarbage(f) == [f EXCEPT !.garbage = @ \o f.inData, !.inData = <<>>]

TakeGarbage(f) ==
  LET g == [f EXCEPT !.garbage = Append(@, Head(f.inData)), !.inData = Tail(@)]
  IN  IF Len(g.garbage) >= GarbageLimit THEN CheckGarbage(g) ELSE g

ConsumeOnce(f) ==
  IF f.inData = <<>> \/ NotEnoughData(f.inData) THEN f
  ELSE IF Success(f.inData) THEN TakeFrame(f) ELSE TakeGarbage(f)

(* The loop: every round takes at least a byte or is the last one.             *)
Consume(f) ==
  LET round[k \in 0 .. Len(f.inData)] == IF k = 0 THEN f ELSE ConsumeOnce(round[k - 1])
  IN  round[Len(f.inData)]

(* Only what is left of the data is reported; noise kept in m_garbage stays    *)
(* there when no data are left.                                              *)
Flush(f) ==
  IF f.inData = <<>> THEN f
  ELSE CheckGarbage([f EXCEPT !.garbage = @ \o f.inData, !.inData = <<>>])

(* Sockets say in the properties of the data who sent them; typed data have     *)
(* no properties.                                                           *)
PropertiesOf(byte) == IF byte.from = "typed" THEN "none" ELSE byte.from

(* The properties are those of the data that were left over.                  *)
WrongWithExtra(msgs, data, before) ==
  [i \in DOMAIN msgs |-> [msgs[i] EXCEPT !.extra = PropertiesOf(Head(before \o data))]]

(* The properties of the data go to all messages.                             *)
WithExtra(msgs, data, before) ==
  [i \in DOMAIN msgs |-> [msgs[i] EXCEPT !.extra = PropertiesOf(Head(data))]]

(* readDataImpl(), called by ToolsProtocol::read()                            *)
Read(data, final) ==
  LET all == Consume([inData |-> frame.inData \o data, garbage |-> frame.garbage, msgs |-> <<>>])
      end == IF final THEN Flush(all) ELSE all
  IN  [end EXCEPT !.msgs = WithExtra(@, data, frame.inData)]

Reads(data, final) ==
  /\ Len(input) + Len(data) <= MaxBytes /\ input' = input \o data
  /\ frame' = [inData |-> Read(data, final).inData, garbage |-> Read(data, final).garbage]
  /\ out' = out \o Read(data, final).msgs
  /\ flushed' = (flushed \/ final)

-----------------------------------------------------------------------------
Init ==
  /\ frame = [inData |-> <<>>, garbage |-> <<>>] /\ sendList = <<>>
  /\ input = <<>> /\ out = <<>> /\ flushed = FALSE /\ written = <<>> /\ ok = TRUE

(* ToolsMsgMgrImpl::socketDataReceived() reads the data of the socket.        *)
SocketDataReceived(data) ==
  /\ Reads(data, FALSE)
  /\ UNCHANGED <<sendList, written, ok>>

(* RawHexDataDialog::accept(): the typed bytes are one raw message, or they    *)
(* are read by the frame that is reading what the socket reports.             *)
AcceptRaw(data) ==
  /\ Len(sendList) < MaxListed /\ sendList' = Append(sendList, Message(data, FALSE))
  /\ UNCHANGED <<frame, input, out, flushed, written, ok>>

AcceptConverted(data) ==
  /\ Reads(data, TRUE)
  /\ Len(sendList) + Len(Read(data, TRUE).msgs) <= MaxListed
  /\ sendList' = sendList \o Read(data, TRUE).msgs
  /\ UNCHANGED <<written, ok>>

(* updateMessageImpl(): the framed bytes are decoded as a transport message,  *)
(* also those of noise, which may be too short for it.                        *)
TransportDecodes(data) == Len(data) >= MinTransport

(* The clone of noise has no bytes.                                          *)
WrongClone(msg) == IF msg.valid THEN msg ELSE [msg EXCEPT !.raw = <<>>]

(* cloneImpl(): the bytes of noise are cloned with it.                        *)
Clone(msg) == msg

(* GuiAppMgr::recvDupClicked(), sendDupClicked()                             *)
Duplicate(msg) ==
  /\ Len(sendList) < MaxListed
  /\ sendList' = Append(sendList, Clone(msg))
  /\ ok' = (ok /\ TransportDecodes(Clone(msg).raw))
  /\ UNCHANGED <<frame, input, out, flushed, written>>

(* ToolsMsgSendMgrImpl: a clone is updated and written.                       *)
Send(i) ==
  /\ written' = <<[listed |-> sendList[i].raw, bytes |-> Clone(sendList[i]).raw]>>
  /\ ok' = (ok /\ TransportDecodes(Clone(sendList[i]).raw))
  /\ UNCHANGED <<frame, sendList, input, out, flushed>>

InLists == {out[i] : i \in DOMAIN out} \cup {sendList[i] : i \in DOMAIN sendList}

Next ==
  \/ \E client \in Clients : \E data \in Chunks(client) : SocketDataReceived(data)
  \/ \E data \in Chunks("typed") : AcceptRaw(data) \/ AcceptConverted(data)
  \/ \E msg \in InLists : Duplicate(msg)
  \/ \E i \in DOMAIN sendList : Send(i)

Spec == Init /\ [][Next]_vars

-----------------------------------------------------------------------------
(* However the bytes are cut into calls, each of them is in one message, in    *)
(* the order they came, or still kept by the frame.                           *)
NothingLost == RawOf(out) \o frame.garbage \o frame.inData = input

(* However the bytes are cut into calls, whatever noise is between them, all   *)
(* messages among them are found, until a final call breaks one up.           *)
FramesFound ==
  ~flushed => Cardinality({i \in DOMAIN out : out[i].valid})
                = Cardinality({i \in 1 .. Len(input) - 1 : input[i].byte = "h" /\ input[i + 1].byte = "p"})

(* Noise is not kept for ever: the frame holds less than the limit, and what   *)
(* may be the beginning of a message.                                         *)
LittleIsKept == Len(frame.garbage) < GarbageLimit /\ Len(frame.inData) < 2

(* A message is said to come from the one who sent the last of its bytes       *)
(* (who sent the first, the frame does not know).                             *)
NamesLastSource == \A i \in DOMAIN out : out[i].valid => out[i].extra = PropertiesOf(out[i].raw[2])

(* What is sent is the bytes of the message in the list, noise included.      *)
SentAsListed == \A i \in DOMAIN written : written[i].bytes = written[i].listed

(* Every message that is cloned can be updated.                               *)
NoFrameAssertionFails == ok
===============================================================================
