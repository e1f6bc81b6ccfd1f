----------------------------- MODULE FilterChain -----------------------------
(***************************************************************************)
(* How the message manager (lib/src/ToolsMsgMgrImpl.cpp) runs its socket and *)
(* its filters (lib/src/ToolsFilter.cpp): data climb from the socket through *)
(* the filters to the protocol and descend the other way, a filter may send  *)
(* data of its own, and the status of the connection is told to everybody in *)
(* turn.  Whoever is called may report an error, and while its box is open   *)
(* the event loop calls into the chain again.                                *)
(***************************************************************************)
EXTENDS Integers, Sequences, SequencesExt

CONSTANTS
  N,            (* the number of filters                                   *)
  Dialogs,      (* whether error boxes open                                *)
  MaxPieces,    (* bound: pieces of data received, and sent                *)
  MaxDepth      (* bound: nested calls                                     *)

(* What the theorem of FilterChain_proofs needs to know of the constants.    *)
FiltersAreCounted == N \in Nat /\ Dialogs \in BOOLEAN

VARIABLES
  mgr,          (* m_running of the manager                                *)
  socket,       (* the socket runs, and is connected                       *)
  started,      (* the filters that were started                           *)
  told,         (* the connection status told last to the filters, to the  *)
                (* protocol and to the application                         *)
  calls,        (* the stack of calls of the manager                       *)
  received, sent,       (* history: pieces of data received and sent       *)
  protocolGot,  (* history: the pieces the protocol was given              *)
  wire          (* history: where the last piece sent came from, and which *)
                (* filters it went through                                 *)

chainVars == <<mgr, socket, started>>
history == <<received, sent, protocolGot, wire>>
vars == <<chainVars, told, calls, history>>

Filters == 1..N
Protocol == N + 1
Application == N + 2
Listeners == 1..Application

(* A call: the next station, the data or status carried, the sender of data *)
(* and the filters passed; "again" of a status that is reported twice.      *)
Call(kind, at, what, origin) ==
  [kind |-> kind, at |-> at, what |-> what, origin |-> origin, path |-> <<>>,
   box |-> FALSE, boxed |-> ~Dialogs, spoke |-> FALSE, again |-> FALSE]

Idle == calls = <<>>
Top == calls[Len(calls)]
Rest == SubSeq(calls, 1, Len(calls) - 1)
InCall(kind) == ~Idle /\ Top.kind = kind /\ ~Top.box
EventLoop == (Idle \/ (~Idle /\ Top.box)) /\ Len(calls) < MaxDepth

TypeOK ==
  /\ mgr \in BOOLEAN /\ socket \in [running: BOOLEAN, connected: BOOLEAN]
  /\ started \subseteq Filters /\ told \in [Listeners -> BOOLEAN]
  /\ Len(calls) <= MaxDepth
  /\ \A k \in DOMAIN calls : calls[k].kind \in {"recv", "send", "status"} /\ calls[k].at \in 0..(Application + 1)
  /\ {received, sent} \subseteq 0..MaxPieces

Init ==
  /\ mgr = FALSE /\ socket = [running |-> FALSE, connected |-> FALSE] /\ started = {}
  /\ told = [l \in Listeners |-> FALSE] /\ calls = <<>>
  /\ received = 0 /\ sent = 0 /\ protocolGot = <<>> /\ wire = [origin |-> 1, path |-> <<>>]

(* start(): the results are ignored, a filter may have failed.              *)
Start ==
  /\ Idle /\ ~mgr /\ mgr' = TRUE
  /\ socket' = [socket EXCEPT !.running = TRUE]
  /\ started' \in SUBSET Filters
  /\ UNCHANGED <<told, calls, history>>

(* stop(): the filters first, then the socket, which reports twice that it  *)
(* is disconnected.                                                         *)
Stop ==
  /\ Idle /\ mgr /\ mgr' = FALSE
  /\ started' = {} /\ socket' = [running |-> FALSE, connected |-> FALSE]
  /\ calls' = IF socket.connected
              THEN <<[Call("status", 1, FALSE, 0) EXCEPT !.again = TRUE]>> ELSE <<>>
  /\ UNCHANGED <<told, history>>

Report(connected) == Append(calls, Call("status", 1, connected, 0))

(* The buttons follow what the application was told.                        *)
Connect ==
  /\ Idle /\ mgr /\ ~told[Application]
  /\ \E ok \in BOOLEAN : /\ socket' = [socket EXCEPT !.connected = ok]
                         /\ calls' = Report(ok)
  /\ UNCHANGED <<mgr, started, told, history>>

Disconnect ==
  /\ Idle /\ mgr /\ told[Application]
  /\ socket' = [socket EXCEPT !.connected = FALSE] /\ calls' = Report(FALSE)
  /\ UNCHANGED <<mgr, started, told, history>>

(* reportDisconnected(), whenever the device is lost.                       *)
Lost ==
  /\ EventLoop /\ socket.connected
  /\ socket' = [socket EXCEPT !.connected = FALSE] /\ calls' = Report(FALSE)
  /\ UNCHANGED <<mgr, started, told, history>>

(* The protocol is passed over.                                              *)
WrongNextListener(l) == IF l = N THEN Application ELSE l + 1

NextListener(l) == l + 1

(* socketConnectionReport(): one listener after the other.                  *)
Tell ==
  /\ InCall("status") /\ Top.at \in Listeners
  /\ told' = [told EXCEPT ![Top.at] = Top.what]
  /\ calls' = Append(Rest, [Top EXCEPT !.at = NextListener(@), !.boxed = ~Dialogs])
  /\ UNCHANGED <<chainVars, history>>

Told ==
  /\ InCall("status") /\ Top.at > Application
  /\ calls' = IF Top.again THEN Append(Rest, Call("status", 1, Top.what, 0)) ELSE Rest
  /\ UNCHANGED <<chainVars, told, history>>

(* reportDataReceived(): a socket that does not run is silent.              *)
SocketData ==
  /\ EventLoop /\ socket.running /\ socket.connected /\ received < MaxPieces
  /\ received' = received + 1
  /\ calls' = Append(calls, Call("recv", 1, received', 0))
  /\ UNCHANGED <<chainVars, told, sent, protocolGot, wire>>

(* What a filter hands on is the piece it has kept from before.              *)
WrongRecvPass ==
  /\ InCall("recv") /\ Top.at \in Filters
  /\ calls' = Append(Rest, [Top EXCEPT !.at = @ + 1, !.what = 1])
  /\ UNCHANGED <<chainVars, told, history>>

(* socketDataReceived(): a filter hands the piece on, ...                   *)
RecvPass ==
  /\ InCall("recv") /\ Top.at \in Filters
  /\ calls' = Append(Rest, [Top EXCEPT !.at = @ + 1, !.spoke = FALSE])
  /\ UNCHANGED <<chainVars, told, history>>

(* ... keeps it, ...                                                        *)
Consume ==
  /\ ~Idle /\ ~Top.box /\ Top.kind \in {"recv", "send"} /\ Top.at \in Filters
  /\ calls' = Rest
  /\ UNCHANGED <<chainVars, told, history>>

(* ... and what comes through is read by the protocol.                      *)
ToProtocol ==
  /\ InCall("recv") /\ Top.at = Protocol
  /\ protocolGot' = Append(protocolGot, Top.what) /\ calls' = Rest
  /\ UNCHANGED <<chainVars, told, received, sent, wire>>

(* The reverse iterator begins one too early: with the filter itself.        *)
WrongBelow(i) == i

(* rbegin() + (size - index): the filter below the one that speaks.         *)
Below(i) == N - (N - (i - 1))

(* A filter sends on its own, from inside recvData() or from the event      *)
(* loop: filterDataToSendReport().                                          *)
FilterSends(i) ==
  /\ i \in started /\ sent < MaxPieces /\ Len(calls) < MaxDepth
  /\ EventLoop \/ (InCall("recv") /\ Top.at = i /\ ~Top.spoke)
  /\ sent' = sent + 1
  /\ LET below == IF InCall("recv") THEN Append(Rest, [Top EXCEPT !.spoke = TRUE]) ELSE calls
     IN  calls' = Append(below, Call("send", Below(i), sent', i))
  /\ UNCHANGED <<chainVars, told, received, protocolGot, wire>>

(* sendMsgs(): the protocol's data start at the last filter.                *)
ProtocolSends ==
  /\ EventLoop /\ mgr /\ sent < MaxPieces /\ sent' = sent + 1
  /\ calls' = Append(calls, Call("send", N, sent', Protocol))
  /\ UNCHANGED <<chainVars, told, received, protocolGot, wire>>

SendPass ==
  /\ InCall("send") /\ Top.at \in Filters
  /\ calls' = Append(Rest, [Top EXCEPT !.at = @ - 1, !.path = Append(@, Top.at)])
  /\ UNCHANGED <<chainVars, told, history>>

(* sendData() of the socket drops what it gets while it is not connected.   *)
ToSocket ==
  /\ InCall("send") /\ Top.at = 0 /\ calls' = Rest
  /\ wire' = IF socket.connected THEN [origin |-> Top.origin, path |-> Top.path] ELSE wire
  /\ UNCHANGED <<chainVars, told, received, sent, protocolGot>>

(* reportError(): a filter, or the protocol about the connection, opens a   *)
(* box; once in a call, and for a status after the listener was told.       *)
OpenBox ==
  /\ ~Idle /\ ~Top.box /\ ~Top.boxed
  /\ IF Top.kind = "status" THEN Top.at \in 2..Application ELSE Top.at \in Filters
  /\ calls' = Append(Rest, [Top EXCEPT !.box = TRUE, !.boxed = TRUE])
  /\ UNCHANGED <<chainVars, told, history>>

CloseBox ==
  /\ ~Idle /\ Top.box
  /\ calls' = Append(Rest, [Top EXCEPT !.box = FALSE])
  /\ UNCHANGED <<chainVars, told, history>>

Next ==
  \/ Start \/ Stop \/ Connect \/ Disconnect \/ Lost \/ Tell \/ Told
  \/ SocketData \/ RecvPass \/ Consume \/ ToProtocol
  \/ ProtocolSends \/ SendPass \/ ToSocket \/ OpenBox \/ CloseBox
  \/ \E i \in Filters : FilterSends(i)

Spec == Init /\ [][Next]_vars

-----------------------------------------------------------------------------
(* What reaches the socket has been through all the filters below its        *)
(* sender, each once and from the top to the bottom, and never through the   *)
(* sender itself, in whatever call it was sent.                              *)
PathIsChain == wire.path = [k \in 1..(wire.origin - 1) |-> wire.origin - k]

(* Without boxes the protocol is given the data in the order they came.      *)
DataInOrder == \A j, k \in DOMAIN protocolGot : j < k => protocolGot[j] < protocolGot[k]

(* "Make the filter aware about socket connection status"                    *)
(* (lib/include/cc_tools_qt/ToolsFilter.h): when nothing is being reported,  *)
(* the filters, the protocol and the buttons have the status of the socket.  *)
StatusAgrees == Idle => \A l \in Listeners : told[l] = socket.connected
=============================================================================
