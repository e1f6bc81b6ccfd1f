--------------------------- MODULE TcpServerSocket ---------------------------
(***************************************************************************)
(* The TCP/IP server (plugin/tcp_socket/server/TcpServerSocket.cpp): a       *)
(* listener and the list of the connections it has accepted.  Data are sent  *)
(* to all of them and reported from each of them.                            *)
(***************************************************************************)
EXTENDS ToolsSocket, SequencesExt

CONSTANTS
  Clients,      (* the programs that may connect                           *)
  MaxSent       (* bound: pieces of data sent, and received of a client    *)

VARIABLES
  listening,    (* m_server.isListening()                                  *)
  linked,       (* the clients whose connection stands                     *)
  sockets,      (* m_sockets, by the client at the other end               *)
  inbox,        (* per client: pieces of data not read yet                 *)
  sent,         (* history: number of pieces sent                          *)
  got           (* history, per client: the pieces written to it, and the  *)
                (* number that had been sent when it was accepted          *)

vars == <<socketVars, listening, linked, sockets, inbox, sent, got>>

TypeOK ==
  /\ SocketTypeOK /\ listening \in BOOLEAN /\ linked \subseteq Clients
  /\ sockets \in Seq(linked) /\ inbox \in [Clients -> 0..MaxSent]
  /\ sent \in 0..MaxSent
  /\ got \in [Clients -> [since: 0..MaxSent, data: Seq(1..MaxSent)]]

Init ==
  /\ SocketInit /\ listening = FALSE /\ linked = {} /\ sockets = <<>>
  /\ inbox = [c \in Clients |-> 0] /\ sent = 0
  /\ got = [c \in Clients |-> [since |-> 0, data |-> <<>>]]

Start == Started /\ UNCHANGED <<listening, linked, sockets, inbox, sent, got>>

(* socketConnectImpl(): another program may hold the port.                  *)
Connect ==
  /\ ConnectClicked
  /\ IF listening THEN Connected(FALSE) /\ UNCHANGED listening
     ELSE \E free \in BOOLEAN : Connected(free) /\ listening' = free
  /\ UNCHANGED <<linked, sockets, inbox, sent, got>>

(* The listener is left open.                                                *)
WrongClose == UNCHANGED listening

(* socketDisconnectImpl(): the listener goes, the connections stay.         *)
Close == listening' = FALSE

Disconnect ==
  /\ DisconnectClicked /\ Disconnected /\ Close
  /\ UNCHANGED <<linked, sockets, inbox, sent, got>>

(* Other plug-ins are applied; the plug-in keeps the socket object for the  *)
(* next time.                                                               *)
Stop ==
  /\ Stopped
  /\ IF connected THEN Close ELSE UNCHANGED listening
  /\ UNCHANGED <<linked, sockets, inbox, sent, got>>

NewConnection(c) ==
  /\ listening /\ c \notin linked /\ linked' = linked \cup {c}
  /\ sockets' = Append(sockets, c)
  /\ inbox' = [inbox EXCEPT ![c] = 0]
  /\ got' = [got EXCEPT ![c] = [since |-> sent, data |-> <<>>]]
  /\ UNCHANGED <<socketVars, listening, sent>>

(* The neighbour of the connection that ended is erased.                     *)
WrongErased(c) == Remove(sockets, Last(sockets))

(* The pointer is reset and stays in the list.                               *)
WrongErasedNull(c) == [k \in DOMAIN sockets |-> IF sockets[k] = c THEN "null" ELSE sockets[k]]

Erased(c) == RemoveAt(sockets, CHOOSE k \in DOMAIN sockets : sockets[k] = c)

(* connectionTerminated()                                                   *)
ConnectionTerminated(c) ==
  /\ c \in linked /\ linked' = linked \ {c}
  /\ sockets' = Erased(c)
  /\ inbox' = [inbox EXCEPT ![c] = 0]
  /\ UNCHANGED <<socketVars, listening, sent, got>>

(* Data arrive at the operating system ...                                  *)
Arrive(c) ==
  /\ c \in linked /\ inbox[c] < MaxSent
  /\ inbox' = [inbox EXCEPT ![c] = @ + 1]
  /\ UNCHANGED <<socketVars, listening, linked, sockets, sent, got>>

(* ... and readFromSocket() takes what is there.                            *)
ReadFromSocket(c) ==
  /\ c \in linked /\ inbox[c] > 0
  /\ DataReported
  /\ inbox' = [inbox EXCEPT ![c] = 0]
  /\ UNCHANGED <<listening, linked, sockets, sent, got>>

(* acceptErrorOccurred(): a listener that is still open is still connected. *)
AcceptError ==
  /\ listening
  /\ \E open \in BOOLEAN :
       /\ listening' = open
       /\ IF open THEN UNCHANGED socketVars ELSE Disconnected
  /\ UNCHANGED <<linked, sockets, inbox, sent, got>>

(* sendDataImpl(): sendData() drops data of a disconnected socket.          *)
SendData ==
  /\ connected /\ sent < MaxSent
  /\ sent' = sent + 1
  /\ got' = [c \in Clients |->
               IF c \in ToSet(sockets) THEN [got[c] EXCEPT !.data = Append(@, sent')]
               ELSE got[c]]
  /\ UNCHANGED <<socketVars, listening, linked, sockets, inbox>>

Next ==
  \/ Start \/ Connect \/ Disconnect \/ Stop \/ AcceptError \/ SendData
  \/ \E c \in Clients :
       NewConnection(c) \/ ConnectionTerminated(c) \/ Arrive(c) \/ ReadFromSocket(c)

Spec == Init /\ [][Next]_vars

-----------------------------------------------------------------------------
(* The tool believes to be connected exactly while the port is open, so that *)
(* connecting never finds a previous listener: the assertion                 *)
(* Already_listening of socketConnectImpl(), across stop and start.          *)
ConnectedIsListening == (connected <=> listening) /\ (running => told = connected)

(* A client that stays connected gets what is sent after it was accepted,    *)
(* every piece once and in order, whoever comes and goes around it and       *)
(* however often the server is disconnected and connected again.             *)
ClientsGetTheStream ==
  \A c \in linked :
    /\ c \in ToSet(sockets)
    /\ got[c].data = [k \in 1..(sent - got[c].since) |-> got[c].since + k]
=============================================================================
