--------------------------- MODULE TcpProxySocket ----------------------------
(***************************************************************************)
(* The TCP/IP proxy (plugin/tcp_socket/proxy/TcpProxySocket.cpp): for every  *)
(* client it accepts it opens a connection to the remote host and carries    *)
(* data between the two, reporting them on the way.                          *)
(***************************************************************************)
EXTENDS ToolsSocket, SequencesExt

CONSTANTS
  Clients,      (* the programs that may connect                           *)
  MaxData       (* bound: pieces a client sends, and the tool sends        *)

VARIABLES
  listening,    (* m_server.isListening()                                  *)
  pair,         (* m_sockets: what became of the connection to the remote  *)
                (* host, "none" for a client without a pair                *)
  inbox,        (* per client: pieces of data not read yet                 *)
  ready,        (* the clients whose readyRead signal waits to be handled  *)
  arrived,      (* history, per client: pieces it has sent                 *)
  carried,      (* history, per client: what its remote end was written,   *)
                (* pieces of the client and of the tool                    *)
  asserted      (* an assertion has failed                                 *)

carryVars == <<inbox, ready, arrived, carried>>
vars == <<socketVars, listening, pair, carryVars, asserted>>

TypeOK ==
  /\ SocketTypeOK /\ {listening, asserted} \subseteq BOOLEAN
  /\ pair \in [Clients -> {"none", "connecting", "up", "refused"}]
  /\ {inbox, arrived} \subseteq [Clients -> 0..MaxData] /\ ready \subseteq Clients
  /\ carried \in [Clients -> Seq({"client", "tool"})]

Init ==
  /\ SocketInit /\ listening = FALSE /\ asserted = FALSE
  /\ pair = [c \in Clients |-> "none"] /\ ready = {}
  /\ inbox = [c \in Clients |-> 0] /\ arrived = inbox
  /\ carried = [c \in Clients |-> <<>>]

Start == Started /\ UNCHANGED <<listening, pair, carryVars, asserted>>

(* socketConnectImpl(): the remote endpoint may be the proxy itself, and    *)
(* another program may hold the port.                                       *)
Connect ==
  /\ ConnectClicked
  /\ \E itself, free \in BOOLEAN :
       LET ok == ~listening /\ ~itself /\ free
       IN  Connected(ok) /\ listening' = (listening \/ ok)
  /\ UNCHANGED <<pair, carryVars, asserted>>

(* The listener is left open.                                                *)
WrongClose == UNCHANGED listening

(* socketDisconnectImpl(): the listener goes, the pairs stay.               *)
Close == listening' = FALSE

Disconnect ==
  /\ DisconnectClicked /\ Disconnected /\ Close
  /\ UNCHANGED <<pair, carryVars, asserted>>

Stop ==
  /\ Stopped /\ UNCHANGED <<pair, carryVars, asserted>>
  /\ IF connected THEN Close ELSE UNCHANGED listening

NewConnection(c) ==
  /\ listening /\ pair[c] = "none"
  /\ pair' = [pair EXCEPT ![c] = "connecting"]
  /\ inbox' = [inbox EXCEPT ![c] = 0] /\ arrived' = [arrived EXCEPT ![c] = 0]
  /\ carried' = [carried EXCEPT ![c] = <<>>]
  /\ UNCHANGED <<socketVars, listening, ready, asserted>>

(* A client sends: its readyRead signal has a slot once the remote end is   *)
(* connected, and is lost before.                                           *)
ClientSends(c) ==
  /\ pair[c] # "none" /\ arrived[c] < MaxData
  /\ inbox' = [inbox EXCEPT ![c] = @ + 1] /\ arrived' = [arrived EXCEPT ![c] = @ + 1]
  /\ ready' = IF pair[c] = "up" THEN ready \cup {c} ELSE ready
  /\ UNCHANGED <<socketVars, listening, pair, carried, asserted>>

(* performReadWrite(), from a client to its remote end.                     *)
Carry(c) ==
  /\ carried' = [carried EXCEPT ![c] = @ \o [k \in 1..inbox[c] |-> "client"]]
  /\ inbox' = [inbox EXCEPT ![c] = 0]
  /\ IF inbox[c] = 0 THEN UNCHANGED socketVars ELSE DataReported

(* What the client has sent before is left to its next signal.               *)
WrongCatchUp(c) == UNCHANGED <<socketVars, inbox, carried>>

(* connectionSocketConnected(): from now on the client is listened to.      *)
CatchUp(c) == Carry(c)

RemoteConnected(c) ==
  /\ pair[c] = "connecting" /\ pair' = [pair EXCEPT ![c] = "up"]
  /\ CatchUp(c) /\ UNCHANGED <<listening, ready, arrived, asserted>>

(* socketErrorOccurred() for a remote host that refuses: the pair stays.    *)
RemoteRefused(c) ==
  /\ pair[c] = "connecting" /\ pair' = [pair EXCEPT ![c] = "refused"]
  /\ UNCHANGED <<socketVars, listening, carryVars, asserted>>

ReadFromClient(c) ==
  /\ c \in ready /\ ready' = ready \ {c}
  /\ Carry(c) /\ UNCHANGED <<listening, pair, arrived, asserted>>

(* readFromConnectionSocket(): the other direction.                         *)
ReadFromRemote(c) ==
  /\ pair[c] = "up" /\ DataReported
  /\ UNCHANGED <<listening, pair, carryVars, asserted>>

(* clientConnectionTerminated(): of an established pair everything has      *)
(* been read; what waits for the remote host is given up.                   *)
ClientGone(c) ==
  /\ pair[c] # "none" /\ c \notin ready
  /\ pair' = [pair EXCEPT ![c] = "none"] /\ inbox' = [inbox EXCEPT ![c] = 0]
  /\ UNCHANGED <<socketVars, listening, ready, arrived, carried, asserted>>

(* connectionSocketDisconnected(): the client is deleted with its signals.  *)
RemoteGone(c) ==
  /\ pair[c] = "up" /\ pair' = [pair EXCEPT ![c] = "none"]
  /\ inbox' = [inbox EXCEPT ![c] = 0] /\ ready' = ready \ {c}
  /\ UNCHANGED <<socketVars, listening, arrived, carried, asserted>>

(* sendDataImpl(): to both ends of every pair; what a connection that is    *)
(* being made is given waits in it.                                         *)
Written(c) == pair[c] \in {"connecting", "up"}

SendData ==
  /\ connected
  /\ \A c \in Clients : Written(c) => Len(carried[c]) < 2 * MaxData
  /\ carried' = [c \in Clients |-> IF Written(c) THEN Append(carried[c], "tool") ELSE carried[c]]
  /\ UNCHANGED <<socketVars, listening, pair, inbox, ready, arrived, asserted>>

(* An accept error ends in socketErrorOccurred(), which takes its sender    *)
(* for a connection.                                                        *)
AcceptError ==
  /\ listening /\ asserted' = TRUE
  /\ UNCHANGED <<socketVars, listening, pair, carryVars>>

Step ==
  \/ Start \/ Connect \/ Disconnect \/ Stop \/ SendData \/ AcceptError
  \/ \E c \in Clients :
       \/ NewConnection(c) \/ ClientSends(c) \/ RemoteConnected(c) \/ RemoteRefused(c)
       \/ ReadFromClient(c) \/ ReadFromRemote(c) \/ ClientGone(c) \/ RemoteGone(c)

(* A failed assertion ends the program.                                     *)
Next == ~asserted /\ Step

Spec == Init /\ [][Next]_vars

-----------------------------------------------------------------------------
(* The connection state the tool shows is the one of the listener: the       *)
(* assertion Already_listening of socketConnectImpl().                       *)
ConnectedIsListening == (connected <=> listening) /\ (running => told = connected)

(* Everything a client sends gets to the remote host, also what it sent      *)
(* before that was connected: nothing read is lost or written twice, and     *)
(* nothing is left unread without a signal that will have it read.           *)
ForwardsEverything ==
  \A c \in Clients : pair[c] = "up" =>
    /\ Cardinality({k \in DOMAIN carried[c] : carried[c][k] = "client"}) + inbox[c] = arrived[c]
    /\ inbox[c] > 0 => c \in ready
=============================================================================
