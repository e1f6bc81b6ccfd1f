--------------------------- MODULE UdpProxySocket ----------------------------
(***************************************************************************)
(* The UDP proxy (plugin/udp_socket/proxy/UdpProxySocket.cpp): a listen      *)
(* socket, which connects to the first client that sends, and a remote       *)
(* socket, which is made when it does.                                       *)
(***************************************************************************)
EXTENDS ToolsSocket

CONSTANTS
  Clients,      (* the programs that send to the listen socket             *)
  MaxData       (* bound: datagrams not read yet, and datagrams sent       *)

VARIABLES
  listen,       (* m_listenSocket: "null", "bound", or the client it is    *)
                (* connected to                                            *)
  remote,       (* m_remoteSocket: whether it is there                     *)
  active,       (* m_running                                               *)
  inbox,        (* the senders of the datagrams not read yet               *)
  arrived,      (* history: datagrams the listen socket got,               *)
  carried,      (* those written to the remote host,                       *)
  unreached,    (* and those read while it could not be reached            *)
  crashed       (* a null pointer was dereferenced                         *)

counts == <<arrived, carried, unreached>>
vars == <<socketVars, listen, remote, active, inbox, counts, crashed>>

Null == "null"

(* What the theorems of Transport_proofs need to know of the constants.       *)
ClientsAreNames == {Null, "bound"} \cap Clients = {} /\ MaxData \in Nat

Linked == listen \notin {Null, "bound"}

TypeOK ==
  /\ SocketTypeOK /\ listen \in Clients \cup {Null, "bound"}
  /\ {remote, active, crashed} \subseteq BOOLEAN /\ inbox \in Seq(Clients)
  /\ {arrived, carried, unreached} \subseteq 0..MaxData

Init ==
  /\ SocketInit /\ listen = Null /\ remote = FALSE /\ active = FALSE /\ inbox = <<>>
  /\ arrived = 0 /\ carried = 0 /\ unreached = 0 /\ crashed = FALSE

Start == Started /\ UNCHANGED <<listen, remote, active, inbox, counts, crashed>>

(* socketConnectImpl(): settings may be missing, the port may be taken; a   *)
(* listen socket that could not be opened is thrown away.                   *)
Connect ==
  /\ ConnectClicked
  /\ \E ok \in BOOLEAN :
       /\ Connected(ok) /\ active' = (active \/ ok)
       /\ listen' = IF ok THEN "bound" ELSE Null
  /\ inbox' = <<>> /\ arrived' = 0 /\ carried' = 0 /\ unreached' = 0
  /\ UNCHANGED <<remote, crashed>>

(* The remote socket is kept for the next connection.                        *)
WrongClose == listen' = Null /\ active' = FALSE /\ inbox' = <<>> /\ UNCHANGED remote

(* socketDisconnectImpl()                                                   *)
Close == listen' = Null /\ remote' = FALSE /\ active' = FALSE /\ inbox' = <<>>

Disconnect == DisconnectClicked /\ Disconnected /\ Close /\ UNCHANGED <<counts, crashed>>

Stop ==
  /\ Stopped /\ UNCHANGED <<counts, crashed>>
  /\ IF connected THEN Close ELSE UNCHANGED <<listen, remote, active, inbox>>

Arrive(c) ==
  /\ listen \in {"bound", c} /\ arrived < MaxData
  /\ inbox' = Append(inbox, c) /\ arrived' = arrived + 1
  /\ UNCHANGED <<socketVars, listen, remote, active, carried, unreached, crashed>>

(* The datagrams that came before the remote socket are only reported.       *)
WrongCarried(there) == IF remote THEN carried + Len(inbox) ELSE carried

Carried(there) == IF there THEN carried + Len(inbox) ELSE carried

(* readFromListenSocket(): the remote socket is made if it is not there;    *)
(* the first sender is connected to, unless that fails; every datagram is   *)
(* carried on and reported.                                                 *)
ReadFromListen ==
  /\ inbox # <<>> /\ inbox' = <<>>
  /\ \E reached \in BOOLEAN :
       /\ remote' = (remote \/ reached)
       /\ carried' = Carried(remote')
       /\ unreached' = IF remote' THEN unreached ELSE unreached + Len(inbox)
  /\ listen' \in IF Linked THEN {listen} ELSE {Head(inbox), "bound"}
  /\ DataReported /\ UNCHANGED <<active, arrived, crashed>>

(* readFromRemoteSocket(): a client that is not known yet gets nothing.     *)
ReadFromRemote ==
  /\ remote /\ DataReported
  /\ UNCHANGED <<listen, remote, active, inbox, counts, crashed>>

(* listenSocketDisconnected()                                               *)
ListenLost ==
  /\ Linked /\ Disconnected
  /\ remote' = FALSE /\ listen' = Null /\ inbox' = <<>>
  /\ UNCHANGED <<active, counts, crashed>>

(* remoteSocketDisconnected(): destroying a connected listen socket makes   *)
(* it signal its own disconnection, since the signals blocked are those of  *)
(* the remote socket; listenSocketDisconnected() then takes the remote      *)
(* socket away and dereferences the listen socket that is no more.          *)
RemoteLost ==
  /\ remote /\ Disconnected
  /\ crashed' = Linked
  /\ remote' = FALSE /\ listen' = Null /\ inbox' = <<>>
  /\ UNCHANGED <<active, counts>>

(* sendDataImpl(): to the client, who is there or not.                      *)
SendData ==
  /\ connected /\ active
  /\ crashed' = (listen = Null)
  /\ UNCHANGED <<socketVars, listen, remote, active, inbox, counts>>

Step ==
  \/ Start \/ Connect \/ Disconnect \/ Stop \/ ReadFromListen \/ ReadFromRemote
  \/ ListenLost \/ RemoteLost \/ SendData \/ \E c \in Clients : Arrive(c)

Next == ~crashed /\ Step

Spec == Init /\ [][Next]_vars

-----------------------------------------------------------------------------
(* A tool that shows a connected socket has a listen socket to send through, *)
(* and one that shows a disconnected socket has neither of the two, though   *)
(* m_running stays set when the listen socket is lost: nothing is written to *)
(* a null pointer, nothing reported out of turn, no remote socket of an      *)
(* earlier connection is used.                                               *)
SocketsFollowStatus ==
  running /\ ~crashed => /\ connected <=> listen # Null
                         /\ remote => connected
                         /\ ~stray

(* Every datagram of a client is carried to the remote host once, the first  *)
(* one too, which comes before there is a socket to carry it.                *)
CarriesEverything ==
  connected => carried + unreached + Len(inbox) = arrived

(* The handler asserts that it has its remote socket and uses it to the end. *)
HandlersKeepSockets == ~crashed
=============================================================================
