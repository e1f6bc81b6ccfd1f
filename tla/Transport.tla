------------------------------ MODULE Transport -------------------------------
(***************************************************************************)
(* What lies between the operating system and the protocol: the socket       *)
(* plug-ins and the chain of filters.  The tool runs one socket at a time,   *)
(* that of the plug-in the user has applied; the others wait.  Each has a    *)
(* module of its own, on the base class they share; the chain has a module   *)
(* with the little it needs to know of its socket.                           *)
(***************************************************************************)
EXTENDS Integers, Sequences

CONSTANTS
  Clients,      (* programs that connect or send to the tool               *)
  MaxData       (* bound: pieces of data of each kind                      *)

(* The states of the UDP proxy's listen socket are no names of clients.       *)
ASSUME TransportAssumption == MaxData \in Nat \ {0} /\ {"null", "bound"} \cap Clients = {}

Subjects ==
  {"tcp_server", "tcp_client", "ssl_client", "tcp_proxy", "udp_generic", "udp_proxy", "serial", "echo",
   "chain", "boxed_chain"}

VARIABLES
  subject,                                      (* the part that runs      *)
  running, connected, told, stray,              (* ToolsSocket             *)
  listening,                                    (* QTcpServer              *)
  linked, sockets, inboxes, got,                (* TcpServerSocket         *)
  link, box, settings,                          (* ClientSocket            *)
  pair, ready, arrivals, carriage, asserted,    (* TcpProxySocket          *)
  open, dead, peer, queue, ttl, defaultTtl, first, last, udpSettings, (* UdpGenericSocket *)
  listen, remote, active, carried, unreached, crashed,          (* UdpProxySocket   *)
  pending, timerActive, timer, loops, echoed,   (* EchoSocket              *)
  serialSettings, inForce,                      (* SerialSocket            *)
  mgr, socket, started, aware, calls, received, protocolGot, wire,  (* FilterChain *)
  inbox, sent, arrived                          (* of several              *)

TcpServer == INSTANCE TcpServerSocket WITH inbox <- inboxes, MaxSent <- MaxData
TcpClient == INSTANCE ClientSocket WITH Ssl <- FALSE
SslClient == INSTANCE ClientSocket WITH Ssl <- TRUE
TcpProxy == INSTANCE TcpProxySocket
              WITH inbox <- inboxes, arrived <- arrivals, carried <- carriage, MaxData <- 1
UdpGeneric == INSTANCE UdpGenericSocket
                WITH inbox <- queue, settings <- udpSettings, MaxInbox <- MaxData,
                     Peers <- Clients, Ttls <- {2, 3}, OsTtl <- 1
UdpProxy == INSTANCE UdpProxySocket WITH inbox <- queue, MaxData <- MaxData + 1
Echo == INSTANCE EchoSocket WITH MaxSent <- 2 * MaxData, MaxDepth <- MaxData
Serial == INSTANCE SerialSocket
            WITH settings <- serialSettings, Settings <- {"s1", "s2", "s3"}
Chain == INSTANCE FilterChain
           WITH N <- 2, Dialogs <- FALSE, MaxPieces <- MaxData, MaxDepth <- 3, told <- aware
BoxedChain == INSTANCE FilterChain
                WITH N <- 2, Dialogs <- TRUE, MaxPieces <- 1, MaxDepth <- 2, told <- aware

tcpVars == <<listening, linked, sockets, got, pair, ready, arrivals, carriage, asserted>>
udpVars == <<dead, peer, ttl, defaultTtl, first, last, udpSettings, listen, remote, active, carried, unreached, crashed>>
echoVars == <<pending, timerActive, timer, loops, echoed>>
serialVars == <<serialSettings, inForce>>
clientVars == <<link, box, settings>>
chainVars == <<mgr, socket, started, aware, calls, received, protocolGot, wire>>
vars == <<subject, running, connected, told, stray, tcpVars, udpVars, echoVars, serialVars, clientVars,
          chainVars, inboxes, open, queue, inbox, sent, arrived>>

Init ==
  /\ subject \in Subjects
  /\ TcpServer!Init /\ TcpProxy!Init /\ TcpClient!Init /\ SslClient!Init
  /\ UdpGeneric!Init /\ UdpProxy!Init /\ Echo!Init /\ Serial!Init
  /\ Chain!Init
  /\ subject \notin {"tcp_client", "ssl_client"} => settings = [host |-> TRUE, port |-> TRUE]
  /\ subject # "udp_generic" => udpSettings = [host |-> TRUE, port |-> TRUE, local |-> TRUE]
  /\ subject # "serial" => serialSettings = "s1"

TcpServerStep ==
  /\ subject = "tcp_server" /\ TcpServer!Next
  /\ UNCHANGED <<chainVars, pair, ready, arrivals, carriage, asserted, udpVars, echoVars, serialVars, clientVars,
                 open, queue, inbox, arrived>>

TcpProxyStep ==
  /\ subject = "tcp_proxy" /\ TcpProxy!Next
  /\ UNCHANGED <<chainVars, linked, sockets, got, udpVars, echoVars, serialVars, clientVars,
                 open, queue, inbox, sent, arrived>>

ClientRest == <<chainVars, tcpVars, udpVars, echoVars, serialVars, inboxes, open, queue>>
TcpClientStep == subject = "tcp_client" /\ TcpClient!Next /\ UNCHANGED ClientRest
SslClientStep == subject = "ssl_client" /\ SslClient!Next /\ UNCHANGED ClientRest

UdpGenericStep ==
  /\ subject = "udp_generic" /\ UdpGeneric!Next
  /\ UNCHANGED <<chainVars, tcpVars, listen, remote, active, carried, unreached, crashed, echoVars, serialVars,
                 clientVars, inboxes, inbox, sent, arrived>>

UdpProxyStep ==
  /\ subject = "udp_proxy" /\ UdpProxy!Next
  /\ UNCHANGED <<chainVars, tcpVars, dead, peer, ttl, defaultTtl, first, last, udpSettings, echoVars, serialVars,
                 clientVars, inboxes, open, inbox, sent>>

EchoStep ==
  /\ subject = "echo" /\ Echo!Next
  /\ UNCHANGED <<chainVars, tcpVars, udpVars, serialVars, clientVars, inboxes, open, queue, inbox, arrived>>

SerialStep ==
  /\ subject = "serial" /\ Serial!Next
  /\ UNCHANGED <<chainVars, tcpVars, udpVars, echoVars, clientVars, inboxes, queue, sent, arrived>>

ChainStep ==
  /\ \/ subject = "chain" /\ Chain!Next
     \/ subject = "boxed_chain" /\ BoxedChain!Next
  /\ UNCHANGED <<running, connected, told, stray, tcpVars, udpVars, echoVars, serialVars, clientVars,
                 inboxes, open, queue, inbox, arrived>>

Next ==
  /\ UNCHANGED subject
  /\ \/ TcpServerStep \/ TcpProxyStep \/ TcpClientStep \/ SslClientStep
     \/ UdpGenericStep \/ UdpProxyStep \/ EchoStep \/ SerialStep \/ ChainStep

Spec == Init /\ [][Next]_vars /\ Echo!Fairness

-----------------------------------------------------------------------------
(* What the states of the subject socket look like.                          *)
TypeOK ==
  /\ subject = "tcp_server" => TcpServer!TypeOK
  /\ subject = "tcp_client" => TcpClient!TypeOK
  /\ subject = "ssl_client" => SslClient!TypeOK
  /\ subject = "tcp_proxy" => TcpProxy!TypeOK
  /\ subject = "udp_generic" => UdpGeneric!TypeOK
  /\ subject = "udp_proxy" => UdpProxy!TypeOK
  /\ subject = "echo" => Echo!TypeOK
  /\ subject = "chain" => Chain!TypeOK

(* The connection state the tool shows is that of the device underneath,     *)
(* across losses, failing connects, error boxes, stop and start: a socket    *)
(* that is shown connected has its listener, connection or port, and is told *)
(* so.  The other way round it holds of most: connecting never finds a       *)
(* previous listener, connection of the TCP client or port (the assertions   *)
(* Already_listening and Already_connected of socketConnectImpl()); the TCP  *)
(* client, the serial port and the UDP socket report no data while they are  *)
(* shown disconnected.  It does not hold of the SSL client, which a late     *)
(* negotiation leaves connected, nor of the UDP socket's assertion after a   *)
(* loss (ConnectFindsClosed); and the connections a TCP server or proxy has  *)
(* accepted outlive its disconnection, so that nothing is said of their data.*)
StatusIsDevice ==
  /\ subject = "tcp_server" => TcpServer!ConnectedIsListening
  /\ subject = "tcp_proxy" => TcpProxy!ConnectedIsListening
  /\ subject \in {"tcp_client", "ssl_client"} => TcpClient!ConnectedIsLinked
  /\ subject = "tcp_client" => TcpClient!ConnectFindsNone /\ TcpClient!NoDataAfterDisconnect
  /\ subject = "serial" => Serial!StatusIsPort /\ Serial!NoDataAfterDisconnect
  /\ subject = "udp_proxy" => UdpProxy!SocketsFollowStatus
  /\ subject = "udp_generic" => UdpGeneric!DisconnectedIsDead

(* Whoever may click "Connect socket" finds the socket as its                *)
(* socketConnectImpl() asserts it to be: "assert(Already_connected)" and     *)
(* "assert(!m_socket.isOpen())" are never reached.                           *)
ConnectFindsClosed ==
  /\ subject \in {"tcp_client", "ssl_client"} => TcpClient!ConnectFindsNone
  /\ subject = "udp_generic" => UdpGeneric!ConnectFindsClosed

(* A client of the TCP server gets what is sent after it was accepted, every *)
(* piece once and in order, whoever comes and goes around it; the TCP proxy  *)
(* forwards everything its clients send, also what they sent before the      *)
(* remote host was there.                                                    *)
StreamsArrive ==
  /\ subject = "tcp_server" => TcpServer!ClientsGetTheStream
  /\ subject = "tcp_proxy" => TcpProxy!ForwardsEverything

(* The UDP proxy carries every datagram once, also the first, which comes    *)
(* before there is a socket to carry it.                                     *)
CarriesEverything == subject = "udp_proxy" => UdpProxy!CarriesEverything

(* The time to live a message has asked for is not that of the next.         *)
TtlAsAsked == subject = "udp_generic" => UdpGeneric!TtlAsAsked

(* The UDP socket without a remote host talks to whoever spoke first.        *)
TalksToTheFirst == subject = "udp_generic" => UdpGeneric!TalksToTheFirst

(* The echo returns every piece once and in order, however its rounds nest,  *)
(* and nothing waits for a timer that is not armed.                          *)
EchoesInOrder == subject = "echo" => Echo!EchoesInOrder /\ Echo!WaitingIsServed

(* What reaches the socket has been through the filters below its sender,    *)
(* each once and from the top to the bottom, whatever sent it and in         *)
(* whatever call or error box.                                               *)
PathIsChain == subject \in {"chain", "boxed_chain"} => Chain!PathIsChain

(* Without boxes the protocol gets the data in the order they came, and when *)
(* nothing is being reported the filters, the protocol and the buttons have  *)
(* the status of the socket.                                                 *)
ChainAgrees == subject = "chain" => Chain!DataInOrder /\ Chain!StatusAgrees

(* What is sent comes back, or the echo socket is stopped.                   *)
EverythingComesBack == subject = "echo" => Echo!EverythingComesBack
=============================================================================
