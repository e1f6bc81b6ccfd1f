---------------------------- MODULE ClientSocket -----------------------------
(***************************************************************************)
(* The TCP/IP client and the SSL client                                      *)
(* (plugin/tcp_socket/client/TcpClientSocket.cpp,                            *)
(* plugin/ssl_socket/client/SslClientSocket.cpp): one socket of the library, *)
(* which connects while socketConnectImpl() waits for it.  The two differ in *)
(* what the wait leaves behind when it gives up.                             *)
(***************************************************************************)
EXTENDS ToolsSocket

CONSTANTS
  Ssl,          (* the SSL client; the TCP client otherwise                *)
  MaxData       (* bound: pieces of data sent, and not read yet            *)

VARIABLES
  settings,     (* m_host and m_port: whether they are set                 *)
  link,         (* m_socket.state(): "none", "shake" while the encryption  *)
                (* is negotiated over a connection that is there, "up"     *)
  box,          (* socketErrorOccurred() is in the error box: the signal    *)
                (* is not answered yet, and the user can do nothing else   *)
  inbox,        (* pieces of data not read yet                             *)
  sent,         (* history: pieces sent since the tool was told that the   *)
  arrived       (* socket is connected, and those the other end has got    *)

deviceVars == <<link, box, inbox, sent, arrived>>
vars == <<socketVars, settings, deviceVars>>

TypeOK ==
  /\ SocketTypeOK /\ settings \in [host: BOOLEAN, port: BOOLEAN]
  /\ link \in (IF Ssl THEN {"none", "shake", "up"} ELSE {"none", "up"})
  /\ box \in BOOLEAN /\ {inbox, sent, arrived} \subseteq 0..MaxData

Init ==
  /\ SocketInit /\ settings \in [host: BOOLEAN, port: BOOLEAN]
  /\ link = "none" /\ box = FALSE /\ inbox = 0 /\ sent = 0 /\ arrived = 0

Start == ~box /\ Started /\ UNCHANGED <<settings, deviceVars>>

(* The settings may be edited whenever no box is open.                      *)
Configure ==
  /\ ~box /\ settings' \in [host: BOOLEAN, port: BOOLEAN]
  /\ UNCHANGED <<socketVars, deviceVars>>

(* What waitForConnected(1000) leaves: refused or late, the library gives   *)
(* the connection up.                                                       *)
AfterWait == {"none", "up"}

(* What waitForEncrypted(3000) leaves: when it is late it returns and the   *)
(* negotiation goes on.                                                     *)
AfterSslWait == {"none", "up", "shake"}

Waited == IF Ssl THEN AfterSslWait ELSE AfterWait

Succeeds(state) == state = "up"

(* socketConnectImpl(): an existing connection is refused, and the TCP      *)
(* client asks for a port; an empty host becomes the local one.  An error    *)
(* box on the way changes nothing: the socket is shown disconnected already, *)
(* and the box keeps the user from everything else.                         *)
Connect ==
  /\ ~box /\ ConnectClicked
  /\ IF link # "none" \/ (~Ssl /\ ~settings.port)
     THEN Connected(FALSE) /\ UNCHANGED <<settings, deviceVars>>
     ELSE /\ settings' = [settings EXCEPT !.host = TRUE]
          /\ link' \in Waited /\ Connected(Succeeds(link'))
          /\ sent' = 0 /\ arrived' = 0 /\ UNCHANGED <<box, inbox>>

(* The negotiation ends when nobody waits for it any more.                  *)
Encrypted ==
  /\ link = "shake" /\ link' = "up"
  /\ UNCHANGED <<socketVars, settings, box, inbox, sent, arrived>>

(* The connection is flushed and left open.                                 *)
WrongClose == arrived' = sent /\ UNCHANGED <<link, inbox>>

(* socketDisconnectImpl(): flushed and closed, with no signal on the way.   *)
Close == link' = "none" /\ inbox' = 0 /\ arrived' = sent

Disconnect ==
  /\ ~box /\ DisconnectClicked /\ Disconnected /\ Close
  /\ UNCHANGED <<settings, box, sent>>

Stop ==
  /\ ~box /\ Stopped /\ UNCHANGED <<settings, box, sent>>
  /\ IF connected THEN Close ELSE UNCHANGED <<link, inbox, arrived>>

(* The disconnection is not reported.                                        *)
WrongReportLoss == UNCHANGED socketVars

(* socketDisconnected(), and the end of socketErrorOccurred().              *)
ReportLoss == Disconnected

(* The connection ends from outside; what had arrived has been read.  It may *)
(* do so while the box of an error is open.                                 *)
Lose ==
  /\ link # "none" /\ inbox = 0
  /\ link' = "none" /\ ReportLoss /\ UNCHANGED <<settings, box, inbox, sent, arrived>>

(* socketErrorOccurred(): the error may have ended the connection.  The box  *)
(* comes first; a socket that does not run has none.                        *)
ErrorOccurs ==
  /\ link # "none" /\ inbox = 0 /\ running /\ ~box
  /\ box' = TRUE /\ link' \in {link, "none"}
  /\ UNCHANGED <<socketVars, settings, inbox, sent, arrived>>

(* The user closes the box: only now the state is looked at.                *)
ErrorShown ==
  /\ box /\ box' = FALSE
  /\ IF link = "none" THEN ReportLoss ELSE UNCHANGED socketVars
  /\ UNCHANGED <<settings, link, inbox, sent, arrived>>

Arrive ==
  /\ link = "up" /\ inbox < MaxData /\ inbox' = inbox + 1
  /\ UNCHANGED <<socketVars, settings, link, box, sent, arrived>>

ReadFromSocket ==
  /\ inbox > 0 /\ inbox' = 0
  /\ DataReported /\ UNCHANGED <<settings, link, box, sent, arrived>>

(* sendDataImpl(), and the library that writes what it was given.           *)
SendData ==
  /\ connected /\ sent < MaxData /\ sent' = sent + 1
  /\ UNCHANGED <<socketVars, settings, link, box, inbox, arrived>>

Written ==
  /\ link = "up" /\ arrived < sent /\ arrived' = arrived + 1
  /\ UNCHANGED <<socketVars, settings, link, box, inbox, sent>>

Next ==
  \/ Start \/ Configure \/ Connect \/ Encrypted \/ Disconnect \/ Stop \/ Lose
  \/ ErrorOccurs \/ ErrorShown
  \/ Arrive \/ ReadFromSocket \/ SendData \/ Written

Spec == Init /\ [][Next]_vars

-----------------------------------------------------------------------------
(* Whoever may click "Connect socket" finds no connection: the assertion     *)
(* Already_connected of socketConnectImpl().  The SSL client fails it after   *)
(* a negotiation that took too long.                                         *)
ConnectFindsNone == ~box /\ ConnectClicked => link = "none"

(* While the tool shows a connected socket there is a connection to carry    *)
(* what it sends, or the user is being told that there is none: neither a    *)
(* failed wait nor a loss goes unnoticed.                                    *)
ConnectedIsLinked == connected => told /\ (link = "up" \/ box)

(* A disconnected socket reports no data, whatever was on its way when it    *)
(* was disconnected.  This, too, is the TCP client's: what the SSL client    *)
(* has left behind ends its negotiation and delivers.                        *)
NoDataAfterDisconnect == ~stray
=============================================================================
