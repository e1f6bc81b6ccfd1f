-------------------------- MODULE UdpGenericSocket ---------------------------
(***************************************************************************)
(* The UDP socket (plugin/udp_socket/generic/UdpGenericSocket.cpp).  With a  *)
(* remote host it talks to that host; without one it waits on its local port *)
(* for a first datagram and talks to whoever sent it.  A message may ask to  *)
(* be broadcast, with a time to live of its own.                             *)
(***************************************************************************)
EXTENDS ToolsSocket, Settings

CONSTANTS
  Peers,        (* the programs that send datagrams                        *)
  Ttls,         (* times to live a message may ask for                     *)
  OsTtl,        (* the one the operating system starts with                *)
  MaxInbox      (* bound: datagrams not read yet                           *)

VARIABLES
  settings,     (* whether m_host, m_port and m_localPort are set          *)
  open,         (* m_socket.isOpen()                                       *)
  dead,         (* the open device has lost its connection and with it     *)
                (* whatever could carry data                               *)
  peer,         (* who m_socket is connected to                            *)
  inbox,        (* the senders of the datagrams not read yet               *)
  ttl,          (* the option MulticastTtlOption of m_socket               *)
  defaultTtl,   (* m_defaultTtl, 0 until it is known                       *)
  first,        (* history: the sender of the first datagram read          *)
  last          (* history: what was sent last, with its time to live      *)

deviceVars == <<open, dead, peer, inbox, ttl>>
vars == <<socketVars, settings, deviceVars, defaultTtl, first, last>>

NoPeer == "none"
Host == "host"
AssumedTtl == 64
AllTtls == Ttls \cup {OsTtl, AssumedTtl}

TypeOK ==
  /\ SocketTypeOK /\ settings \in [host: BOOLEAN, port: BOOLEAN, local: BOOLEAN]
  /\ {open, dead} \subseteq BOOLEAN /\ peer \in Peers \cup {NoPeer, Host} /\ inbox \in Seq(Peers \cup {Host})
  /\ ttl \in AllTtls /\ defaultTtl \in {0, OsTtl, AssumedTtl}
  /\ first \in Peers \cup {NoPeer, Host}
  /\ last \in [asked: AllTtls \cup {0}, ttl: AllTtls \cup {0}]

Init ==
  /\ SocketInit /\ settings \in [host: BOOLEAN, port: BOOLEAN, local: BOOLEAN]
  /\ open = FALSE /\ dead = FALSE /\ peer = NoPeer /\ inbox = <<>> /\ ttl = OsTtl /\ defaultTtl = 0
  /\ first = NoPeer /\ last = [asked |-> 0, ttl |-> 0]

Start == Started /\ UNCHANGED <<settings, deviceVars, defaultTtl, first, last>>

(* socketConnectImpl() refuses what cannot work ...                         *)
Refused == IF settings.host THEN ~settings.port ELSE ~settings.local

(* ... asserts that the device is closed, which ends the program where it is *)
(* not, but reports a failing bind or connect and goes on: the device may be *)
(* closed, or open and not connected, when it returns true.  The time to    *)
(* live of the system is asked for once.                                    *)
Connect ==
  /\ ConnectClicked
  /\ IF Refused
     THEN Connected(FALSE) /\ UNCHANGED <<settings, deviceVars, defaultTtl, first>>
     ELSE /\ ~open /\ Connected(TRUE) /\ open' \in BOOLEAN /\ dead' = FALSE
          /\ peer' \in IF settings.host /\ open' THEN {NoPeer, Host} ELSE {NoPeer}
          /\ ttl' = OsTtl /\ inbox' = <<>> /\ first' = NoPeer
          /\ defaultTtl' = IF defaultTtl # 0 THEN defaultTtl
                           ELSE IF open' THEN OsTtl ELSE AssumedTtl
          /\ UNCHANGED settings
  /\ UNCHANGED last

(* The settings of the dialog and of other plug-ins.                        *)
Configure ==
  /\ settings' \in [host: BOOLEAN, port: BOOLEAN, local: BOOLEAN]
  /\ UNCHANGED <<socketVars, deviceVars, defaultTtl, first, last>>

(* The connection is given up and the device left open.                      *)
WrongClose == peer' = NoPeer /\ UNCHANGED <<open, dead, inbox, ttl>>

Close == open' = FALSE /\ dead' = FALSE /\ peer' = NoPeer /\ inbox' = <<>> /\ UNCHANGED ttl

Disconnect ==
  /\ DisconnectClicked /\ Disconnected /\ Close
  /\ UNCHANGED <<settings, defaultTtl, first, last>>

Stop ==
  /\ Stopped /\ UNCHANGED <<settings, defaultTtl, first, last>>
  /\ IF connected THEN Close ELSE UNCHANGED deviceVars

(* socketDisconnected() reports the loss and leaves the device open: it is   *)
(* the library that has given the connection up.                            *)
Lose ==
  /\ open /\ peer # NoPeer /\ Disconnected
  /\ dead' = TRUE /\ peer' = NoPeer /\ inbox' = <<>>
  /\ UNCHANGED <<settings, open, ttl, defaultTtl, first, last>>

(* A connected socket gets datagrams of its peer only.                      *)
Arrive(p) ==
  /\ open /\ ~dead /\ Len(inbox) < MaxInbox /\ peer \in {NoPeer, p}
  /\ inbox' = Append(inbox, p)
  /\ UNCHANGED <<socketVars, settings, open, dead, peer, ttl, defaultTtl, first, last>>

(* The sender of every datagram becomes the peer.                            *)
WrongAdopt(p) == p

(* The first sender is the one the tool talks to.                           *)
Adopt(p) == IF peer = NoPeer THEN p ELSE peer

(* One round of readFromSocket(): the sender is connected to after its      *)
(* datagram was reported, so that an answer given at once has no receiver.  *)
ReadFromSocket ==
  /\ inbox # <<>> /\ DataReported
  /\ inbox' = Tail(inbox) /\ peer' = Adopt(Head(inbox))
  /\ first' = IF first = NoPeer /\ peer = NoPeer THEN Head(inbox) ELSE first
  /\ UNCHANGED <<settings, open, dead, ttl, defaultTtl, last>>

BroadcastTtlKeys ==
  <<"network.broadcast_radius", "network.broadcast_ttl", "udp.broadcast_radius", "udp.broadcast_ttl">>

BroadcastTtl(props) == Override(defaultTtl, BroadcastTtlKeys, props)

(* What the message says, whichever plug-ins have filled it in: the keys of  *)
(* UDP are the closer ones.                                                  *)
Asked(props) ==
  CASE "udp.broadcast_radius" \in DOMAIN props -> props["udp.broadcast_radius"]
    [] "udp.broadcast_radius" \notin DOMAIN props /\ "network.broadcast_ttl" \in DOMAIN props
         -> props["network.broadcast_ttl"]
    [] OTHER -> defaultTtl

(* sendDataImpl() of a message that asks for a broadcast.                   *)
Broadcast(props) ==
  /\ connected /\ open /\ settings.port
  /\ ttl' = BroadcastTtl(props)
  /\ last' = [asked |-> Asked(props), ttl |-> ttl']
  /\ UNCHANGED <<socketVars, settings, open, dead, peer, inbox, defaultTtl, first>>

(* The option is left as the last broadcast has set it.                      *)
WrongUnicastTtl == ttl

UnicastTtl == defaultTtl

Unicast ==
  /\ connected /\ open
  /\ ttl' = UnicastTtl
  /\ last' = IF peer = NoPeer THEN last ELSE [asked |-> defaultTtl, ttl |-> ttl']
  /\ UNCHANGED <<socketVars, settings, open, dead, peer, inbox, defaultTtl, first>>

(* The maps a message may carry: up to two of the keys.                     *)
PropMaps == UNION {[ks -> Ttls] : ks \in SUBSET {"network.broadcast_ttl", "udp.broadcast_radius"}}

Next ==
  \/ Start \/ Connect \/ Configure \/ Disconnect \/ Stop \/ Lose \/ ReadFromSocket \/ Unicast
  \/ \E p \in Peers \cup {Host} : Arrive(p)
  \/ \E props \in PropMaps : Broadcast(props)

Spec == Init /\ [][Next]_vars

-----------------------------------------------------------------------------
(* The time to live one message has asked for is not the one of the next:    *)
(* whatever was broadcast before, a datagram to the peer goes out with the   *)
(* default, and a broadcast with what its own properties say.                *)
TtlAsAsked == last.ttl = last.asked

(* Without a remote host the tool talks to whoever spoke first since it was  *)
(* connected, however many others have sent in the meantime.                 *)
TalksToTheFirst == first # NoPeer => peer \in {first, NoPeer}

(* A socket that is shown disconnected can get no data: it is closed, or it  *)
(* was left open by a loss and has nothing under it any more.  It reports    *)
(* none either.                                                              *)
DisconnectedIsDead == (ConnectClicked /\ open => dead) /\ ~stray

(* Whoever may connect finds the device closed: the assertion of             *)
(* socketConnectImpl(), which fails after a loss.                            *)
ConnectFindsClosed == ConnectClicked /\ ~Refused => ~open
=============================================================================
