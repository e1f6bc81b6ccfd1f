---------------------------- MODULE SocketConfig -----------------------------
(***************************************************************************)
(* The settings of a socket plug-in: kept by the socket object, shown and    *)
(* edited by the widget of the plug-ins dialog (<Name>ConfigWidget.cpp),      *)
(* saved to and loaded from the configuration file (<Name>Plugin.cpp), and    *)
(* changed by other plug-ins (applyInterPluginConfigImpl() of the socket).    *)
(* A port is 0 or a number up to MaxPort; of the other settings it matters    *)
(* only which of two values they have; 0 is the empty string or the default.  *)
(***************************************************************************)
EXTENDS Naturals, Sequences, FiniteSets, Settings

CONSTANTS
  MaxPort,      (* the greatest value of PortType                          *)
  MaxChanges    (* bound: edits of settings or file, requests of plug-ins   *)

VARIABLES
  plugin,       (* which of the plug-ins it is                             *)
  config,       (* the members of the socket: setting -> value             *)
  shown,        (* what the widget shows; Closed when there is none        *)
  file,         (* the map in the configuration file                       *)
  saved,        (* history: the settings when the file was saved           *)
  restored,     (* history: the file as saved has just been loaded         *)
  asked,        (* history: the map another plug-in has just sent           *)
  untold,       (* history: settings changed without a word to the widget   *)
  changes       (* bound counter                                           *)

vars == <<plugin, config, shown, file, saved, restored, asked, untold, changes>>

Nothing == [s \in {} |-> 0]
Closed == Nothing
Damaged == 9                        (* a value that is not one of the enum  *)

PortSettings == {"port", "localPort", "remotePort"}

-----------------------------------------------------------------------------
(* The widgets: what their boxes can show.  A spin box of a TCP port starts   *)
(* with 1; the baud rate ends at 500000 (2 stands for more).                 *)
Texts == {0, 1}
AnyPort == 0 .. MaxPort
TcpPort == 1 .. MaxPort

TcpServerWidget == [port |-> TcpPort]
TcpClientWidget == [host |-> Texts, port |-> TcpPort]
TcpProxyWidget == [port |-> TcpPort, remoteHost |-> Texts, remotePort |-> TcpPort]
UdpGenericWidget == [host |-> Texts, port |-> AnyPort, localPort |-> AnyPort, broadcastMask |-> Texts]
UdpProxyWidget == [host |-> Texts, port |-> AnyPort, localPort |-> AnyPort]

(* A list has the values its map names, the others are lines and spin boxes.  *)
SerialLists == {"parity", "stopBits", "flowControl"}
SerialBoxes == {"name", "baud", "dataBits"}
SerialWidget == [s \in SerialLists \cup SerialBoxes |-> {0, 1}]

SslLists == {"caDirFormat", "caFileFormat", "verifyMode", "protocol", "certFormat", "privKeyAlg", "privKeyFormat"}
SslLines == {"host", "caDir", "caFile", "verifyName", "certFile", "privKeyFile", "privKeyPass"}
SslWidget == [s \in SslLists \cup SslLines \cup {"port"} |-> IF s = "port" THEN TcpPort ELSE Texts]

WidgetOf ==
  [tcp_server |-> TcpServerWidget, tcp_client |-> TcpClientWidget, tcp_proxy |-> TcpProxyWidget,
   udp_generic |-> UdpGenericWidget, udp_proxy |-> UdpProxyWidget, serial |-> SerialWidget,
   ssl_client |-> SslWidget]

Plugins == DOMAIN WidgetOf
Own == DOMAIN WidgetOf[plugin]
BoxRange(s) == WidgetOf[plugin][s]

-----------------------------------------------------------------------------
(* getCurrentConfigImpl(): what the file gets; the SSL passphrase is left out. *)
TcpServerStored == {"port"}
TcpClientStored == {"host", "port"}
TcpProxyStored == {"port", "remoteHost", "remotePort"}
UdpGenericStored == {"host", "port", "localPort", "broadcastMask"}

(* The local port is not among the entries.                                  *)
WrongUdpProxyStored == {"host", "port"}

UdpProxyStored == {"host", "port", "localPort"}
SerialStored == {"name", "baud", "dataBits", "parity", "stopBits", "flowControl"}
SslStored == DOMAIN SslWidget \ {"privKeyPass"}

Stored ==
  [tcp_server |-> TcpServerStored, tcp_client |-> TcpClientStored, tcp_proxy |-> TcpProxyStored,
   udp_generic |-> UdpGenericStored, udp_proxy |-> UdpProxyStored, serial |-> SerialStored,
   ssl_client |-> SslStored][plugin]

-----------------------------------------------------------------------------
(* reconfigureImpl(): the settings taken from the file.  Server and proxy     *)
(* take all their entries or none, the others each one they find; the serial  *)
(* port looks at the values too, and takes no baud rate of 0.                 *)
TcpServerTaken == IF TcpServerStored \subseteq DOMAIN file THEN file ELSE Nothing
TcpClientTaken == file
TcpProxyTaken == IF TcpProxyStored \subseteq DOMAIN file THEN file ELSE Nothing
UdpGenericTaken == file
UdpProxyTaken == file

(* The rate is compared with the wrong bound, and 1 is not taken.             *)
WrongValid(s) == file[s] # Damaged /\ (s = "baud" => file[s] > 1)

Valid(s) == file[s] # Damaged /\ (s = "baud" => file[s] > 0)

SerialTaken == [s \in {r \in DOMAIN file : Valid(r)} |-> file[s]]

(* The file of the private key is read from the entry of the certificate.     *)
SslTaken ==
  [s \in DOMAIN file |-> IF s # "privKeyFile" THEN file[s]
                         ELSE IF "certFile" \in DOMAIN file THEN file["certFile"] ELSE 0]

Taken ==
  CASE plugin = "tcp_server" -> TcpServerTaken [] plugin = "tcp_client" -> TcpClientTaken
    [] plugin = "tcp_proxy" -> TcpProxyTaken [] plugin = "udp_generic" -> UdpGenericTaken
    [] plugin = "udp_proxy" -> UdpProxyTaken [] plugin = "serial" -> SerialTaken
    [] plugin = "ssl_client" -> SslTaken

-----------------------------------------------------------------------------
(* applyInterPluginConfigImpl(): the keys other plug-ins may use for a        *)
(* setting, the last one wins.                                               *)
Host(own) == <<"network.host", own>>
Port(own) == <<"network.port", own>>
LocalPort(own) == <<"network.local_port", own>>

TcpServerKeys == [port |-> <<"network.local_port", "network.port", "tcp.local_port", "tcp.port">>]
TcpClientKeys == [host |-> Host("tcp.host"), port |-> Port("tcp.port")]
TcpProxyKeys == [remoteHost |-> Host("tcp.host"), remotePort |-> Port("tcp.port"), port |-> LocalPort("tcp.local_port")]

(* The port is set for both kinds of keys.                                    *)
UdpGenericKeys ==
  [host |-> Host("udp.host"), port |-> <<"network.port", "udp.port", "network.local_port", "udp.local_port">>,
   broadcastMask |-> <<"network.broadcast_mask", "udp.broadcast_mask">>]
UdpProxyKeys == [host |-> Host("udp.host"), port |-> Port("udp.port"), localPort |-> LocalPort("udp.local_port")]
SslKeys == [host |-> Host("ssl.host"), port |-> Port("ssl.port"), verifyName |-> <<"ssl.verify_name">>]

Keys ==
  [tcp_server |-> TcpServerKeys, tcp_client |-> TcpClientKeys, tcp_proxy |-> TcpProxyKeys,
   udp_generic |-> UdpGenericKeys, udp_proxy |-> UdpProxyKeys, serial |-> Nothing,
   ssl_client |-> SslKeys][plugin]

-----------------------------------------------------------------------------
(* A box shows the nearest value it has.                                     *)
Bounded(s, v) ==
  CASE v = 0 /\ BoxRange(s) = TcpPort -> 1
    [] s = "baud" /\ v > 1 -> 1
    [] OTHER -> v

Shown(c) == [s \in Own |-> Bounded(s, c[s])]

Init ==
  /\ plugin \in Plugins
  /\ config = [s \in Own |-> Bounded(s, 0)]
  /\ shown = Closed /\ file = Nothing /\ saved = Nothing /\ restored = FALSE
  /\ asked = Nothing /\ untold = {} /\ changes = 0

(* createConfigurationWidgetImpl(): the constructor shows the settings before *)
(* it connects to its boxes, so that nothing is written back.                *)
Open ==
  /\ shown = Closed /\ shown' = Shown(config) /\ untold' = {}
  /\ restored' = FALSE /\ asked' = Nothing
  /\ UNCHANGED <<plugin, config, file, saved, changes>>

Close ==
  /\ shown # Closed /\ shown' = Closed /\ untold' = {}
  /\ restored' = FALSE /\ asked' = Nothing
  /\ UNCHANGED <<plugin, config, file, saved, changes>>

(* The slots <setting>ValueChanged(), <setting>IndexChanged().                *)
Edit(s) ==
  /\ shown # Closed /\ changes < MaxChanges /\ changes' = changes + 1
  /\ \E v \in BoxRange(s) \ {shown[s]} :
       shown' = [shown EXCEPT ![s] = v] /\ config' = [config EXCEPT ![s] = v]
  /\ untold' = untold \ {s}
  /\ restored' = FALSE /\ asked' = Nothing
  /\ UNCHANGED <<plugin, file, saved>>

-----------------------------------------------------------------------------
Save ==
  /\ shown # Closed
  /\ file' = [s \in Stored |-> config[s]] /\ saved' = config
  /\ restored' = FALSE /\ asked' = Nothing
  /\ UNCHANGED <<plugin, config, shown, untold, changes>>

(* The file is text: it can be of another version, or edited by hand.         *)
EditFile(s) ==
  /\ changes < MaxChanges /\ changes' = changes + 1
  /\ s \in DOMAIN file /\ saved # Nothing /\ saved' = Nothing
  /\ \/ file' = [r \in DOMAIN file \ {s} |-> file[r]]
     \/ s \in PortSettings /\ file' = [file EXCEPT ![s] = 0]
     \/ s = "baud" /\ file' = [file EXCEPT ![s] = 2]
     \/ plugin = "serial" /\ s \notin {"name", "baud"} /\ file' = [file EXCEPT ![s] = Damaged]
  /\ restored' = FALSE /\ asked' = Nothing
  /\ UNCHANGED <<plugin, config, shown, untold>>

(* reconfigureImpl(), called by the dialog, which then builds its widgets     *)
(* anew, or at the start of the program, without a dialog.                    *)
Load ==
  /\ file # Nothing
  /\ config' = [s \in Own |-> IF s \in DOMAIN Taken THEN Taken[s] ELSE config[s]]
  /\ shown' = (IF shown = Closed THEN Closed ELSE Shown(config')) /\ untold' = {}
  /\ restored' = (saved # Nothing) /\ asked' = Nothing
  /\ UNCHANGED <<plugin, file, saved, changes>>

-----------------------------------------------------------------------------
(* The settings other plug-ins ask for while the dialog is open.  The number  *)
(* of a port is an int there and narrowed to PortType.                        *)
Narrow(s, v) == IF s \in PortSettings THEN v % (MaxPort + 1) ELSE v

(* The maps another plug-in may send for a setting: one or two of its keys.   *)
Props(s) ==
  LET values == IF s \in PortSettings THEN 0 .. MaxPort + 1 ELSE {0, 1}
      keys == {Keys[s][i] : i \in DOMAIN Keys[s]}
  IN  UNION {[ks -> values] : ks \in {k \in SUBSET keys : Cardinality(k) \in {1, 2}}}

(* A box that changes writes the value back that it had.                      *)
WrongWrittenBack(c, before, after) ==
  [s \in Own |-> IF before[s] # after[s] THEN before[s] ELSE c[s]]

(* The widget is told (sigConfigChanged) and shows the settings again, this   *)
(* time with its slots connected: a box that changes writes its value back.   *)
WrittenBack(c, before, after) ==
  [s \in Own |-> IF before[s] # after[s] THEN after[s] ELSE c[s]]

(* The widget of the SSL client is not connected to sigConfigChanged.         *)
Listens == plugin # "ssl_client"

ApplyInterPluginConfig(props) ==
  /\ changes < MaxChanges /\ changes' = changes + 1
  /\ shown # Closed
  /\ LET told == [s \in Own |-> IF s \in DOMAIN Keys
                                THEN Narrow(s, Override(config[s], Keys[s], props))
                                ELSE config[s]]
         now == Shown(told)
     IN IF Listens
        THEN shown' = now /\ config' = WrittenBack(told, shown, now) /\ UNCHANGED untold
        ELSE /\ config' = told /\ untold' = untold \cup {s \in Own : told[s] # config[s]}
             /\ UNCHANGED shown
  /\ asked' = props /\ restored' = FALSE
  /\ UNCHANGED <<plugin, file, saved>>

Next ==
  \/ Open \/ Close \/ Save \/ Load
  \/ \E s \in Own : Edit(s) \/ EditFile(s)
  \/ \E s \in DOMAIN Keys : \E props \in Props(s) : ApplyInterPluginConfig(props)

Spec == Init /\ [][Next]_vars

-----------------------------------------------------------------------------
(* What was saved comes back when it is loaded, whatever was done to the      *)
(* settings in between: in all plug-ins, but for a baud rate of 0, which the   *)
(* box offers and reconfigureImpl() does not take, the passphrase, which is    *)
(* not saved, and the SSL client's file of the private key, in whose place its *)
(* certificate comes back (SslClientSocketPlugin.cpp:161).                    *)
Back(s) ==
  IF s = "privKeyFile" THEN config[s] = saved["certFile"]
  ELSE s = "privKeyPass" \/ config[s] = saved[s] \/ (s = "baud" /\ saved[s] = 0)

RestoresSaved == restored => \A s \in Own : Back(s)

(* The widget shows what is set, through edits, loads and the requests of     *)
(* other plug-ins, as long as the value is one its box has.  The SSL client's  *)
(* is not told of those requests: what they have changed it shows when it is   *)
(* opened, loaded or edited the next time.                                   *)
ShownIsSet ==
  /\ shown # Closed =>
       \A s \in Own \ untold : config[s] \in BoxRange(s) => shown[s] = config[s]
  /\ Listens => untold = {}

(* A setting asked for by the key of the very protocol is the one that holds, *)
(* whatever the keys of the network say; the box may bound it.  It is not so   *)
(* of the generic UDP socket (UdpGenericSocket.cpp:367-375): a request for its *)
(* local port sets the port it sends to, over the key of that port.           *)
LocalPortKeys == {"network.local_port", "udp.local_port"}
UdpPort(s) == plugin = "udp_generic" /\ s = "port"
Closest(s) == IF UdpPort(s) THEN "udp.port" ELSE Keys[s][Len(Keys[s])]
Overridden(s) == UdpPort(s) /\ LocalPortKeys \cap DOMAIN asked # {}
HeldAs(s, v) == Bounded(s, config[s]) = Bounded(s, Narrow(s, v))

ClosestKeyWins ==
  /\ \A s \in DOMAIN Keys : Closest(s) \in DOMAIN asked /\ ~Overridden(s) => HeldAs(s, asked[Closest(s)])
  /\ plugin = "udp_generic" /\ "udp.local_port" \in DOMAIN asked => HeldAs("port", asked["udp.local_port"])
=============================================================================
