---------------------------- MODULE SerialSocket -----------------------------
(***************************************************************************)
(* The serial port (plugin/serial_socket/SerialSocket.cpp).  Its settings    *)
(* are taken when it is opened; it may fail to open, and be pulled out.      *)
(***************************************************************************)
EXTENDS ToolsSocket

CONSTANTS
  Settings,     (* what the port can be set to                             *)
  MaxData       (* bound: pieces of data not read yet                      *)

VARIABLES
  settings,     (* m_name, m_baud, m_dataBits, m_parity, m_stopBits,       *)
                (* m_flowControl                                           *)
  inForce,      (* the settings the port works with                        *)
  open,         (* m_serial.isOpen()                                       *)
  inbox         (* pieces of data not read yet                             *)

vars == <<socketVars, settings, inForce, open, inbox>>

Init == /\ SocketInit /\ settings \in Settings /\ inForce = settings
        /\ open = FALSE /\ inbox = 0

Start == Started /\ UNCHANGED <<settings, inForce, open, inbox>>

Configure == settings' \in Settings /\ UNCHANGED <<socketVars, inForce, open, inbox>>

(* socketConnectImpl(): open() fails for a port that is not there, and for  *)
(* one that is open.                                                        *)
Connect ==
  /\ ConnectClicked
  /\ \E there \in BOOLEAN :
       LET ok == there /\ ~open
       IN  /\ Connected(ok) /\ open' = (open \/ ok)
           /\ inForce' = IF ok THEN settings ELSE inForce
  /\ UNCHANGED <<settings, inbox>>

(* The port is flushed only.                                                 *)
WrongClose == UNCHANGED <<open, inbox>>

(* socketDisconnectImpl()                                                   *)
Close == open' = FALSE /\ inbox' = 0

Disconnect == DisconnectClicked /\ Disconnected /\ Close /\ UNCHANGED <<settings, inForce>>

Stop ==
  /\ Stopped /\ UNCHANGED <<settings, inForce>>
  /\ IF connected THEN Close ELSE UNCHANGED <<open, inbox>>

Arrive == open /\ inbox < MaxData /\ inbox' = inbox + 1 /\ UNCHANGED <<socketVars, settings, inForce, open>>

PerformRead == inbox > 0 /\ inbox' = 0 /\ DataReported /\ UNCHANGED <<settings, inForce, open>>

(* The loss of the port is reported as an error and no more.                 *)
WrongReportLoss == UNCHANGED socketVars

ReportLoss == Disconnected

(* errorOccurred(): the error may have closed the port.                     *)
ErrorOccurred ==
  /\ open /\ open' \in BOOLEAN
  /\ IF open' THEN UNCHANGED <<socketVars, inbox>> ELSE ReportLoss /\ inbox' = 0
  /\ UNCHANGED <<settings, inForce>>

Next ==
  \/ Start \/ Configure \/ Connect \/ Disconnect \/ Stop \/ Arrive \/ PerformRead \/ ErrorOccurred

Spec == Init /\ [][Next]_vars

-----------------------------------------------------------------------------
(* Through failing opens, losses, disconnects and restarts the status the    *)
(* tool shows is the one of the port, so that it can always be opened again  *)
(* and what is sent has a port to go through.                                *)
StatusIsPort == (connected <=> open) /\ (running => told = connected)

(* A disconnected port reports no data.                                      *)
NoDataAfterDisconnect == ~stray
=============================================================================
