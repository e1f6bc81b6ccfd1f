----------------------------- MODULE ToolsSocket -----------------------------
(***************************************************************************)
(* The base class of all sockets (lib/src/ToolsSocket.cpp): whether the      *)
(* socket runs, whether it believes to be connected, and what it has told    *)
(* the rest of the tool.  The modules of the sockets extend this one and     *)
(* add the device underneath; each of their actions makes one of the steps   *)
(* below.                                                                    *)
(***************************************************************************)
EXTENDS Integers, Sequences

VARIABLES
  running,      (* m_running                                               *)
  connected,    (* m_connected                                             *)
  told,         (* the status reported last: it decides which of the       *)
                (* buttons "Connect socket", "Disconnect socket" is there  *)
  stray         (* history: data were reported while the tool had been     *)
                (* told that the socket is disconnected                    *)

socketVars == <<running, connected, told, stray>>

SocketTypeOK == {running, connected, told, stray} \subseteq BOOLEAN

SocketInit == running = FALSE /\ connected = FALSE /\ told = FALSE /\ stray = FALSE

(* start(): no plug-in overrides startImpl().                               *)
Started ==
  /\ ~running
  /\ running' = TRUE
  /\ UNCHANGED <<connected, told, stray>>

(* socketConnect(), when socketConnectImpl() has returned ok.               *)
Connected(ok) ==
  /\ connected' = ok /\ told' = ok
  /\ UNCHANGED <<running, stray>>

(* socketDisconnect(), and reportDisconnected() when the device is lost.    *)
Disconnected ==
  /\ connected' = FALSE /\ told' = FALSE
  /\ UNCHANGED <<running, stray>>

(* stop(): a connected socket is disconnected first.                        *)
Stopped ==
  /\ running /\ running' = FALSE
  /\ connected' = FALSE /\ told' = IF connected THEN FALSE ELSE told
  /\ UNCHANGED stray

(* reportDataReceived()                                                     *)
DataReported ==
  /\ stray' = (stray \/ (running /\ ~told))
  /\ UNCHANGED <<running, connected, told>>

(* The buttons of the main toolbar: connectSocketClicked(),                 *)
(* disconnectSocketClicked().                                               *)
ConnectClicked == running /\ ~told
DisconnectClicked == running /\ told
=============================================================================
