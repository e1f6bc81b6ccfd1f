----------------------------- MODULE EchoSocket ------------------------------
(***************************************************************************)
(* The echo socket (plugin/echo_socket/EchoSocket.cpp): what is sent waits   *)
(* for a timer and is then reported as received.  The report runs the whole  *)
(* receiving side, which may send again and may wait in an error box, where  *)
(* the timer finds the echo in the middle of its loop.                       *)
(***************************************************************************)
EXTENDS ToolsSocket

CONSTANTS
  MaxSent,      (* bound: pieces sent                                      *)
  MaxDepth      (* bound: nested rounds of sendDataPostponed()             *)

(* What the theorems of Transport_proofs need to know of the bounds.         *)
Bounds == MaxSent \in Nat /\ MaxDepth \in Nat

VARIABLES
  pending,      (* m_pendingData                                           *)
  timerActive,  (* m_timerActive                                           *)
  timer,        (* the zero timer runs, or its queued signal is on the way *)
  loops,        (* the rounds of sendDataPostponed() on the stack: each at *)
                (* its "test", in a "report" or past its error "box"       *)
  sent,         (* history: pieces sent, and                               *)
  echoed        (* those reported as received                              *)

vars == <<socketVars, pending, timerActive, timer, loops, sent, echoed>>

TypeOK ==
  /\ SocketTypeOK /\ pending \in Seq(1..MaxSent) /\ {timerActive, timer} \subseteq BOOLEAN
  /\ loops \in Seq({"test", "report", "box", "past"}) /\ Len(loops) <= MaxDepth
  /\ sent \in 0..MaxSent /\ echoed \in Seq(1..MaxSent)

Idle == loops = <<>>
Within(pcs) == ~Idle /\ loops[Len(loops)] \in pcs
Reporting == Within({"report", "box", "past"})

Init ==
  /\ SocketInit /\ pending = <<>> /\ timerActive = FALSE /\ timer = FALSE
  /\ loops = <<>> /\ sent = 0 /\ echoed = <<>>

(* It connects by itself, and there is no button to disconnect it.          *)
Start ==
  /\ Started /\ UNCHANGED <<pending, timerActive, timer, loops, sent, echoed>>

Connect ==
  /\ ConnectClicked /\ Idle /\ Connected(TRUE)
  /\ UNCHANGED <<pending, timerActive, timer, loops, sent, echoed>>

(* Other plug-ins are applied: the next start has a new socket, what was    *)
(* pending goes with the old one.                                           *)
Stop ==
  /\ Stopped /\ Idle
  /\ pending' = <<>> /\ timerActive' = FALSE /\ timer' = FALSE
  /\ sent' = 0 /\ echoed' = <<>> /\ UNCHANGED loops

(* sendDataImpl(): by the user, or by the protocol that answers a report.   *)
SendData ==
  /\ connected /\ sent < MaxSent
  /\ Idle \/ Reporting
  /\ sent' = sent + 1 /\ pending' = Append(pending, sent')
  /\ timerActive' = TRUE /\ timer' = (timer \/ ~timerActive)
  /\ UNCHANGED <<socketVars, loops, echoed>>

(* The flag is left set.                                                     *)
WrongRearm == UNCHANGED timerActive

Rearm == timerActive' = FALSE

(* sendDataPostponed() begins, from the event loop of the program or of a   *)
(* box.                                                                     *)
Timeout ==
  /\ timer /\ timer' = FALSE
  /\ Idle \/ Within({"box"})
  /\ Len(loops) < MaxDepth
  /\ Rearm /\ loops' = Append(loops, "test")
  /\ UNCHANGED <<socketVars, pending, sent, echoed>>

At(pc) == [loops EXCEPT ![Len(loops)] = pc]

(* The piece stays in the queue.                                             *)
WrongPop == UNCHANGED pending

Pop == pending' = Tail(pending)

Echo ==
  /\ Within({"test"}) /\ pending # <<>>
  /\ Pop /\ loops' = At("report")
  /\ DataReported /\ echoed' = Append(echoed, Head(pending))
  /\ UNCHANGED <<timerActive, timer, sent>>

OpenBox ==
  /\ Within({"report"}) /\ loops' = At("box")
  /\ UNCHANGED <<socketVars, pending, timerActive, timer, sent, echoed>>

CloseBox ==
  /\ Within({"box"}) /\ loops' = At("past")
  /\ UNCHANGED <<socketVars, pending, timerActive, timer, sent, echoed>>

Reported ==
  /\ Within({"report", "past"}) /\ loops' = At("test")
  /\ UNCHANGED <<socketVars, pending, timerActive, timer, sent, echoed>>

Done ==
  /\ Within({"test"}) /\ pending = <<>>
  /\ loops' = SubSeq(loops, 1, Len(loops) - 1)
  /\ UNCHANGED <<socketVars, pending, timerActive, timer, sent, echoed>>

Next ==
  \/ Start \/ Connect \/ Stop \/ SendData \/ Timeout \/ Echo \/ OpenBox \/ CloseBox
  \/ Reported \/ Done

(* The event loop delivers the timer, handlers return, boxes are closed.    *)
Fairness ==
  /\ WF_vars(Timeout) /\ WF_vars(Echo) /\ WF_vars(CloseBox)
  /\ WF_vars(Reported) /\ WF_vars(Done)

Spec == Init /\ [][Next]_vars /\ Fairness

-----------------------------------------------------------------------------
(* Every piece comes back once and in the order it was sent, however the     *)
(* rounds of the timer nest in the boxes of the receiving side.              *)
EchoesInOrder == echoed \o pending = [k \in 1..sent |-> k]

(* Nothing waits for a timer that is not armed: the flag, the timer and the  *)
(* loops on the stack agree.                                                 *)
WaitingIsServed ==
  /\ timerActive <=> timer
  /\ pending # <<>> => timer \/ ~Idle

(* What is sent comes back, or the socket is stopped.                        *)
EverythingComesBack == \A k \in 1..MaxSent : sent = k ~> (Len(echoed) >= k \/ ~running)
=============================================================================
