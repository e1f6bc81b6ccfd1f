---------------------------- MODULE SendSchedule ----------------------------
(***************************************************************************)
(* What ToolsMsgSendMgr promises to whoever calls start(): every message   *)
(* of the send list first goes out `delay' milliseconds after the message  *)
(* before it, goes out again `repeat' milliseconds after its own last      *)
(* transmission, and goes out `count' times in all (0: until stopped).     *)
(* Time is logical: it moves from one due time straight to the next.       *)
(***************************************************************************)
EXTENDS Integers, Sequences

CONSTANT SendLists      (* the send lists start() may be called with       *)

VARIABLES
  planning,             (* is start() still taking messages over?          *)
  todo,                 (* the messages it has still to take over          *)
  agenda                (* the transmissions ahead, one item per message   *)

vars == <<planning, todo, agenda>>

(* A message is sent again while it has a period and transmissions left.   *)
Again(x) == x.repeat > 0 /\ (x.count = 0 \/ x.count > 1)

Rescheduled(x) ==
  [id |-> x.id, wait |-> x.repeat, repeat |-> x.repeat,
   count |-> IF x.count = 0 THEN 0 ELSE x.count - 1]

Planned(m, wait) ==
  [id |-> m.id, wait |-> wait, repeat |-> m.repeat, count |-> m.count]

Latest(x) == x \in agenda /\ \A y \in agenda : y.wait <= x.wait

Init == planning = FALSE /\ todo = <<>> /\ agenda = {}

Open(list) ==
  /\ ~planning /\ agenda = {}
  /\ planning' = TRUE
  /\ todo' = list
  /\ UNCHANGED agenda

(* A message is due `delay' after the latest one planned so far.           *)
Plan ==
  /\ planning /\ todo # <<>>
  /\ \/ /\ agenda = {}
        /\ agenda' = {Planned(Head(todo), Head(todo).delay)}
     \/ \E x \in agenda :
          /\ Latest(x)
          /\ agenda' = agenda \cup {Planned(Head(todo), x.wait + Head(todo).delay)}
  /\ todo' = Tail(todo)
  /\ UNCHANGED planning

Close ==
  /\ planning /\ todo = <<>>
  /\ planning' = FALSE
  /\ UNCHANGED <<todo, agenda>>

(* A message that is due is sent, and planned again when it repeats.       *)
Send(x) ==
  /\ ~planning
  /\ x \in agenda /\ x.wait = 0
  /\ agenda' = (agenda \ {x}) \cup (IF Again(x) THEN {Rescheduled(x)} ELSE {})
  /\ UNCHANGED <<planning, todo>>

(* Nothing is due: time moves on to the earliest item, never past it.      *)
Advance ==
  /\ ~planning
  /\ \E first \in agenda :
       /\ first.wait > 0
       /\ \A y \in agenda : first.wait <= y.wait
       /\ agenda' = {[y EXCEPT !.wait = y.wait - first.wait] : y \in agenda}
  /\ UNCHANGED <<planning, todo>>

(* The sending is stopped: whatever was ahead is forgotten.                *)
Cancel ==
  /\ ~planning
  /\ agenda' = {}
  /\ UNCHANGED <<planning, todo>>

Next ==
  \/ \E list \in SendLists : Open(list)
  \/ Plan \/ Close \/ Advance \/ Cancel
  \/ \E x \in agenda : Send(x)

Spec == Init /\ [][Next]_vars
=============================================================================
