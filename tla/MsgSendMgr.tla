----------------------------- MODULE MsgSendMgr -----------------------------
(***************************************************************************)
(* ToolsMsgSendMgrImpl (lib/src/ToolsMsgSendMgrImpl.cpp): the paced sender  *)
(* behind the "Send" buttons.  m_msgsToSend is a delta queue: the delay of  *)
(* an entry counts from the entry before it, and the front entry is the one *)
(* the single-shot timer waits for.  A message that repeats is put back     *)
(* into the queue when it is taken out.                                     *)
(*                                                                          *)
(* The handler sendPendingAndWait() is taken one loop iteration at a time,  *)
(* with the program counter `pc'; nothing interleaves with it until it      *)
(* calls m_sendCallback, because the tool has a single thread.  The         *)
(* callback reaches a socket, which may report an error, which the main     *)
(* window shows in a modal QMessageBox: an event loop nested in the         *)
(* callback, in which the timer that was armed before the call fires.       *)
(***************************************************************************)
EXTENDS Integers, Sequences

CONSTANTS
  Msg,          (* identities of the messages of the send list             *)
  SendLists,    (* the lists the send list widget may hand to start()      *)
  TimerLimit,   (* 2^31: QTimer::start takes an int                        *)
  Dialogs,      (* may handing a message to the socket raise an error box? *)
  MaxFrames     (* bound: error boxes open at once (plus one)              *)

Entry == [id: Msg, delay: Nat, repeat: Nat, count: Nat]

ASSUME SendListsAssumption ==
  /\ SendLists \subseteq Seq(Entry)
  /\ \A list \in SendLists : \A i, j \in 1..Len(list) :
       list[i].id = list[j].id => i = j

ASSUME BoundsAssumption ==
  /\ TimerLimit \in Nat \ {0}
  /\ Dialogs \in BOOLEAN
  /\ MaxFrames \in Nat \ {0}

VARIABLES
  sending,      (* GuiAppMgr::m_sendState is not Idle                      *)
  protocol,     (* m_protocol is set                                       *)
  queue,        (* m_msgsToSend                                            *)
  timer,        (* the interval m_timer was armed with, Off when inactive  *)
  pc,           (* where the running handler is; "idle": an event loop runs *)
  input,        (* start(): messages not yet cloned                        *)
  batch,        (* nextMsgsToSend: entries the loop has not yet examined   *)
  ready,        (* nextMsgsToSend: ids of the entries already examined     *)
  at, rem,      (* std::find_if: iterator and newDelay                     *)
  frames,       (* running m_sendCallback calls, innermost first: each the *)
                (* ids it has not yet handed to the socket                 *)
  due, gap      (* history: time to each entry's transmission, counted     *)
                (* from the last timeout, and the delay the timer stands   *)
                (* for; the code reads neither                             *)

control == <<sending, protocol, timer, frames>>
locals  == <<input, batch, ready, at, rem>>
history == <<due, gap>>
vars    == <<sending, protocol, queue, timer, pc, input, batch, ready, at,
             rem, frames, due, gap>>

Off == -1

PCs == {"idle", "load", "splice", "requeue", "find", "deliver"}

TypeOK ==
  /\ sending \in BOOLEAN /\ protocol \in BOOLEAN
  /\ queue \in Seq(Entry) /\ input \in Seq(Entry) /\ batch \in Seq(Entry)
  /\ ready \in Seq(Msg) /\ frames \in Seq(Seq(Msg))
  /\ timer \in {Off} \cup 0..(TimerLimit - 1)
  /\ pc \in PCs
  /\ at \in Nat /\ rem \in Nat
  /\ due \in [Msg -> Nat] /\ gap \in Nat

-----------------------------------------------------------------------------
(* Operators named Wrong... are deliberate mistakes, each next to the        *)
(* definition it would replace; nothing refers to them.                      *)

(* A cast to a type of half the width.                                       *)
WrongToInt(d) ==
  LET low == d % TimerLimit
  IN  IF 2 * low < TimerLimit THEN low ELSE low - TimerLimit

(* static_cast<int>(delay): the low 32 bits, read as a signed number.       *)
ToInt(d) ==
  LET low == d % (2 * TimerLimit)
  IN  IF low < TimerLimit THEN low ELSE low - 2 * TimerLimit

(* QTimer::start refuses a negative interval and leaves the timer inactive. *)
TimerStart(d) == IF ToInt(d) < 0 THEN Off ELSE ToInt(d)

Reinsert(m) == m.repeat > 0 /\ (m.count = 0 \/ m.count > 1)

(* ToolsMsgDelay().setTo(d, *m)                                             *)
WithDelay(m, d) ==
  [id |-> m.id, delay |-> d, repeat |-> m.repeat, count |-> m.count]

(* The repetition is not counted.                                            *)
WrongReinserted(m, newDelay) == WithDelay(m, newDelay)

(* The entry put back: newDelay from its neighbour, one repetition fewer.   *)
Reinserted(m, newDelay) ==
  [id |-> m.id, delay |-> newDelay, repeat |-> m.repeat,
   count |-> IF m.count = 0 THEN 0 ELSE m.count - 1]

(* The neighbour's delay is not shortened.                                   *)
WrongInsert(q, i, e) ==
  [k \in 1..(Len(q) + 1) |->
     IF k < i THEN q[k] ELSE IF k = i THEN e ELSE q[k - 1]]

(* m_msgsToSend.insert(reinsertIter, e), after the entry at the iterator    *)
(* gave up e's delay.                                                       *)
Insert(q, i, e) ==
  [k \in 1..(Len(q) + 1) |->
     IF k < i THEN q[k]
     ELSE IF k = i THEN e
     ELSE IF k = i + 1 THEN WithDelay(q[i], q[i].delay - e.delay)
     ELSE q[k - 1]]

Queued == {queue[k].id : k \in 1..Len(queue)}

FrontDue == queue # <<>> /\ Head(queue).delay = 0

(* The search runs to the end of the queue.                                  *)
WrongPasses == at <= Len(queue)

(* The predicate of std::find_if rejects the entry at the iterator.         *)
Passes == at <= Len(queue) /\ rem >= queue[at].delay

LastDue == IF queue = <<>> THEN 0 ELSE due[queue[Len(queue)].id]

-----------------------------------------------------------------------------
Init ==
  /\ sending = FALSE /\ protocol = FALSE
  /\ queue = <<>> /\ timer = Off /\ pc = "idle"
  /\ input = <<>> /\ batch = <<>> /\ ready = <<>>
  /\ at = 0 /\ rem = 0
  /\ frames = <<>>
  /\ due = [m \in Msg |-> 0] /\ gap = 0

(* The buttons are enabled only in the idle send state and no error box is  *)
(* open: sendStartClicked() or sendStartAllClicked() reaches start().       *)
Start(list) ==
  /\ pc = "idle" /\ frames = <<>> /\ ~sending
  /\ sending' = TRUE
  /\ protocol' = TRUE
  /\ input' = list
  /\ pc' = "load"
  /\ UNCHANGED <<queue, timer, batch, ready, at, rem, frames, due, gap>>

(* start(): clone one message and push it back, or go on and send.          *)
Load ==
  /\ pc = "load"
  /\ \/ /\ input # <<>>
        /\ queue' = Append(queue, Head(input))
        /\ input' = Tail(input)
        /\ due' = [due EXCEPT ![Head(input).id] = LastDue + Head(input).delay]
        /\ UNCHANGED pc
     \/ /\ input = <<>>
        /\ pc' = "splice"
        /\ UNCHANGED <<queue, input, due>>
  /\ UNCHANGED <<control, batch, ready, at, rem, gap>>

(* The event loop delivers QTimer::timeout.                                 *)
TimerFires ==
  /\ pc = "idle" /\ timer # Off /\ Len(frames) < MaxFrames
  /\ timer' = Off
  /\ pc' = "splice"
  /\ due' = [m \in Msg |-> IF m \in Queued THEN due[m] - gap ELSE due[m]]
  /\ gap' = 0
  /\ UNCHANGED <<sending, protocol, queue, frames, locals>>

(* Entries without a delay at the front move to nextMsgsToSend.             *)
Splice ==
  /\ pc = "splice"
  /\ \/ /\ FrontDue
        /\ batch' = Append(batch, Head(queue))
        /\ queue' = Tail(queue)
        /\ UNCHANGED pc
     \/ /\ ~FrontDue
        /\ pc' = "requeue"
        /\ UNCHANGED <<queue, batch>>
  /\ UNCHANGED <<control, input, ready, at, rem, history>>

(* The loop over nextMsgsToSend: a message that does not repeat stays out.  *)
Drop ==
  /\ pc = "requeue" /\ batch # <<>> /\ ~Reinsert(Head(batch))
  /\ ready' = Append(ready, Head(batch).id)
  /\ batch' = Tail(batch)
  /\ UNCHANGED <<control, queue, pc, input, at, rem, history>>

(* A message that repeats needs a place: std::find_if starts ...            *)
Search ==
  /\ pc = "requeue" /\ batch # <<>> /\ Reinsert(Head(batch))
  /\ at' = 1
  /\ rem' = Head(batch).repeat
  /\ pc' = "find"
  /\ UNCHANGED <<control, queue, input, batch, ready, history>>

(* ... passes the entries that are due no later than the message ...        *)
Pass ==
  /\ pc = "find" /\ Passes
  /\ rem' = rem - queue[at].delay
  /\ at' = at + 1
  /\ UNCHANGED <<control, queue, pc, input, batch, ready, history>>

(* ... and the message goes in before the first that is due later.          *)
PutBack ==
  /\ pc = "find" /\ ~Passes
  /\ queue' = Insert(queue, at, Reinserted(Head(batch), rem))
  /\ ready' = Append(ready, Head(batch).id)
  /\ batch' = Tail(batch)
  /\ due' = [due EXCEPT ![Head(batch).id] = Head(batch).repeat]
  /\ pc' = "requeue" /\ at' = 0 /\ rem' = 0
  /\ UNCHANGED <<control, input, gap>>

(* The front entry's delay moves into the timer, which is started before    *)
(* the callback is called with everything taken out.                        *)
Arm ==
  /\ pc = "requeue" /\ batch = <<>>
  /\ \/ /\ queue # <<>>
        /\ queue' = [queue EXCEPT ![1] = WithDelay(queue[1], 0)]
        /\ gap' = queue[1].delay
        /\ timer' = TimerStart(queue[1].delay)
     \/ /\ queue = <<>>
        /\ UNCHANGED <<queue, gap, timer>>
  /\ frames' = <<ready>> \o frames
  /\ ready' = <<>>
  /\ pc' = "deliver"
  /\ UNCHANGED <<sending, protocol, input, batch, at, rem, due>>

(* ToolsMsgMgrImpl::sendMsgs hands one message to the socket; an error box  *)
(* may open on the way and run its own event loop.                          *)
Deliver ==
  /\ pc = "deliver" /\ Head(frames) # <<>>
  /\ frames' = <<Tail(Head(frames))>> \o Tail(frames)
  /\ pc' \in IF Dialogs THEN {"deliver", "idle"} ELSE {"deliver"}
  /\ UNCHANGED <<sending, protocol, queue, timer, locals, history>>

(* The user closes the innermost error box.                                 *)
CloseDialog ==
  /\ pc = "idle" /\ frames # <<>>
  /\ pc' = "deliver"
  /\ UNCHANGED <<control, queue, locals, history>>

(* stop() leaves the timer running.                                          *)
WrongStopSending ==
  /\ sending' = FALSE
  /\ protocol' = FALSE
  /\ queue' = <<>>
  /\ due' = [m \in Msg |-> 0] /\ gap' = 0
  /\ UNCHANGED timer

(* stop() forgets to clear the queue.                                        *)
WrongStopSendingKeepsQueue ==
  /\ sending' = FALSE
  /\ timer' = Off
  /\ protocol' = FALSE
  /\ UNCHANGED <<queue, due, gap>>

(* stop(), as sendStopClicked() calls it.                                   *)
StopSending ==
  /\ sending' = FALSE
  /\ timer' = Off
  /\ protocol' = FALSE
  /\ queue' = <<>>
  /\ due' = [m \in Msg |-> 0] /\ gap' = 0

(* The callback has returned; with nothing left, m_sendCompleteCallback     *)
(* calls sendStopClicked().                                                 *)
Return ==
  /\ pc = "deliver" /\ Head(frames) = <<>>
  /\ frames' = Tail(frames)
  /\ pc' = "idle"
  /\ \/ queue = <<>> /\ StopSending
     \/ queue # <<>> /\ UNCHANGED <<sending, protocol, queue, timer, history>>
  /\ UNCHANGED locals

(* The user clicks Stop.                                                    *)
Stop ==
  /\ pc = "idle" /\ frames = <<>> /\ sending
  /\ StopSending
  /\ UNCHANGED <<pc, frames, locals>>

Handler ==
  \/ Load \/ Splice \/ Drop \/ Search \/ Pass \/ PutBack \/ Arm
  \/ Deliver \/ Return

Next ==
  \/ \E list \in SendLists : Start(list)
  \/ Handler \/ TimerFires \/ CloseDialog \/ Stop

Spec == Init /\ [][Next]_vars

(* The single thread finishes the handler it is in, and the event loop      *)
(* delivers an expired timer.  A user who never presses anything is allowed. *)
Fairness == WF_vars(Handler) /\ WF_vars(TimerFires)

FairSpec == Spec /\ Fairness

-----------------------------------------------------------------------------
(* The assertions of the source: start() finds the queue empty, a message   *)
(* that repeats finds the protocol it is cloned with, and the front entry   *)
(* the timer is armed for is not due yet.                                   *)
AssertionsHold ==
  /\ ~sending => queue = <<>>
  /\ pc \in {"requeue", "find"} /\ batch # <<>> => protocol
  /\ pc = "requeue" /\ batch = <<>> /\ queue # <<>> => queue[1].delay > 0

(* The delta queue never loses track of time: the entries stand in the      *)
(* order they are due, each delay is the distance to the entry before it    *)
(* (to the running timer for the first), and what is taken out is due.      *)
QueueKeepsTime ==
  /\ \A k \in 1..Len(queue) :
       due[queue[k].id] = queue[k].delay
                          + (IF k = 1 THEN gap ELSE due[queue[k - 1].id])
  /\ \A i, j \in 1..Len(queue) : i <= j => due[queue[i].id] <= due[queue[j].id]
  /\ \A k \in 1..Len(batch) : due[batch[k].id] = 0

(* Every delay and period of the lists fits the timer.                      *)
DelaysFit ==
  \A list \in SendLists : \A k \in 1..Len(list) :
    list[k].delay < TimerLimit /\ list[k].repeat < TimerLimit

(* No lost wakeup: whenever an event loop runs, the timer is armed exactly  *)
(* when messages wait, for exactly the time the first of them has to wait;  *)
(* and the Send buttons are locked exactly as long.                         *)
TimerGuardsQueue ==
  pc = "idle" =>
    /\ queue # <<>> => timer = gap /\ timer = due[queue[1].id] /\ timer > 0
    /\ queue = <<>> => timer = Off
    /\ frames = <<>> => (sending <=> queue # <<>>)

(* A queued message is eventually taken out, however often the others       *)
(* repeat; only a stopped sending is an excuse, and it empties the queue.   *)
NoStarvation == \A m \in Msg : m \in Queued ~> m \notin Queued

Finite == \A k \in 1..Len(queue) : queue[k].repeat = 0 \/ queue[k].count # 0

(* A sending without endless messages comes to its end by itself, and the   *)
(* buttons are released.                                                    *)
FiniteSendingEnds == (sending /\ pc = "idle" /\ Finite) ~> ~sending

Item(e) ==
  [id |-> e.id, wait |-> due[e.id], repeat |-> e.repeat, count |-> e.count]

Agenda == {Item(queue[k]) : k \in 1..Len(queue)}
          \cup {Item(batch[k]) : k \in 1..Len(batch)}

Schedule == INSTANCE SendSchedule
              WITH planning <- (pc = "load"), todo <- input, agenda <- Agenda

(* The paced sender implements the schedule promised to its callers.        *)
KeepsSchedule == Schedule!Spec
=============================================================================
