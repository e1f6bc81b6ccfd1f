-------------------------- MODULE MsgSendMgr_proofs --------------------------
(***************************************************************************)
(* What TLAPS proves of the paced sender, for every send list, timer width, *)
(* with and without error boxes: its assertions hold, its delta queue keeps *)
(* time, no wakeup is lost, and it implements SendSchedule.                 *)
(***************************************************************************)
EXTENDS MsgSendMgr, SequenceTheorems, TLAPS

-----------------------------------------------------------------------------
(* Insert lengthens the queue by one, and what it returns at each place is  *)
(* what its definition says.                                                *)
LEMMA InsertProperties ==
  ASSUME NEW q \in Seq(Entry), NEW i \in 1..(Len(q) + 1), NEW e \in Entry,
         i <= Len(q) => e.delay <= q[i].delay
  PROVE  /\ Insert(q, i, e) \in Seq(Entry)
         /\ Len(Insert(q, i, e)) = Len(q) + 1
         /\ \A k \in 1..(Len(q) + 1) :
              Insert(q, i, e)[k] =
                IF k < i THEN q[k]
                ELSE IF k = i THEN e
                ELSE IF k = i + 1 THEN WithDelay(q[i], q[i].delay - e.delay)
                ELSE q[k - 1]
<1>1. Len(q) \in Nat /\ \A k \in 1..Len(q) : q[k] \in Entry
  BY LenProperties
<1>2. \A k \in 1..(Len(q) + 1) : Insert(q, i, e)[k] \in Entry
  <2> TAKE k \in 1..(Len(q) + 1)
  <2>1. CASE k < i
    BY <1>1, <2>1 DEF Insert
  <2>2. CASE k = i
    BY <1>1, <2>2 DEF Insert
  <2>3. CASE k = i + 1
    <3>1. q[i] \in Entry /\ e.delay <= q[i].delay
      BY <1>1, <2>3
    <3>2. WithDelay(q[i], q[i].delay - e.delay) \in Entry
      <4>1. q[i].delay - e.delay \in Nat
        BY SMTT(60), <3>1 DEF Entry
      <4> QED BY <3>1, <4>1 DEF Entry, WithDelay
    <3> QED BY <3>2, <2>3 DEF Insert
  <2>4. CASE k > i + 1
    BY <1>1, <2>4 DEF Insert
  <2> QED BY <2>1, <2>2, <2>3, <2>4, <1>1
<1>3. Insert(q, i, e) \in [1..(Len(q) + 1) -> Entry]
  BY <1>2 DEF Insert
<1>4. Insert(q, i, e) \in Seq(Entry) /\ Len(Insert(q, i, e)) = Len(q) + 1
  BY <1>1, <1>3, SeqDef
<1> QED BY <1>4 DEF Insert

(* The library's facts about sequences, for sequences of entries.           *)
LEMMA EntrySeq ==
  ASSUME NEW s \in Seq(Entry)
  PROVE  /\ Len(s) \in Nat
         /\ \A k \in 1..Len(s) : s[k] \in Entry
         /\ s = <<>> <=> Len(s) = 0
BY LenProperties, EmptySeq

LEMMA EntryTail ==
  ASSUME NEW s \in Seq(Entry), s # <<>>
  PROVE  /\ Head(s) \in Entry /\ Head(s) = s[1] /\ 1 \in 1..Len(s)
         /\ Tail(s) \in Seq(Entry)
         /\ Len(Tail(s)) = Len(s) - 1
         /\ \A k \in 1..(Len(s) - 1) : Tail(s)[k] = s[k + 1]
<1>1. /\ Head(s) \in Entry /\ Tail(s) \in Seq(Entry) /\ Len(Tail(s)) = Len(s) - 1
      /\ \A k \in 1..Len(Tail(s)) : Tail(s)[k] = s[k + 1]
  BY HeadTailProperties
<1> QED BY <1>1, EntrySeq

LEMMA EntryAppend ==
  ASSUME NEW s \in Seq(Entry), NEW e \in Entry
  PROVE  /\ Append(s, e) \in Seq(Entry)
         /\ Len(Append(s, e)) = Len(s) + 1
         /\ \A k \in 1..Len(s) : Append(s, e)[k] = s[k]
         /\ Append(s, e)[Len(s) + 1] = e
BY AppendProperties

-----------------------------------------------------------------------------
(* No message is in two places at once.                                     *)
Distinct ==
  /\ \A i, j \in 1..Len(queue) : queue[i].id = queue[j].id => i = j
  /\ \A i, j \in 1..Len(batch) : batch[i].id = batch[j].id => i = j
  /\ \A i, j \in 1..Len(input) : input[i].id = input[j].id => i = j
  /\ \A i \in 1..Len(queue), j \in 1..Len(batch) : queue[i].id # batch[j].id
  /\ \A i \in 1..Len(queue), j \in 1..Len(input) : queue[i].id # input[j].id

(* Which locals are in use, and what the timer is, at each point.           *)
Phases ==
  /\ protocol = sending
  /\ pc # "load" => input = <<>>
  /\ pc \notin {"splice", "requeue", "find"} => batch = <<>>
  /\ pc = "deliver" => frames # <<>>
  /\ ~sending => queue = <<>>
  /\ pc \in {"load", "splice", "requeue", "find"} => sending /\ timer = Off /\ gap = 0
  /\ pc = "idle" /\ frames = <<>> /\ sending => queue # <<>>
  /\ pc \in {"idle", "deliver"} =>
       /\ queue # <<>> => gap > 0 /\ queue[1].delay = 0 /\ timer = TimerStart(gap)
       /\ queue = <<>> => timer = Off /\ gap = 0

(* The search has come to `at', with newDelay counted from the entry before. *)
Searching ==
  /\ pc \in {"requeue", "find"} /\ queue # <<>> => queue[1].delay > 0
  /\ pc = "find" =>
       /\ batch # <<>> /\ Reinsert(batch[1])
       /\ at \in 1..(Len(queue) + 1)
       /\ rem + (IF at = 1 THEN 0 ELSE due[queue[at - 1].id]) = batch[1].repeat

(* The inductive invariant.                                                 *)
IInv == TypeOK /\ Distinct /\ QueueKeepsTime /\ Phases /\ Searching

LEMMA TimerStartType == \A d \in Nat : TimerStart(d) \in {Off} \cup 0..(TimerLimit - 1)
BY BoundsAssumption DEF TimerStart, ToInt, Off

LEMMA InitIInv == Init => IInv
<1> SUFFICES ASSUME Init PROVE IInv
  OBVIOUS
<1> USE DEF Init
<1>1. TypeOK
  BY EmptySeq DEF TypeOK, PCs, Off
<1>2. Len(queue) = 0 /\ Len(batch) = 0 /\ Len(input) = 0
  BY EmptySeq
<1>3. Distinct /\ QueueKeepsTime
  BY <1>2 DEF Distinct, QueueKeepsTime
<1>4. Phases /\ Searching
  BY DEF Phases, Searching
<1> QED BY <1>1, <1>3, <1>4 DEF IInv

-----------------------------------------------------------------------------
LEMMA StartIInv == ASSUME IInv, NEW list \in SendLists, Start(list) PROVE IInv'
<1> USE DEF Start
<1>1. list \in Seq(Entry)
      /\ \A i, j \in 1..Len(list) : list[i].id = list[j].id => i = j
  BY SendListsAssumption
<1>2. queue = <<>> /\ Len(queue) = 0 /\ Len(batch) = 0 /\ gap = 0 /\ timer = Off
  BY EmptySeq DEF IInv, Phases
<1>3. TypeOK'
  BY <1>1 DEF IInv, TypeOK, PCs
<1>4. Distinct'
  BY <1>1, <1>2 DEF IInv, Distinct
<1>5. QueueKeepsTime'
  BY DEF IInv, QueueKeepsTime
<1>6. Phases' /\ Searching'
  BY <1>2 DEF IInv, Phases, Searching
<1> QED BY <1>3, <1>4, <1>5, <1>6 DEF IInv

LEMMA LoadIInv == ASSUME IInv, Load PROVE IInv'
<1>1. pc = "load" /\ batch = <<>> /\ Len(batch) = 0 /\ gap = 0
  BY EmptySeq DEF IInv, Phases, Load
<1>2. CASE input = <<>>
  <2> USE DEF Load, control
  <2>1. TypeOK'
    BY <1>2 DEF IInv, TypeOK, PCs
  <2>2. Distinct' /\ QueueKeepsTime'
    BY <1>2 DEF IInv, Distinct, QueueKeepsTime
  <2>3. Phases' /\ Searching'
    BY <1>1, <1>2 DEF IInv, Phases, Searching
  <2> QED BY <2>1, <2>2, <2>3 DEF IInv
<1>3. CASE input # <<>>
  <2>1. queue \in Seq(Entry) /\ input \in Seq(Entry) /\ due \in [Msg -> Nat]
    BY DEF IInv, TypeOK
  <2>2. PICK m : /\ m = Head(input)
                 /\ queue' = Append(queue, m) /\ input' = Tail(input)
                 /\ due' = [due EXCEPT ![m.id] = LastDue + m.delay]
    BY <1>3 DEF Load
  <2>3. m \in Entry /\ m = input[1] /\ 1 \in 1..Len(input)
    BY <1>3, <2>1, <2>2, EntryTail
  <2>4. /\ queue' \in Seq(Entry)
        /\ Len(queue) \in Nat /\ Len(queue') = Len(queue) + 1
        /\ \A k \in 1..Len(queue) : queue'[k] = queue[k] /\ queue[k] \in Entry
        /\ queue'[Len(queue) + 1] = m
    BY <2>1, <2>2, <2>3, EntryAppend, EntrySeq
  <2>5. /\ input' \in Seq(Entry)
        /\ Len(input) \in Nat /\ Len(input') = Len(input) - 1
        /\ \A k \in 1..Len(input') : input'[k] = input[k + 1]
    BY <1>3, <2>1, <2>2, EntryTail, EntrySeq
  <2>a. \A k \in 1..Len(queue) : queue[k].id # m.id
    BY <2>3 DEF IInv, Distinct
  <2>6. LastDue \in Nat /\ m.id \in Msg /\ m.delay \in Nat
    <3>1. m.id \in Msg /\ m.delay \in Nat
      BY <2>3 DEF Entry
    <3>2. CASE queue = <<>>
      BY <3>1, <3>2 DEF LastDue
    <3>3. CASE queue # <<>>
      <4>1. Len(queue) \in 1..Len(queue)
        BY <2>1, <3>3, EntrySeq
      <4>2. queue[Len(queue)] \in Entry
        BY <2>4, <4>1
      <4>3. queue[Len(queue)].id \in Msg
        BY <4>2 DEF Entry
      <4> QED BY <2>1, <3>1, <3>3, <4>3 DEF LastDue
    <3> QED BY <3>1, <3>2, <3>3
  <2>7. /\ due' \in [Msg -> Nat]
        /\ due'[m.id] = LastDue + m.delay
        /\ \A k \in 1..Len(queue) : due'[queue[k].id] = due[queue[k].id]
    <3>1. \A k \in 1..Len(queue) : queue[k].id \in Msg
      BY <2>4 DEF Entry
    <3> QED BY <2>1, <2>2, <2>a, <2>6, <3>1
  <2>8. TypeOK'
    BY <1>3, <2>4, <2>5, <2>7 DEF IInv, TypeOK, PCs, Load, control
  <2>9. Distinct'
    <3>1. \A i, j \in 1..Len(queue') : queue'[i].id = queue'[j].id => i = j
      BY <2>4, <2>a DEF IInv, Distinct
    <3>2. \A i, j \in 1..Len(input') : input'[i].id = input'[j].id => i = j
      BY <2>5 DEF IInv, Distinct
    <3>3. \A i \in 1..Len(queue'), j \in 1..Len(input') : queue'[i].id # input'[j].id
      <4> SUFFICES ASSUME NEW i \in 1..Len(queue'), NEW j \in 1..Len(input')
                   PROVE  queue'[i].id # input'[j].id
        OBVIOUS
      <4>1. input'[j] = input[j + 1] /\ j + 1 \in 1..Len(input) /\ j + 1 # 1
        BY <2>5
      <4>2. CASE i = Len(queue) + 1
        BY <2>3, <2>4, <4>1, <4>2 DEF IInv, Distinct
      <4>3. CASE i \in 1..Len(queue)
        BY <2>4, <4>1, <4>3 DEF IInv, Distinct
      <4> QED BY <2>4, <4>2, <4>3
    <3>4. Len(batch') = 0
      BY <1>1 DEF Load
    <3> QED BY <3>1, <3>2, <3>3, <3>4 DEF Distinct
  <2>10. QueueKeepsTime'
    <3>1. \A k \in 1..Len(queue) : due[queue[k].id] <= LastDue /\ due[queue[k].id] \in Nat
      <4> SUFFICES ASSUME NEW k \in 1..Len(queue)
                   PROVE  due[queue[k].id] <= LastDue /\ due[queue[k].id] \in Nat
        OBVIOUS
      <4>1. queue[k].id \in Msg
        BY <2>4 DEF Entry
      <4>2. queue # <<>> /\ Len(queue) \in 1..Len(queue) /\ k <= Len(queue)
        BY <2>1, <2>4, EntrySeq
      <4> QED BY <2>1, <4>1, <4>2 DEF IInv, QueueKeepsTime, LastDue
    <3>2. ASSUME NEW k \in 1..Len(queue')
          PROVE  due'[queue'[k].id] = queue'[k].delay
                          + (IF k = 1 THEN gap' ELSE due'[queue'[k - 1].id])
      <4>0. gap' = gap
        BY DEF Load
      <4>1. CASE k \in 1..Len(queue)
        <5>1. due[queue[k].id] = queue[k].delay
                 + (IF k = 1 THEN gap ELSE due[queue[k - 1].id])
          BY <4>1 DEF IInv, QueueKeepsTime
        <5>2. k # 1 => k - 1 \in 1..Len(queue) /\ queue'[k - 1] = queue[k - 1]
          BY <2>4, <4>1
        <5> QED BY <2>4, <2>7, <4>0, <4>1, <5>1, <5>2
      <4>2. CASE k = Len(queue) + 1 /\ k = 1
        <5>1. LastDue = 0
          BY <2>1, <2>4, <4>2, EntrySeq DEF LastDue
        <5> QED BY <1>1, <2>4, <2>6, <2>7, <4>0, <4>2, <5>1
      <4>3. CASE k = Len(queue) + 1 /\ k # 1
        <5>1. queue # <<>> /\ k - 1 = Len(queue) /\ k - 1 \in 1..Len(queue)
          BY <2>1, <2>4, <4>3, EntrySeq
        <5>2. LastDue = due'[queue'[k - 1].id]
          BY <2>4, <2>7, <5>1 DEF LastDue
        <5> QED BY <2>4, <2>6, <2>7, <4>3, <5>2
      <4> QED BY <2>4, <4>1, <4>2, <4>3
    <3>3. ASSUME NEW i \in 1..Len(queue'), NEW j \in 1..Len(queue'), i <= j
          PROVE  due'[queue'[i].id] <= due'[queue'[j].id]
      <4>1. CASE j \in 1..Len(queue)
        <5>1. i \in 1..Len(queue)
          BY <2>4, <3>3, <4>1
        <5> QED BY <2>4, <2>7, <3>3, <4>1, <5>1 DEF IInv, QueueKeepsTime
      <4>2. CASE j = Len(queue) + 1 /\ i \in 1..Len(queue)
        BY SMTT(60), <2>4, <2>6, <2>7, <3>1, <4>2
      <4>3. CASE j = Len(queue) + 1 /\ i = j
        BY <2>4, <2>6, <2>7, <4>3
      <4> QED BY <2>4, <3>3, <4>1, <4>2, <4>3
    <3>4. Len(batch') = 0
      BY <1>1 DEF Load
    <3> QED BY <3>2, <3>3, <3>4 DEF QueueKeepsTime
  <2>11. Phases' /\ Searching'
    BY <1>1, <1>3 DEF IInv, Phases, Searching, Load, control
  <2> QED BY <2>8, <2>9, <2>10, <2>11 DEF IInv
<1> QED BY <1>2, <1>3

LEMMA TimerFiresIInv == ASSUME IInv, TimerFires PROVE IInv'
<1>1. /\ pc = "idle" /\ timer # Off /\ batch = <<>> /\ input = <<>>
      /\ queue # <<>> /\ gap > 0 /\ sending /\ protocol
  BY DEF IInv, Phases, TimerFires
<1>2. /\ queue \in Seq(Entry) /\ Len(queue) \in Nat /\ 1 \in 1..Len(queue)
      /\ \A k \in 1..Len(queue) : queue[k] \in Entry /\ queue[k].id \in Msg
      /\ due \in [Msg -> Nat] /\ gap \in Nat
  BY <1>1, EntrySeq, EntryTail DEF IInv, TypeOK, Entry
<1>3. /\ queue' = queue /\ gap' = 0 /\ timer' = Off /\ pc' = "splice"
      /\ due' = [m \in Msg |-> IF m \in Queued THEN due[m] - gap ELSE due[m]]
      /\ UNCHANGED <<sending, protocol, frames, input, batch, ready, at, rem>>
  BY DEF TimerFires, locals
<1>4. due[queue[1].id] = queue[1].delay + gap /\ queue[1].delay \in Nat
  BY <1>2 DEF IInv, QueueKeepsTime, Entry
<1>5. \A k \in 1..Len(queue) : due[queue[k].id] >= gap /\ queue[k].id \in Queued
  <2> TAKE k \in 1..Len(queue)
  <2>1. due[queue[1].id] <= due[queue[k].id]
    BY <1>2 DEF IInv, QueueKeepsTime
  <2>2. due[queue[k].id] \in Nat
    BY <1>2
  <2> QED BY <1>2, <1>4, <2>1, <2>2 DEF Queued
<1>6. due' \in [Msg -> Nat]
  <2> SUFFICES ASSUME NEW m \in Msg
               PROVE  (IF m \in Queued THEN due[m] - gap ELSE due[m]) \in Nat
    BY <1>3
  <2>1. CASE m \in Queued
    <3>1. PICK k \in 1..Len(queue) : m = queue[k].id
      BY <2>1 DEF Queued
    <3> QED BY <1>2, <1>5, <2>1, <3>1
  <2>2. CASE m \notin Queued
    BY <1>2, <2>2
  <2> QED BY <2>1, <2>2
<1>7. \A k \in 1..Len(queue) : due'[queue[k].id] = due[queue[k].id] - gap
  BY <1>2, <1>3, <1>5
<1>8. TypeOK'
  BY <1>3, <1>6 DEF IInv, TypeOK, PCs
<1>9. Distinct'
  BY <1>3 DEF IInv, Distinct
<1>10. QueueKeepsTime'
  <2>1. ASSUME NEW k \in 1..Len(queue)
        PROVE  due'[queue[k].id] = queue[k].delay
                          + (IF k = 1 THEN 0 ELSE due'[queue[k - 1].id])
    <3>1. due[queue[k].id] = queue[k].delay
                          + (IF k = 1 THEN gap ELSE due[queue[k - 1].id])
      BY DEF IInv, QueueKeepsTime
    <3>2. k # 1 => k - 1 \in 1..Len(queue)
      BY <1>2
    <3>3. queue[k].delay \in Nat /\ due[queue[k].id] \in Nat
          /\ (k # 1 => due[queue[k - 1].id] \in Nat)
      BY <1>2, <3>2 DEF Entry
    <3> QED BY SMTT(60), <1>2, <1>7, <3>1, <3>2, <3>3
  <2>2. ASSUME NEW i \in 1..Len(queue), NEW j \in 1..Len(queue), i <= j
        PROVE  due'[queue[i].id] <= due'[queue[j].id]
    <3>1. due[queue[i].id] <= due[queue[j].id]
      BY <2>2 DEF IInv, QueueKeepsTime
    <3> QED BY <1>2, <1>7, <3>1
  <2>3. Len(batch') = 0 /\ queue' = queue /\ gap' = 0
    BY <1>1, <1>3, EmptySeq
  <2> QED BY <2>1, <2>2, <2>3 DEF QueueKeepsTime
<1>11. Phases' /\ Searching'
  BY <1>1, <1>3 DEF IInv, Phases, Searching
<1> QED BY <1>8, <1>9, <1>10, <1>11 DEF IInv

LEMMA SpliceIInv == ASSUME IInv, Splice PROVE IInv'
<1>1. /\ pc = "splice" /\ gap = 0 /\ input = <<>> /\ Len(input) = 0
      /\ sending /\ protocol /\ timer = Off
      /\ UNCHANGED <<sending, protocol, timer, frames, input, ready, at, rem, due, gap>>
  BY EmptySeq DEF IInv, Phases, Splice, control, history
<1>2. queue \in Seq(Entry) /\ batch \in Seq(Entry) /\ due \in [Msg -> Nat]
  BY DEF IInv, TypeOK
<1>3. CASE FrontDue
  <2>1. PICK m : /\ m = Head(queue) /\ m.delay = 0
                 /\ batch' = Append(batch, m) /\ queue' = Tail(queue) /\ pc' = pc
    BY <1>3 DEF Splice, FrontDue
  <2>2. queue # <<>> /\ m \in Entry /\ m = queue[1] /\ 1 \in 1..Len(queue)
    BY <1>2, <1>3, <2>1, EntryTail DEF FrontDue
  <2>3. /\ queue' \in Seq(Entry) /\ Len(queue) \in Nat /\ Len(queue') = Len(queue) - 1
        /\ \A k \in 1..Len(queue') : queue'[k] = queue[k + 1] /\ k + 1 \in 1..Len(queue)
        /\ \A k \in 1..Len(queue) : queue[k].id \in Msg /\ queue[k].delay \in Nat
    <3>1. \A k \in 1..Len(queue) : queue[k] \in Entry
      BY <1>2, EntrySeq
    <3>2. \A k \in 1..Len(queue) : queue[k].id \in Msg /\ queue[k].delay \in Nat
      BY <3>1 DEF Entry
    <3> QED BY <1>2, <2>1, <2>2, <3>2, EntryTail, EntrySeq
  <2>4. /\ batch' \in Seq(Entry) /\ Len(batch) \in Nat /\ Len(batch') = Len(batch) + 1
        /\ \A k \in 1..Len(batch) : batch'[k] = batch[k]
        /\ batch'[Len(batch) + 1] = m
    BY <1>2, <2>1, <2>2, EntryAppend, EntrySeq
  <2>5. due[m.id] = 0
    BY <1>1, <2>1, <2>2 DEF IInv, QueueKeepsTime
  <2>6. TypeOK'
    BY <1>1, <2>1, <2>3, <2>4 DEF IInv, TypeOK
  <2>7. Distinct'
    <3>1. \A i, j \in 1..Len(queue') : queue'[i].id = queue'[j].id => i = j
      <4> SUFFICES ASSUME NEW i \in 1..Len(queue'), NEW j \in 1..Len(queue'),
                          queue'[i].id = queue'[j].id
                   PROVE  i = j
        OBVIOUS
      <4>1. queue[i + 1].id = queue[j + 1].id
            /\ i + 1 \in 1..Len(queue) /\ j + 1 \in 1..Len(queue)
        BY <2>3
      <4>2. i + 1 = j + 1
        BY <4>1 DEF IInv, Distinct
      <4> QED BY <4>2
    <3>2. \A i, j \in 1..Len(batch') : batch'[i].id = batch'[j].id => i = j
      BY <2>2, <2>4 DEF IInv, Distinct
    <3>3. \A i \in 1..Len(queue'), j \in 1..Len(batch') : queue'[i].id # batch'[j].id
      <4> SUFFICES ASSUME NEW i \in 1..Len(queue'), NEW j \in 1..Len(batch')
                   PROVE  queue'[i].id # batch'[j].id
        OBVIOUS
      <4>1. queue'[i] = queue[i + 1] /\ i + 1 \in 1..Len(queue) /\ i + 1 # 1
        BY <2>3
      <4>2. CASE j = Len(batch) + 1
        <5>1. queue[i + 1].id # queue[1].id
          BY <2>2, <4>1 DEF IInv, Distinct
        <5> QED BY <2>2, <2>4, <4>1, <4>2, <5>1
      <4>3. CASE j \in 1..Len(batch)
        <5>1. queue[i + 1].id # batch[j].id
          BY <4>1, <4>3 DEF IInv, Distinct
        <5> QED BY <2>4, <4>1, <4>3, <5>1
      <4> QED BY <2>4, <4>2, <4>3
    <3> QED BY <1>1, <3>1, <3>2, <3>3 DEF Distinct
  <2>8. QueueKeepsTime'
    <3>1. ASSUME NEW k \in 1..Len(queue')
          PROVE  due[queue'[k].id] = queue'[k].delay
                          + (IF k = 1 THEN 0 ELSE due[queue'[k - 1].id])
      <4>1. due[queue[k + 1].id] = queue[k + 1].delay + due[queue[k].id]
        <5>1. k + 1 \in 1..Len(queue) /\ k + 1 # 1 /\ (k + 1) - 1 = k
          BY <2>3
        <5> QED BY <5>1 DEF IInv, QueueKeepsTime
      <4>2. k # 1 => k - 1 \in 1..Len(queue') /\ queue'[k - 1] = queue[k]
        BY <2>3
      <4> QED BY <1>2, <2>2, <2>3, <2>5, <4>1, <4>2
    <3>2. ASSUME NEW i \in 1..Len(queue'), NEW j \in 1..Len(queue'), i <= j
          PROVE  due[queue'[i].id] <= due[queue'[j].id]
      BY <2>3, <3>2 DEF IInv, QueueKeepsTime
    <3>3. ASSUME NEW k \in 1..Len(batch') PROVE due[batch'[k].id] = 0
      <4>1. CASE k = Len(batch) + 1
        BY <2>4, <2>5, <4>1
      <4>2. CASE k \in 1..Len(batch)
        BY <2>4, <4>2 DEF IInv, QueueKeepsTime
      <4> QED BY <2>4, <4>1, <4>2
    <3> QED BY <1>1, <3>1, <3>2, <3>3 DEF QueueKeepsTime
  <2>9. Phases' /\ Searching'
    BY <1>1, <2>1, <2>2 DEF IInv, Phases, Searching
  <2> QED BY <2>6, <2>7, <2>8, <2>9 DEF IInv
<1>4. CASE ~FrontDue
  <2>1. pc' = "requeue" /\ queue' = queue /\ batch' = batch
    BY <1>4 DEF Splice
  <2>2. TypeOK' /\ Distinct' /\ QueueKeepsTime'
    <3>1. TypeOK'
      BY <1>1, <2>1 DEF IInv, TypeOK, PCs
    <3>2. Distinct'
      BY <1>1, <2>1 DEF IInv, Distinct
    <3>3. QueueKeepsTime'
      BY <1>1, <2>1 DEF IInv, QueueKeepsTime
    <3> QED BY <3>1, <3>2, <3>3
  <2>3. queue # <<>> => queue[1].delay > 0
    <3>1. queue # <<>> => Head(queue) = queue[1] /\ queue[1] \in Entry
      BY <1>2, EntryTail
    <3> QED BY <1>4, <3>1 DEF FrontDue, Entry
  <2>4. Phases' /\ Searching'
    BY <1>1, <2>1, <2>3 DEF IInv, Phases, Searching
  <2> QED BY <2>2, <2>4 DEF IInv
<1> QED BY <1>3, <1>4

(* Dropping the head of nextMsgsToSend keeps the rest distinct and due.     *)
LEMMA BatchTail ==
  ASSUME IInv, batch # <<>>, batch' = Tail(batch)
  PROVE  /\ batch' \in Seq(Entry)
         /\ batch[1] \in Entry /\ Head(batch) = batch[1] /\ due[batch[1].id] = 0
         /\ \A k \in 1..Len(batch') :
              \E l \in 2..Len(batch) : l = k + 1 /\ batch'[k] = batch[l]
         /\ \A i, j \in 1..Len(batch') : batch'[i].id = batch'[j].id => i = j
         /\ \A k \in 1..Len(batch') : batch'[k].id # batch[1].id
         /\ \A k \in 1..Len(batch') : due[batch'[k].id] = 0
<1>1. batch \in Seq(Entry)
  BY DEF IInv, TypeOK
<1>2. /\ batch[1] \in Entry /\ Head(batch) = batch[1] /\ 1 \in 1..Len(batch)
      /\ batch' \in Seq(Entry) /\ Len(batch) \in Nat /\ Len(batch') = Len(batch) - 1
      /\ \A k \in 1..Len(batch') : batch'[k] = batch[k + 1] /\ k + 1 \in 2..Len(batch)
  BY <1>1, EntryTail, EntrySeq
<1>3. \A i, j \in 1..Len(batch') : batch'[i].id = batch'[j].id => i = j
  <2> SUFFICES ASSUME NEW i \in 1..Len(batch'), NEW j \in 1..Len(batch'),
                      batch'[i].id = batch'[j].id
               PROVE  i = j
    OBVIOUS
  <2>1. batch[i + 1].id = batch[j + 1].id
        /\ i + 1 \in 1..Len(batch) /\ j + 1 \in 1..Len(batch)
    BY <1>2
  <2>2. i + 1 = j + 1
    BY <2>1 DEF IInv, Distinct
  <2> QED BY <2>2
<1>4. ASSUME NEW k \in 1..Len(batch')
      PROVE  batch'[k].id # batch[1].id /\ due[batch'[k].id] = 0
  <2>1. batch'[k] = batch[k + 1] /\ k + 1 \in 1..Len(batch) /\ k + 1 # 1
    BY <1>2
  <2>2. batch[k + 1].id # batch[1].id
    BY <1>2, <2>1 DEF IInv, Distinct
  <2>3. due[batch[k + 1].id] = 0
    BY <2>1 DEF IInv, QueueKeepsTime
  <2> QED BY <2>1, <2>2, <2>3
<1>5. due[batch[1].id] = 0
  BY <1>2 DEF IInv, QueueKeepsTime
<1> QED BY <1>2, <1>3, <1>4, <1>5

LEMMA ReadyType == ASSUME NEW m \in Msg, IInv PROVE Append(ready, m) \in Seq(Msg)
BY AppendProperties DEF IInv, TypeOK

LEMMA DropIInv == ASSUME IInv, Drop PROVE IInv'
<1>1. /\ pc = "requeue" /\ batch # <<>> /\ batch' = Tail(batch)
      /\ ready' = Append(ready, Head(batch).id)
      /\ UNCHANGED <<sending, protocol, queue, timer, frames, pc, input, at, rem, due, gap>>
  BY DEF Drop, control, history
<1>2. /\ input = <<>> /\ Len(input) = 0
  BY <1>1, EmptySeq DEF IInv, Phases
<1>3. TypeOK'
  <2>1. batch' \in Seq(Entry) /\ Head(batch).id \in Msg
    BY <1>1, BatchTail DEF Entry
  <2>2. ready' \in Seq(Msg)
    BY <1>1, <2>1, ReadyType
  <2> QED BY <1>1, <2>1, <2>2 DEF IInv, TypeOK
<1>4. Distinct'
  <2>1. \A i \in 1..Len(queue), j \in 1..Len(batch') : queue[i].id # batch'[j].id
    <3> SUFFICES ASSUME NEW i \in 1..Len(queue), NEW j \in 1..Len(batch')
                 PROVE  queue[i].id # batch'[j].id
      OBVIOUS
    <3>1. PICK l \in 2..Len(batch) : batch'[j] = batch[l]
      BY <1>1, BatchTail
    <3>2. l \in 1..Len(batch)
      BY EntrySeq DEF IInv, TypeOK
    <3>3. queue[i].id # batch[l].id
      BY <3>2 DEF IInv, Distinct
    <3> QED BY <3>1, <3>3
  <2>2. \A i, j \in 1..Len(batch') : batch'[i].id = batch'[j].id => i = j
    BY <1>1, BatchTail
  <2> QED BY <1>1, <1>2, <2>1, <2>2 DEF IInv, Distinct
<1>5. QueueKeepsTime'
  <2>1. \A k \in 1..Len(batch') : due[batch'[k].id] = 0
    BY <1>1, BatchTail
  <2> QED BY <1>1, <2>1 DEF IInv, QueueKeepsTime
<1>6. Phases' /\ Searching'
  BY <1>1 DEF IInv, Phases, Searching
<1> QED BY <1>3, <1>4, <1>5, <1>6 DEF IInv

LEMMA SearchIInv == ASSUME IInv, Search PROVE IInv'
<1>1. /\ pc = "requeue" /\ batch # <<>> /\ pc' = "find" /\ at' = 1
      /\ rem' = Head(batch).repeat /\ Reinsert(Head(batch))
      /\ UNCHANGED <<sending, protocol, queue, timer, frames, input, batch, ready, due, gap>>
  BY DEF Search, control, history
<1>2. /\ Head(batch) = batch[1] /\ batch[1].repeat \in Nat /\ Len(queue) \in Nat
  <2>1. Head(batch) = batch[1] /\ batch[1] \in Entry
    BY <1>1, EntryTail DEF IInv, TypeOK
  <2> QED BY <2>1, EntrySeq DEF IInv, TypeOK, Entry
<1>3. TypeOK'
  BY <1>1, <1>2 DEF IInv, TypeOK, PCs
<1>4. Distinct'
  BY <1>1 DEF IInv, Distinct
<1>5. QueueKeepsTime'
  BY <1>1 DEF IInv, QueueKeepsTime
<1>6. Phases' /\ Searching'
  BY <1>1, <1>2 DEF IInv, Phases, Searching
<1> QED BY <1>3, <1>4, <1>5, <1>6 DEF IInv

LEMMA PassIInv == ASSUME IInv, Pass PROVE IInv'
<1>1. /\ pc = "find" /\ pc' = pc /\ at' = at + 1 /\ rem' = rem - queue[at].delay
      /\ at <= Len(queue) /\ rem >= queue[at].delay
      /\ UNCHANGED <<sending, protocol, queue, timer, frames, input, batch, ready, due, gap>>
  BY DEF Pass, Passes, control, history
<1>2. /\ at \in 1..(Len(queue) + 1) /\ gap = 0 /\ rem \in Nat
      /\ rem + (IF at = 1 THEN 0 ELSE due[queue[at - 1].id]) = batch[1].repeat
  BY <1>1 DEF IInv, Searching, Phases, TypeOK
<1>3. /\ Len(queue) \in Nat /\ at \in 1..Len(queue) /\ queue[at].delay \in Nat
  <2>1. Len(queue) \in Nat /\ at \in 1..Len(queue)
    BY <1>1, <1>2, EntrySeq DEF IInv, TypeOK
  <2>2. queue[at] \in Entry
    BY <2>1, EntrySeq DEF IInv, TypeOK
  <2> QED BY <2>1, <2>2 DEF Entry
<1>4. TypeOK'
  BY SMTT(60), <1>1, <1>2, <1>3 DEF IInv, TypeOK
<1>5. Distinct'
  BY <1>1 DEF IInv, Distinct
<1>6. QueueKeepsTime'
  BY <1>1 DEF IInv, QueueKeepsTime
<1>7. Phases'
  BY <1>1 DEF IInv, Phases
<1>8. Searching'
  <2>1. due[queue[at].id] = queue[at].delay
                             + (IF at = 1 THEN gap ELSE due[queue[at - 1].id])
    BY <1>3 DEF IInv, QueueKeepsTime
  <2>2. at = 1 \/ due[queue[at - 1].id] \in Nat
    <3>1. at = 1 \/ queue[at - 1] \in Entry
      BY <1>3, EntrySeq DEF IInv, TypeOK
    <3> QED BY <3>1 DEF IInv, TypeOK, Entry
  <2>3. rem' + due[queue[at].id] = batch[1].repeat
    BY <1>1, <1>2, <1>3, <2>1, <2>2
  <2>4. at' \in 1..(Len(queue) + 1) /\ at' # 1 /\ at' - 1 = at
    BY <1>1, <1>3
  <2> QED BY <1>1, <2>3, <2>4 DEF IInv, Searching
<1> QED BY <1>4, <1>5, <1>6, <1>7, <1>8 DEF IInv

LEMMA PutBackIInv == ASSUME IInv, PutBack PROVE IInv'
<1>1. PICK m, e : /\ m = batch[1] /\ m \in Entry /\ e = Reinserted(m, rem)
                  /\ queue' = Insert(queue, at, e)
                  /\ ready' = Append(ready, m.id)
                  /\ due' = [due EXCEPT ![m.id] = m.repeat]
  <2>1. Head(batch) = batch[1] /\ batch[1] \in Entry
    BY EntryTail DEF IInv, TypeOK, Searching, PutBack
  <2> QED BY <2>1 DEF PutBack
<1>2. /\ pc = "find" /\ pc' = "requeue" /\ at' = 0 /\ rem' = 0
      /\ batch # <<>> /\ batch' = Tail(batch) /\ ~Passes
      /\ UNCHANGED <<sending, protocol, timer, frames, input, gap>>
  BY DEF PutBack, control, IInv, Searching
<1>3. /\ queue \in Seq(Entry) /\ Len(queue) \in Nat /\ due \in [Msg -> Nat]
      /\ \A k \in 1..Len(queue) : queue[k].delay \in Nat /\ queue[k].id \in Msg
      /\ m.id \in Msg /\ m.repeat \in Nat /\ rem \in Nat
      /\ input = <<>> /\ Len(input) = 0 /\ gap = 0
  <2>1. \A k \in 1..Len(queue) : queue[k] \in Entry
    BY EntrySeq DEF IInv, TypeOK
  <2>2. input = <<>> /\ Len(input) = 0 /\ gap = 0
    BY <1>2, EmptySeq DEF IInv, Phases
  <2> QED BY <1>1, <2>1, <2>2, EntrySeq DEF IInv, TypeOK, Entry
<1>4. /\ at \in 1..(Len(queue) + 1) /\ m.repeat > 0
      /\ rem + (IF at = 1 THEN 0 ELSE due[queue[at - 1].id]) = m.repeat
      /\ at <= Len(queue) => rem < queue[at].delay
  <2>1. /\ at \in 1..(Len(queue) + 1) /\ Reinsert(m)
        /\ rem + (IF at = 1 THEN 0 ELSE due[queue[at - 1].id]) = m.repeat
    BY <1>1, <1>2 DEF IInv, Searching
  <2>2. at <= Len(queue) => at \in 1..Len(queue) /\ ~(rem >= queue[at].delay)
    BY <1>2, <1>3, <2>1 DEF Passes
  <2> QED BY <1>3, <2>1, <2>2 DEF Reinsert
<1>5. e \in Entry /\ e.id = m.id /\ e.delay = rem
  BY <1>1, <1>3 DEF Reinserted, Entry
<1>6. /\ queue' \in Seq(Entry) /\ Len(queue') = Len(queue) + 1
      /\ \A k \in 1..(Len(queue) + 1) :
           queue'[k] = IF k < at THEN queue[k]
                       ELSE IF k = at THEN e
                       ELSE IF k = at + 1
                            THEN WithDelay(queue[at], queue[at].delay - e.delay)
                       ELSE queue[k - 1]
  <2>1. at <= Len(queue) => e.delay <= queue[at].delay
    <3> SUFFICES ASSUME at <= Len(queue) PROVE e.delay <= queue[at].delay
      OBVIOUS
    <3>1. queue[at].delay \in Nat /\ rem < queue[at].delay
      BY <1>3, <1>4
    <3> QED BY <1>3, <1>5, <3>1
  <2>2. queue \in Seq(Entry) /\ at \in 1..(Len(queue) + 1) /\ e \in Entry
    BY <1>3, <1>4, <1>5
  <2>3. queue' = Insert(queue, at, e)
    BY <1>1
  <2> QED BY <2>1, <2>2, <2>3, InsertProperties
\* What stands at each place of the new queue.
<1>7. /\ queue'[at] = e
      /\ \A k \in 1..Len(queue) :
           /\ k < at => queue'[k] = queue[k]
           /\ k >= at => queue'[k + 1].id = queue[k].id
           /\ k = at => queue'[k + 1].delay = queue[k].delay - rem
           /\ k > at => queue'[k + 1].delay = queue[k].delay
  <2>1. queue'[at] = e
    <3>1. at \in 1..(Len(queue) + 1) /\ ~(at < at)
      BY <1>3, <1>4
    <3> QED BY <1>6, <3>1
  <2>2. ASSUME NEW k \in 1..Len(queue), k < at PROVE queue'[k] = queue[k]
    <3>1. k \in 1..(Len(queue) + 1)
      BY <1>3
    <3> QED BY <1>6, <2>2, <3>1
  <2>3. ASSUME NEW k \in 1..Len(queue), k = at
        PROVE  queue'[k + 1] = WithDelay(queue[k], queue[k].delay - rem)
    <3>1. PICK j \in 1..(Len(queue) + 1) : j = k + 1 /\ j = at + 1 /\ ~(j < at) /\ j # at
      BY <1>3, <1>4, <2>3
    <3>2. queue'[j] = WithDelay(queue[at], queue[at].delay - e.delay)
      BY <1>6, <3>1
    <3> QED BY <1>5, <2>3, <3>1, <3>2
  <2>4. ASSUME NEW k \in 1..Len(queue), k > at PROVE queue'[k + 1] = queue[k]
    <3>1. PICK j \in 1..(Len(queue) + 1) :
            j = k + 1 /\ j # at /\ j # at + 1 /\ ~(j < at) /\ j - 1 = k
      BY <1>3, <1>4, <2>4
    <3>2. queue'[j] = queue[j - 1]
      BY <1>6, <3>1
    <3> QED BY <3>1, <3>2
  <2>5. ASSUME NEW k \in 1..Len(queue), k >= at
        PROVE  /\ queue'[k + 1].id = queue[k].id
               /\ k = at => queue'[k + 1].delay = queue[k].delay - rem
               /\ k > at => queue'[k + 1].delay = queue[k].delay
    <3>1. CASE k = at
      <4>1. queue'[k + 1] = WithDelay(queue[k], queue[k].delay - rem)
        BY <2>3, <3>1
      <4>2. queue'[k + 1].id = queue[k].id
            /\ queue'[k + 1].delay = queue[k].delay - rem
        BY <4>1 DEF WithDelay
      <4> QED BY <1>3, <3>1, <4>2
    <3>2. CASE k > at
      BY <1>3, <1>4, <2>4, <3>2
    <3> QED BY <1>3, <1>4, <2>5, <3>1, <3>2
  <2>6. ASSUME NEW k \in 1..Len(queue)
        PROVE  /\ k < at => queue'[k] = queue[k]
               /\ k >= at => queue'[k + 1].id = queue[k].id
               /\ k = at => queue'[k + 1].delay = queue[k].delay - rem
               /\ k > at => queue'[k + 1].delay = queue[k].delay
    <3>1. CASE k < at
      BY <1>3, <1>4, <2>2, <3>1
    <3>2. CASE k >= at
      BY <1>3, <1>4, <2>5, <3>2
    <3> QED BY <1>3, <1>4, <3>1, <3>2
  <2> QED BY <2>1, <2>6
<1>8. \A k \in 1..(Len(queue) + 1) :
        \/ k \in 1..Len(queue) /\ k < at
        \/ k = at
        \/ k - 1 \in 1..Len(queue) /\ k - 1 >= at /\ (k - 1) + 1 = k
  BY <1>3, <1>4
<1>a. \A k \in 1..(Len(queue) + 1) :
        \/ k \in 1..Len(queue) /\ k < at /\ queue'[k].id = queue[k].id
        \/ k = at /\ queue'[k].id = m.id
        \/ k - 1 \in 1..Len(queue) /\ k - 1 >= at /\ queue'[k].id = queue[k - 1].id
  <2> TAKE k \in 1..(Len(queue) + 1)
  <2>1. CASE k \in 1..Len(queue) /\ k < at
    BY <1>7, <2>1
  <2>2. CASE k = at
    BY <1>5, <1>7, <2>2
  <2>3. CASE k - 1 \in 1..Len(queue) /\ k - 1 >= at /\ (k - 1) + 1 = k
    BY <1>7, <2>3
  <2> QED BY <1>8, <2>1, <2>2, <2>3
<1>9. \A k \in 1..Len(queue) : queue[k].id # m.id
  <2>1. 1 \in 1..Len(batch)
    BY <1>2, EntryTail DEF IInv, TypeOK
  <2> QED BY <1>1, <2>1 DEF IInv, Distinct
<1>10. /\ due' \in [Msg -> Nat] /\ due'[m.id] = m.repeat
       /\ \A k \in 1..Len(queue) : due'[queue[k].id] = due[queue[k].id]
       /\ \A k \in 1..Len(queue) : due[queue[k].id] \in Nat
  BY <1>1, <1>3, <1>9
<1>11. TypeOK'
  <2>1. batch' \in Seq(Entry)
    BY <1>2, BatchTail
  <2>2. ready' \in Seq(Msg)
    BY <1>1, <1>3, ReadyType
  <2> QED BY <1>2, <1>6, <1>10, <2>1, <2>2 DEF IInv, TypeOK, PCs
<1>12. Distinct'
  <2>1. ASSUME NEW i \in 1..Len(queue'), NEW j \in 1..Len(queue'),
               queue'[i].id = queue'[j].id
        PROVE  i = j
    <3>1. \A k \in 1..Len(queue) : \A l \in 1..Len(queue) :
            queue[k].id = queue[l].id => k = l
      BY DEF IInv, Distinct
    <3>2. i \in 1..(Len(queue) + 1) /\ j \in 1..(Len(queue) + 1)
      BY <1>6
    <3>3. CASE i = at
      <4>1. queue'[i].id = m.id
        BY <1>5, <1>7, <3>3
      <4> QED BY <1>3, <1>9, <1>a, <2>1, <3>2, <3>3, <4>1
    <3>4. CASE j = at
      <4>1. queue'[j].id = m.id
        BY <1>5, <1>7, <3>4
      <4> QED BY <1>3, <1>9, <1>a, <2>1, <3>2, <3>4, <4>1
    <3>5. CASE i # at /\ j # at
      <4>1. PICK k \in 1..Len(queue) :
              /\ queue'[i].id = queue[k].id
              /\ (i = k /\ k < at) \/ (i - 1 = k /\ k >= at)
        BY <1>a, <3>2, <3>5
      <4>2. PICK l \in 1..Len(queue) :
              /\ queue'[j].id = queue[l].id
              /\ (j = l /\ l < at) \/ (j - 1 = l /\ l >= at)
        BY <1>a, <3>2, <3>5
      <4>3. k = l
        BY <2>1, <3>1, <4>1, <4>2
      <4> QED BY <1>3, <1>4, <3>2, <4>1, <4>2, <4>3
    <3> QED BY <3>3, <3>4, <3>5
  <2>2. \A i \in 1..Len(queue), j \in 1..Len(batch') : queue[i].id # batch'[j].id
    <3> SUFFICES ASSUME NEW i \in 1..Len(queue), NEW j \in 1..Len(batch')
                 PROVE  queue[i].id # batch'[j].id
      OBVIOUS
    <3>1. PICK l \in 2..Len(batch) : batch'[j] = batch[l]
      BY <1>2, BatchTail
    <3>2. l \in 1..Len(batch)
      BY EntrySeq DEF IInv, TypeOK
    <3>3. queue[i].id # batch[l].id
      BY <3>2 DEF IInv, Distinct
    <3> QED BY <3>1, <3>3
  <2>3. \A j \in 1..Len(batch') : m.id # batch'[j].id
    BY <1>1, <1>2, BatchTail
  <2>4. ASSUME NEW i \in 1..Len(queue'), NEW j \in 1..Len(batch')
        PROVE  queue'[i].id # batch'[j].id
    <3>1. i \in 1..(Len(queue) + 1)
      BY <1>6
    <3>2. CASE queue'[i].id = m.id
      BY <2>3, <3>2
    <3>3. CASE \E k \in 1..Len(queue) : queue'[i].id = queue[k].id
      BY <2>2, <3>3
    <3> QED BY <1>a, <3>1, <3>2, <3>3
  <2>5. \A i, j \in 1..Len(batch') : batch'[i].id = batch'[j].id => i = j
    BY <1>2, BatchTail
  <2> QED BY <1>2, <1>3, <2>1, <2>4, <2>5 DEF Distinct
<1>13. QueueKeepsTime'
  <2>1. \A k \in 1..Len(queue) :
          due[queue[k].id] = queue[k].delay
                             + (IF k = 1 THEN 0 ELSE due[queue[k - 1].id])
    BY <1>3 DEF IInv, QueueKeepsTime
  <2>2. \A i, j \in 1..Len(queue) : i <= j => due[queue[i].id] <= due[queue[j].id]
    BY DEF IInv, QueueKeepsTime
  \* What is due before the place found is due no later than m, the rest later.
  <2>3. \A k \in 1..Len(queue) : k < at => due[queue[k].id] <= m.repeat
    <3> SUFFICES ASSUME NEW k \in 1..Len(queue), k < at
                 PROVE  due[queue[k].id] <= m.repeat
      OBVIOUS
    <3>1. at - 1 \in 1..Len(queue) /\ k <= at - 1 /\ at # 1
      BY <1>3, <1>4
    <3>2. due[queue[k].id] <= due[queue[at - 1].id]
      BY <2>2, <3>1
    <3> QED BY <1>3, <1>4, <1>10, <3>1, <3>2
  <2>4. \A k \in 1..Len(queue) : k >= at => due[queue[k].id] > m.repeat
    <3> SUFFICES ASSUME NEW k \in 1..Len(queue), k >= at
                 PROVE  due[queue[k].id] > m.repeat
      OBVIOUS
    <3>1. at \in 1..Len(queue)
      BY <1>3, <1>4
    <3>2. due[queue[at].id] <= due[queue[k].id]
      BY <2>2, <3>1
    <3>3. at = 1 \/ at - 1 \in 1..Len(queue)
      BY <1>3, <1>4
    <3>4. due[queue[at].id] > m.repeat
      BY SMTT(60), <1>3, <1>4, <1>10, <2>1, <3>1, <3>3
    <3> QED BY <1>3, <1>10, <3>1, <3>2, <3>4
  <2>5. ASSUME NEW i \in 1..Len(queue'), NEW j \in 1..Len(queue'), i <= j
        PROVE  due'[queue'[i].id] <= due'[queue'[j].id]
    <3>1. CASE i = at
      <4>1. due'[queue'[i].id] = m.repeat
        BY <1>5, <1>7, <1>10, <3>1
      <4>2. CASE j = at
        BY <1>3, <3>1, <4>1, <4>2
      <4>3. CASE j # at
        <5>1. PICK l \in 1..Len(queue) : queue'[j].id = queue[l].id /\ l >= at
          BY <1>3, <1>4, <1>6, <1>a, <2>5, <3>1, <4>3
        <5>2. due'[queue'[j].id] = due[queue[l].id] /\ due[queue[l].id] > m.repeat
          BY <1>10, <2>4, <5>1
        <5> QED BY <1>3, <1>10, <4>1, <5>2
      <4> QED BY <4>2, <4>3
    <3>2. CASE i \in 1..Len(queue) /\ i < at
      <4>1. due'[queue'[i].id] = due[queue[i].id]
        BY <1>7, <1>10, <3>2
      <4>2. CASE j = at
        BY <1>5, <1>7, <1>10, <2>3, <3>2, <4>1, <4>2
      <4>3. CASE j \in 1..Len(queue) /\ j < at
        BY <1>7, <1>10, <2>2, <2>5, <4>1, <4>3
      <4>4. CASE j - 1 \in 1..Len(queue) /\ j - 1 >= at
        <5>1. (j - 1) + 1 = j /\ i <= j - 1
          BY SMTT(60), <1>3, <1>4, <2>5, <3>2, <4>4
        <5>2. queue'[j].id = queue[j - 1].id
          BY <1>7, <4>4, <5>1
        <5> QED BY <1>10, <2>2, <3>2, <4>1, <4>4, <5>1, <5>2
      <4> QED BY <1>6, <1>8, <4>2, <4>3, <4>4
    <3>3. CASE i - 1 \in 1..Len(queue) /\ i - 1 >= at
      <4>1. (i - 1) + 1 = i /\ (j - 1) + 1 = j /\ i - 1 <= j - 1
            /\ j - 1 \in 1..Len(queue) /\ j - 1 >= at
        BY <1>3, <1>4, <1>6, <2>5, <3>3
      <4>2. queue'[i].id = queue[i - 1].id /\ queue'[j].id = queue[j - 1].id
        BY <1>7, <3>3, <4>1
      <4> QED BY <1>10, <2>2, <3>3, <4>1, <4>2
    <3> QED BY <1>6, <1>8, <3>1, <3>2, <3>3
  <2>6. ASSUME NEW k \in 1..Len(queue')
        PROVE  due'[queue'[k].id] = queue'[k].delay
                          + (IF k = 1 THEN 0 ELSE due'[queue'[k - 1].id])
    <3>1. CASE k \in 1..Len(queue) /\ k < at
      <4>1. k = 1 \/ (k - 1 \in 1..Len(queue) /\ k - 1 < at)
        BY SMTT(60), <1>3, <1>4, <3>1
      <4>2. queue'[k] = queue[k] /\ (k = 1 \/ queue'[k - 1] = queue[k - 1])
        BY <1>7, <3>1, <4>1
      <4>3. due'[queue[k].id] = due[queue[k].id]
            /\ (k = 1 \/ due'[queue[k - 1].id] = due[queue[k - 1].id])
        BY <1>10, <3>1, <4>1
      <4> QED BY <2>1, <3>1, <4>2, <4>3
    <3>2. CASE k = at
      <4>1. k = 1 \/ (k - 1 \in 1..Len(queue) /\ k - 1 < at)
        BY <1>3, <1>4, <3>2
      <4>2. due'[queue'[k].id] = m.repeat /\ queue'[k].delay = rem
        BY <1>5, <1>7, <1>10, <3>2
      <4> QED BY <1>4, <1>7, <1>10, <3>2, <4>1, <4>2
    <3>3. CASE k - 1 \in 1..Len(queue) /\ k - 1 = at
      <4>1. (k - 1) + 1 = k /\ k # 1
        BY <1>3, <1>4, <3>3
      <4>2. /\ queue'[k].id = queue[at].id
            /\ queue'[k].delay = queue[at].delay - rem
            /\ queue'[k - 1] = e
        BY <1>7, <3>3, <4>1
      <4>3. at = 1 \/ at - 1 \in 1..Len(queue)
        BY <1>3, <1>4
      <4>4. due[queue[at].id] = queue[at].delay - rem + m.repeat
        <5>1. at \in 1..Len(queue)
          BY <3>3
        <5>2. due[queue[at].id] = queue[at].delay
                + (IF at = 1 THEN 0 ELSE due[queue[at - 1].id])
          BY <2>1, <5>1
        <5>3. queue[at].delay \in Nat /\ (at = 1 \/ due[queue[at - 1].id] \in Nat)
          BY <1>3, <1>10, <4>3, <5>1
        <5>4. CASE at = 1
          BY <1>3, <1>4, <5>2, <5>3, <5>4
        <5>5. CASE at # 1
          BY SMTT(60), <1>3, <1>4, <5>2, <5>3, <5>5
        <5> QED BY <5>4, <5>5
      <4> QED BY <1>5, <1>10, <3>3, <4>1, <4>2, <4>4
    <3>4. CASE k - 1 \in 1..Len(queue) /\ k - 1 > at
      <4>1. /\ (k - 1) + 1 = k /\ k # 1 /\ k - 1 # 1
            /\ k - 2 \in 1..Len(queue) /\ k - 2 >= at /\ (k - 2) + 1 = k - 1
            /\ (k - 1) - 1 = k - 2
        BY SMTT(60), <1>3, <1>4, <3>4
      <4>2. /\ queue'[k].id = queue[k - 1].id
            /\ queue'[k].delay = queue[k - 1].delay
            /\ queue'[k - 1].id = queue[k - 2].id
        <5>1. \E l \in 1..Len(queue) : l = k - 1 /\ l > at /\ l >= at /\ l + 1 = k
          BY <1>3, <1>4, <3>4, <4>1
        <5>2. queue'[k].id = queue[k - 1].id /\ queue'[k].delay = queue[k - 1].delay
          BY <1>7, <5>1
        <5> QED BY <1>7, <4>1, <5>2
      <4>3. due[queue[k - 1].id] = queue[k - 1].delay + due[queue[k - 2].id]
        BY <2>1, <3>4, <4>1
      <4> QED BY <1>10, <3>4, <4>1, <4>2, <4>3
    <3> QED BY <1>3, <1>4, <1>6, <1>8, <3>1, <3>2, <3>3, <3>4
  <2>7. \A k \in 1..Len(batch') : due'[batch'[k].id] = 0
    <3> SUFFICES ASSUME NEW k \in 1..Len(batch') PROVE due'[batch'[k].id] = 0
      OBVIOUS
    <3>1. due[batch'[k].id] = 0 /\ batch'[k].id # m.id /\ batch' \in Seq(Entry)
      BY <1>1, <1>2, BatchTail
    <3>2. batch'[k].id \in Msg
      <4>1. batch'[k] \in Entry
        BY <3>1, EntrySeq
      <4> QED BY <4>1 DEF Entry
    <3> QED BY <1>1, <1>3, <3>1, <3>2
  <2> QED BY <1>2, <1>3, <2>5, <2>6, <2>7 DEF QueueKeepsTime
<1>14. Phases'
  BY <1>2 DEF IInv, Phases
<1>15. Searching'
  <2>1. CASE at = 1
    BY <1>2, <1>3, <1>4, <1>5, <1>7, <2>1 DEF Searching
  <2>2. CASE at # 1
    <3>1. 1 \in 1..Len(queue) /\ 1 < at /\ queue # <<>>
      BY <1>3, <1>4, <2>2, EntrySeq
    <3> QED BY <1>2, <1>7, <3>1 DEF IInv, Searching
  <2> QED BY <2>1, <2>2
<1> QED BY <1>11, <1>12, <1>13, <1>14, <1>15 DEF IInv

LEMMA FramesType ==
  ASSUME IInv, NEW s \in Seq(Msg), NEW t \in Seq(Seq(Msg))
  PROVE  <<s>> \o t \in Seq(Seq(Msg)) /\ <<s>> \o t # <<>>
<1>1. <<s>> \in Seq(Seq(Msg)) /\ Len(<<s>>) = 1
  OBVIOUS
<1>2. <<s>> \o t \in Seq(Seq(Msg)) /\ Len(<<s>> \o t) = 1 + Len(t) /\ Len(t) \in Nat
  BY <1>1, ConcatProperties, LenProperties
<1> QED BY <1>2, EmptySeq

LEMMA ArmIInv == ASSUME IInv, Arm PROVE IInv'
<1>1. /\ pc = "requeue" /\ pc' = "deliver" /\ batch = <<>> /\ ready' = <<>>
      /\ frames' = <<ready>> \o frames
      /\ UNCHANGED <<sending, protocol, input, batch, at, rem, due>>
  BY DEF Arm
<1>2. /\ queue \in Seq(Entry) /\ Len(queue) \in Nat /\ ready \in Seq(Msg)
      /\ \A k \in 1..Len(queue) : queue[k] \in Entry
      /\ input = <<>> /\ sending /\ timer = Off /\ gap = 0 /\ protocol = sending
      /\ due \in [Msg -> Nat]
  BY <1>1, EntrySeq DEF IInv, TypeOK, Phases
<1>3. frames' \in Seq(Seq(Msg)) /\ frames' # <<>>
  BY <1>1, <1>2, FramesType DEF IInv, TypeOK
<1>4. CASE queue = <<>>
  <2>1. UNCHANGED <<queue, gap, timer>>
    BY <1>4 DEF Arm
  <2>2. TypeOK'
    BY <1>1, <1>3, <2>1, EmptySeq DEF IInv, TypeOK, PCs
  <2>3. Distinct' /\ QueueKeepsTime'
    BY <1>1, <2>1 DEF IInv, Distinct, QueueKeepsTime
  <2>4. Phases' /\ Searching'
    BY <1>1, <1>2, <1>3, <1>4, <2>1 DEF Phases, Searching
  <2> QED BY <2>2, <2>3, <2>4 DEF IInv
<1>5. CASE queue # <<>>
  <2>1. PICK f : /\ f = WithDelay(queue[1], 0)
                 /\ queue' = [queue EXCEPT ![1] = f]
                 /\ gap' = queue[1].delay
                 /\ timer' = TimerStart(queue[1].delay)
    BY <1>5 DEF Arm
  <2>2. 1 \in 1..Len(queue) /\ queue[1] \in Entry
    BY <1>2, <1>5, EntryTail
  <2>3. queue[1].delay > 0 /\ queue[1].delay \in Nat
    BY <1>1, <1>5, <2>2 DEF IInv, Searching, Entry
  <2>4. f \in Entry /\ f.delay = 0 /\ f.id = queue[1].id
    BY <2>1, <2>2 DEF WithDelay, Entry
  <2>5. /\ queue' \in Seq(Entry) /\ Len(queue') = Len(queue) /\ queue'[1] = f
        /\ \A k \in 1..Len(queue) : k # 1 => queue'[k] = queue[k]
    BY <1>2, <2>1, <2>2, <2>4, ExceptSeq
  <2>6. \A k \in 1..Len(queue) : queue'[k].id = queue[k].id
    BY <2>4, <2>5
  <2>7. timer' \in {Off} \cup 0..(TimerLimit - 1)
    BY <2>1, <2>3, TimerStartType
  <2>8. TypeOK'
    BY <1>1, <1>3, <2>1, <2>3, <2>5, <2>7, EmptySeq DEF IInv, TypeOK, PCs
  <2>9. Distinct'
    BY <1>1, <2>5, <2>6 DEF IInv, Distinct
  <2>10. QueueKeepsTime'
    <3>1. ASSUME NEW k \in 1..Len(queue)
          PROVE  due[queue[k].id] = queue'[k].delay
                    + (IF k = 1 THEN gap' ELSE due[queue[k - 1].id])
      <4>1. due[queue[k].id] = queue[k].delay
                    + (IF k = 1 THEN gap ELSE due[queue[k - 1].id])
        BY DEF IInv, QueueKeepsTime
      <4>2. CASE k = 1
        BY <1>2, <2>1, <2>3, <2>4, <2>5, <4>1, <4>2
      <4>3. CASE k # 1
        BY <2>5, <4>1, <4>3
      <4> QED BY <4>2, <4>3
    <3>2. ASSUME NEW k \in 1..Len(queue)
          PROVE  due'[queue'[k].id] = queue'[k].delay
                    + (IF k = 1 THEN gap' ELSE due'[queue'[k - 1].id])
      <4>1. CASE k = 1
        BY <1>1, <2>6, <3>1, <4>1
      <4>2. CASE k # 1
        <5>1. k - 1 \in 1..Len(queue)
          BY <1>2, <4>2
        <5> QED BY <1>1, <2>6, <3>1, <4>2, <5>1
      <4> QED BY <4>1, <4>2
    <3>3. \A i, j \in 1..Len(queue) : i <= j => due'[queue'[i].id] <= due'[queue'[j].id]
      BY <1>1, <2>6 DEF IInv, QueueKeepsTime
    <3>4. \A k \in 1..Len(batch') : due'[batch'[k].id] = 0
      BY <1>1 DEF IInv, QueueKeepsTime
    <3> QED BY <2>5, <3>2, <3>3, <3>4 DEF QueueKeepsTime
  <2>11. queue' # <<>>
    BY <2>2, <2>5, EmptySeq
  <2>12. Phases' /\ Searching'
    BY <1>1, <1>2, <1>3, <2>1, <2>3, <2>4, <2>5, <2>11 DEF Phases, Searching
  <2> QED BY <2>8, <2>9, <2>10, <2>12 DEF IInv
<1> QED BY <1>4, <1>5

LEMMA DeliverIInv == ASSUME IInv, Deliver PROVE IInv'
<1>1. /\ pc = "deliver" /\ pc' \in {"deliver", "idle"} /\ frames # <<>>
      /\ frames' = <<Tail(Head(frames))>> \o Tail(frames) /\ Head(frames) # <<>>
      /\ UNCHANGED <<sending, protocol, queue, timer, input, batch, ready, at, rem,
                     due, gap>>
  BY DEF Deliver, locals, history, IInv, Phases
<1>2. Head(frames) \in Seq(Msg) /\ Tail(frames) \in Seq(Seq(Msg))
  BY <1>1, HeadTailProperties DEF IInv, TypeOK
<1>3. Tail(Head(frames)) \in Seq(Msg)
  BY <1>1, <1>2, HeadTailProperties
<1>4. frames' \in Seq(Seq(Msg)) /\ frames' # <<>>
  BY <1>1, <1>2, <1>3, FramesType
<1>5. TypeOK'
  BY <1>1, <1>4 DEF IInv, TypeOK, PCs
<1>6. Distinct' /\ QueueKeepsTime'
  BY <1>1 DEF IInv, Distinct, QueueKeepsTime
<1>7. Phases' /\ Searching'
  BY <1>1, <1>4 DEF IInv, Phases, Searching
<1> QED BY <1>5, <1>6, <1>7 DEF IInv

LEMMA CloseDialogIInv == ASSUME IInv, CloseDialog PROVE IInv'
<1>1. /\ pc = "idle" /\ pc' = "deliver" /\ frames # <<>>
      /\ UNCHANGED <<sending, protocol, queue, timer, frames, input, batch, ready, at,
                     rem, due, gap>>
  BY DEF CloseDialog, control, locals, history
<1>2. TypeOK'
  BY <1>1 DEF IInv, TypeOK, PCs
<1>3. Distinct' /\ QueueKeepsTime'
  BY <1>1 DEF IInv, Distinct, QueueKeepsTime
<1>4. Phases' /\ Searching'
  BY <1>1 DEF IInv, Phases, Searching
<1> QED BY <1>2, <1>3, <1>4 DEF IInv

(* Stopping, whoever asks for it outside of the handler's own loops.        *)
LEMMA StopSendingIInv ==
  ASSUME IInv, StopSending, pc \in {"idle", "deliver"}, pc' = "idle",
         UNCHANGED <<input, batch, ready, at, rem>>, frames' \in Seq(Seq(Msg))
  PROVE  IInv'
<1>1. /\ sending' = FALSE /\ protocol' = FALSE /\ queue' = <<>> /\ timer' = Off
      /\ due' = [m \in Msg |-> 0] /\ gap' = 0
  BY DEF StopSending
<1>2. batch = <<>> /\ input = <<>> /\ Len(batch) = 0 /\ Len(input) = 0 /\ Len(<<>>) = 0
  BY EmptySeq DEF IInv, Phases
<1>3. TypeOK'
  <2>1. due' \in [Msg -> Nat] /\ queue' \in Seq(Entry) /\ timer' = Off /\ gap' \in Nat
    BY <1>1, EmptySeq
  <2>2. /\ input' \in Seq(Entry) /\ batch' \in Seq(Entry) /\ ready' \in Seq(Msg)
        /\ at' \in Nat /\ rem' \in Nat
    BY DEF IInv, TypeOK
  <2> QED BY <1>1, <2>1, <2>2 DEF TypeOK, PCs
<1>4. Distinct' /\ QueueKeepsTime'
  BY <1>1, <1>2 DEF Distinct, QueueKeepsTime
<1>5. Phases' /\ Searching'
  BY <1>1, <1>2 DEF IInv, Phases, Searching, StopSending
<1> QED BY <1>3, <1>4, <1>5 DEF IInv

LEMMA StopIInv == ASSUME IInv, Stop PROVE IInv'
BY StopSendingIInv DEF Stop, locals, IInv, TypeOK

LEMMA ReturnIInv == ASSUME IInv, Return PROVE IInv'
<1>1. /\ pc = "deliver" /\ pc' = "idle" /\ frames' = Tail(frames) /\ frames # <<>>
      /\ UNCHANGED <<input, batch, ready, at, rem>>
  BY DEF Return, locals, IInv, Phases
<1>2. frames' \in Seq(Seq(Msg))
  BY <1>1, HeadTailProperties DEF IInv, TypeOK
<1>3. CASE StopSending
  BY <1>1, <1>2, <1>3, StopSendingIInv
<1>4. CASE queue # <<>> /\ UNCHANGED <<sending, protocol, queue, timer, due, gap>>
  <2>1. TypeOK'
    BY <1>1, <1>2, <1>4 DEF IInv, TypeOK, PCs
  <2>2. Distinct' /\ QueueKeepsTime'
    BY SMTT(60), <1>1, <1>4 DEF IInv, Distinct, QueueKeepsTime
  <2>3. Phases' /\ Searching'
    BY <1>1, <1>4 DEF IInv, Phases, Searching
  <2> QED BY <2>1, <2>2, <2>3 DEF IInv
<1> QED BY <1>3, <1>4 DEF Return, history

LEMMA StepIInv == IInv /\ [Next]_vars => IInv'
<1> SUFFICES ASSUME IInv, [Next]_vars PROVE IInv'
  OBVIOUS
<1>1. CASE Next
  BY <1>1, StartIInv, LoadIInv, TimerFiresIInv, SpliceIInv, DropIInv, SearchIInv,
     PassIInv, PutBackIInv, ArmIInv, DeliverIInv, CloseDialogIInv, ReturnIInv,
     StopIInv DEF Next, Handler
<1>2. CASE UNCHANGED vars
  <2>1. TypeOK' /\ Distinct' /\ QueueKeepsTime'
    BY <1>2 DEF vars, IInv, TypeOK, Distinct, QueueKeepsTime
  <2>2. Phases' /\ Searching'
    BY <1>2 DEF vars, IInv, Phases, Searching
  <2> QED BY <2>1, <2>2 DEF IInv
<1> QED BY <1>1, <1>2

(* The inductive invariant holds in every reachable state.                  *)
THEOREM Invariance == Spec => []IInv
BY InitIInv, StepIInv, PTL DEF Spec

(* Every variable of the paced sender keeps its type: however messages are  *)
(* put back, no delay in the queue and no newDelay ever becomes negative.   *)
THEOREM TypeCorrect == Spec => []TypeOK
<1>1. IInv => TypeOK
  BY DEF IInv
<1> QED BY <1>1, Invariance, PTL

(* The assertions of start() and sendPendingAndWait() never fail.           *)
THEOREM AssertionsNeverFail == Spec => []AssertionsHold
<1>1. IInv => AssertionsHold
  <2> SUFFICES ASSUME IInv PROVE AssertionsHold
    OBVIOUS
  <2>1. pc \in {"requeue", "find"} => sending /\ protocol
    BY DEF IInv, Phases
  <2>2. pc = "requeue" /\ queue # <<>> => queue[1].delay > 0
    BY DEF IInv, Searching
  <2>3. ~sending => queue = <<>>
    BY DEF IInv, Phases
  <2> QED BY <2>1, <2>2, <2>3 DEF AssertionsHold
<1> QED BY <1>1, Invariance, PTL

(* The delta queue keeps time whatever is put back where.                   *)
THEOREM TimeIsKept == Spec => []QueueKeepsTime
<1>1. IInv => QueueKeepsTime
  BY DEF IInv
<1> QED BY <1>1, Invariance, PTL

-----------------------------------------------------------------------------
Fit(e) == e.delay < TimerLimit /\ e.repeat < TimerLimit

AllFit(s) == \A k \in 1..Len(s) : Fit(s[k])

(* If every delay and period of the lists fits the timer, so does whatever  *)
(* the queue makes of them.                                                 *)
Fits == AllFit(input) /\ AllFit(queue) /\ AllFit(batch) /\ gap < TimerLimit

LEMMA AllFitEmpty == AllFit(<<>>)
<1>1. Len(<<>>) = 0
  BY EmptySeq
<1> QED BY <1>1 DEF AllFit

LEMMA AllFitTail ==
  ASSUME NEW s \in Seq(Entry), s # <<>>, AllFit(s)
  PROVE  AllFit(Tail(s)) /\ Fit(Head(s))
<1>1. Fit(Head(s))
  BY EntryTail DEF AllFit
<1>2. ASSUME NEW k \in 1..Len(Tail(s)) PROVE Fit(Tail(s)[k])
  <2>1. k + 1 \in 1..Len(s) /\ Tail(s)[k] = s[k + 1]
    BY EntryTail, EntrySeq
  <2> QED BY <2>1 DEF AllFit
<1> QED BY <1>1, <1>2 DEF AllFit

LEMMA AllFitAppend ==
  ASSUME NEW s \in Seq(Entry), NEW e \in Entry, AllFit(s), Fit(e)
  PROVE  AllFit(Append(s, e))
<1>1. \A k \in 1..(Len(s) + 1) : k = Len(s) + 1 \/ k \in 1..Len(s)
  BY EntrySeq
<1> QED BY <1>1, EntryAppend DEF AllFit

LEMMA FitsStart ==
  ASSUME IInv, Fits, DelaysFit, NEW list \in SendLists, Start(list) PROVE Fits'
<1>1. AllFit(list)
  BY DEF DelaysFit, AllFit, Fit
<1>2. input' = list /\ UNCHANGED <<queue, batch, gap>>
  BY DEF Start
<1> QED BY <1>1, <1>2 DEF Fits

LEMMA FitsLoad == ASSUME IInv, Fits, Load PROVE Fits'
<1>1. UNCHANGED <<batch, gap>>
  BY DEF Load
<1>2. CASE input = <<>>
  <2>1. UNCHANGED <<queue, input>>
    BY <1>2 DEF Load
  <2> QED BY <1>1, <2>1 DEF Fits
<1>3. CASE input # <<>>
  <2>1. queue' = Append(queue, Head(input)) /\ input' = Tail(input)
    BY <1>3 DEF Load
  <2>2. input \in Seq(Entry) /\ queue \in Seq(Entry) /\ Head(input) \in Entry
    BY <1>3, EntryTail DEF IInv, TypeOK
  <2>3. AllFit(Tail(input)) /\ Fit(Head(input))
    BY <1>3, <2>2, AllFitTail DEF Fits
  <2>4. AllFit(Append(queue, Head(input)))
    BY <2>2, <2>3, AllFitAppend DEF Fits
  <2> QED BY <1>1, <2>1, <2>3, <2>4 DEF Fits
<1> QED BY <1>2, <1>3

LEMMA FitsSplice == ASSUME IInv, Fits, Splice PROVE Fits'
<1>1. UNCHANGED <<input, gap>>
  BY DEF Splice, history
<1>2. CASE ~FrontDue
  <2>1. UNCHANGED <<queue, batch>>
    BY <1>2 DEF Splice
  <2> QED BY <1>1, <2>1 DEF Fits
<1>3. CASE FrontDue
  <2>1. batch' = Append(batch, Head(queue)) /\ queue' = Tail(queue)
    BY <1>3 DEF Splice
  <2>2. queue # <<>> /\ queue \in Seq(Entry) /\ batch \in Seq(Entry) /\ Head(queue) \in Entry
    BY <1>3, EntryTail DEF IInv, TypeOK, FrontDue
  <2>3. AllFit(Tail(queue)) /\ Fit(Head(queue))
    BY <2>2, AllFitTail DEF Fits
  <2>4. AllFit(Append(batch, Head(queue)))
    BY <2>2, <2>3, AllFitAppend DEF Fits
  <2> QED BY <1>1, <2>1, <2>3, <2>4 DEF Fits
<1> QED BY <1>2, <1>3

LEMMA FitsDrop == ASSUME IInv, Fits, Drop PROVE Fits'
<1>1. batch # <<>> /\ batch' = Tail(batch) /\ UNCHANGED <<queue, input, gap>>
  BY DEF Drop, history
<1>2. AllFit(Tail(batch))
  BY <1>1, AllFitTail DEF Fits, IInv, TypeOK
<1> QED BY <1>1, <1>2 DEF Fits

LEMMA FitsPutBack == ASSUME IInv, Fits, PutBack PROVE Fits'
<1>1. PICK m, e : /\ m = Head(batch) /\ e = Reinserted(m, rem)
                  /\ queue' = Insert(queue, at, e) /\ batch' = Tail(batch)
                  /\ UNCHANGED <<input, gap>>
  BY DEF PutBack
<1>2. /\ m = batch[1] /\ m \in Entry /\ batch # <<>> /\ AllFit(Tail(batch)) /\ Fit(m)
  <2>1. batch # <<>> /\ batch \in Seq(Entry)
    BY DEF IInv, Searching, PutBack, TypeOK
  <2> QED BY <1>1, <2>1, EntryTail, AllFitTail DEF Fits
<1>3. /\ queue \in Seq(Entry) /\ Len(queue) \in Nat /\ rem \in Nat /\ TimerLimit \in Nat
      /\ \A k \in 1..Len(queue) : queue[k] \in Entry /\ queue[k].delay \in Nat
      /\ \A k \in 1..Len(queue) : queue[k].id \in Msg
  <2>1. \A k \in 1..Len(queue) : queue[k] \in Entry
    BY EntrySeq DEF IInv, TypeOK
  <2> QED BY <2>1, EntrySeq, BoundsAssumption DEF IInv, TypeOK, Entry
<1>4. /\ at \in 1..(Len(queue) + 1)
      /\ rem + (IF at = 1 THEN 0 ELSE due[queue[at - 1].id]) = m.repeat
      /\ at <= Len(queue) => rem < queue[at].delay
  <2>1. pc = "find" /\ ~Passes
    BY DEF PutBack
  <2>2. /\ at \in 1..(Len(queue) + 1)
        /\ rem + (IF at = 1 THEN 0 ELSE due[queue[at - 1].id]) = m.repeat
    BY <1>2, <2>1 DEF IInv, Searching
  <2>3. at <= Len(queue) => at \in 1..Len(queue) /\ ~(rem >= queue[at].delay)
    BY <1>3, <2>1, <2>2 DEF Passes
  <2> QED BY <1>3, <2>2, <2>3
<1>5. rem <= m.repeat
  <2>1. m.repeat \in Nat
    BY <1>2 DEF Entry
  <2>2. at = 1 \/ due[queue[at - 1].id] \in Nat
    <3>1. at = 1 \/ at - 1 \in 1..Len(queue)
      BY <1>3, <1>4
    <3> QED BY <1>3, <3>1 DEF IInv, TypeOK
  <2> QED BY <1>3, <1>4, <2>1, <2>2
<1>6. e \in Entry /\ Fit(e) /\ e.delay = rem
  <2>1. e \in Entry /\ e.delay = rem /\ e.repeat = m.repeat
    BY <1>1, <1>2, <1>3 DEF Reinserted, Entry
  <2>2. m.repeat < TimerLimit /\ m.repeat \in Nat
    BY <1>2 DEF Fit, Entry
  <2> QED BY <1>3, <1>5, <2>1, <2>2 DEF Fit
<1>7. /\ Len(queue') = Len(queue) + 1
      /\ \A k \in 1..(Len(queue) + 1) :
           queue'[k] = IF k < at THEN queue[k]
                       ELSE IF k = at THEN e
                       ELSE IF k = at + 1
                            THEN WithDelay(queue[at], queue[at].delay - e.delay)
                       ELSE queue[k - 1]
  BY <1>1, <1>3, <1>4, <1>6, InsertProperties
<1>8. ASSUME NEW k \in 1..(Len(queue) + 1) PROVE Fit(queue'[k])
  <2>1. CASE k < at
    <3>1. k \in 1..Len(queue)
      BY <1>3, <1>4, <2>1
    <3> QED BY <1>7, <2>1, <3>1 DEF Fits, AllFit
  <2>2. CASE k = at
    BY <1>4, <1>6, <1>7, <2>2
  <2>3. CASE k = at + 1
    <3>1. at \in 1..Len(queue) /\ ~(k < at) /\ k # at
      BY <1>3, <1>4, <2>3
    <3>2. Fit(queue[at])
      BY <3>1 DEF Fits, AllFit
    <3>3. queue'[k] = WithDelay(queue[at], queue[at].delay - rem)
      BY <1>6, <1>7, <2>3, <3>1
    <3>4. queue'[k].delay = queue[at].delay - rem /\ queue'[k].repeat = queue[at].repeat
      BY <3>3 DEF WithDelay
    <3> QED BY <1>3, <3>1, <3>2, <3>4 DEF Fit
  <2>4. CASE k > at + 1
    <3>1. k - 1 \in 1..Len(queue) /\ ~(k < at) /\ k # at /\ k # at + 1
      BY <1>3, <1>4, <2>4
    <3>2. queue'[k] = queue[k - 1]
      BY <1>7, <3>1
    <3> QED BY <3>1, <3>2 DEF Fits, AllFit
  <2> QED BY <1>3, <1>4, <2>1, <2>2, <2>3, <2>4
<1>9. AllFit(queue')
  BY <1>7, <1>8 DEF AllFit
<1> QED BY <1>1, <1>2, <1>9 DEF Fits, AllFit

LEMMA FitsArm == ASSUME IInv, Fits, Arm PROVE Fits'
<1>1. UNCHANGED <<input, batch>>
  BY DEF Arm
<1>2. CASE queue = <<>>
  <2>1. UNCHANGED <<queue, gap>>
    BY <1>2 DEF Arm
  <2> QED BY <1>1, <2>1 DEF Fits
<1>3. CASE queue # <<>>
  <2>1. PICK f : /\ f = WithDelay(queue[1], 0)
                 /\ queue' = [queue EXCEPT ![1] = f] /\ gap' = queue[1].delay
    BY <1>3 DEF Arm
  <2>2. queue \in Seq(Entry) /\ 1 \in 1..Len(queue) /\ queue[1] \in Entry
    BY <1>3, EntryTail DEF IInv, TypeOK
  <2>3. f \in Entry /\ f.delay = 0 /\ f.repeat = queue[1].repeat
    BY <2>1, <2>2 DEF WithDelay, Entry
  <2>4. /\ Len(queue') = Len(queue) /\ queue'[1] = f
        /\ \A k \in 1..Len(queue) : k # 1 => queue'[k] = queue[k]
    BY <2>1, <2>2, <2>3, ExceptSeq
  <2>5. Fit(queue[1])
    BY <2>2 DEF Fits, AllFit
  <2>6. Fit(f) /\ gap' < TimerLimit
    BY <2>1, <2>3, <2>5, BoundsAssumption DEF Fit
  <2>7. AllFit(queue')
    BY <2>4, <2>6 DEF Fits, AllFit
  <2> QED BY <1>1, <2>6, <2>7 DEF Fits
<1> QED BY <1>2, <1>3

LEMMA FitsStep == DelaysFit => (IInv /\ Fits /\ [Next]_vars => Fits')
<1> SUFFICES ASSUME DelaysFit, IInv, Fits, [Next]_vars PROVE Fits'
  OBVIOUS
<1>1. ASSUME UNCHANGED <<queue, input, batch, gap>> PROVE Fits'
  BY <1>1 DEF Fits
<1>2. ASSUME UNCHANGED <<queue, input, batch>>, gap' = 0 PROVE Fits'
  BY <1>2, BoundsAssumption DEF Fits
<1>3. ASSUME StopSending, UNCHANGED <<input, batch>> PROVE Fits'
  BY <1>3, AllFitEmpty, BoundsAssumption DEF Fits, StopSending
<1>4. CASE \E list \in SendLists : Start(list)
  BY <1>4, FitsStart
<1>5. CASE Handler
  <2>1. CASE Load \/ Splice \/ Drop \/ PutBack \/ Arm
    BY <2>1, FitsLoad, FitsSplice, FitsDrop, FitsPutBack, FitsArm
  <2>2. CASE Search \/ Pass \/ Deliver
    BY <1>1, <2>2 DEF Search, Pass, Deliver, locals, history
  <2>3. CASE Return
    BY <1>1, <1>3, <2>3 DEF Return, locals, history
  <2> QED BY <1>5, <2>1, <2>2, <2>3 DEF Handler
<1>6. CASE TimerFires
  BY <1>2, <1>6 DEF TimerFires, locals
<1>7. CASE CloseDialog
  BY <1>1, <1>7 DEF CloseDialog, locals, history
<1>8. CASE Stop
  BY <1>3, <1>8 DEF Stop, locals
<1>9. CASE UNCHANGED vars
  BY <1>1, <1>9 DEF vars
<1> QED BY <1>4, <1>5, <1>6, <1>7, <1>8, <1>9 DEF Next

(* If every delay and period of the lists fits the timer's int, no wakeup   *)
(* is ever lost.  (A delay that does not fit is cut off by                  *)
(* static_cast<int>, and the timer may not start at all.)                   *)
THEOREM WakeupIsKept == DelaysFit => (Spec => []TimerGuardsQueue)
<1> DEFINE J == DelaysFit /\ Fits
<1>1. DelaysFit /\ Init => J
  BY AllFitEmpty, BoundsAssumption DEF Init, Fits
<1>2. IInv /\ J /\ [Next]_vars => J'
  <2>1. DelaysFit => DelaysFit'
    BY DEF DelaysFit
  <2> QED BY <2>1, FitsStep
<1>3. IInv /\ Fits => TimerGuardsQueue
  <2> SUFFICES ASSUME IInv, Fits, pc = "idle"
               PROVE  /\ queue # <<>> => timer = gap /\ timer = due[queue[1].id] /\ timer > 0
                      /\ queue = <<>> => timer = Off
                      /\ frames = <<>> => (sending <=> queue # <<>>)
    BY DEF TimerGuardsQueue
  <2>1. /\ queue # <<>> => gap > 0 /\ queue[1].delay = 0 /\ timer = TimerStart(gap)
        /\ queue = <<>> => timer = Off
        /\ frames = <<>> /\ sending => queue # <<>>
        /\ ~sending => queue = <<>>
    BY DEF IInv, Phases
  <2>2. TimerStart(gap) = gap
    <3>1. gap \in Nat /\ gap < TimerLimit /\ TimerLimit \in Nat \ {0}
      BY BoundsAssumption DEF Fits, IInv, TypeOK
    <3>2. \A N \in Nat \ {0} : gap < N => gap % N = gap
      BY <3>1
    <3>3. gap % (2 * TimerLimit) = gap
      BY <3>1, <3>2
    <3> QED BY <3>1, <3>3 DEF TimerStart, ToInt
  <2>3. queue # <<>> => due[queue[1].id] = queue[1].delay + gap
    <3>1. queue # <<>> => 1 \in 1..Len(queue)
      BY EntryTail DEF IInv, TypeOK
    <3> QED BY <3>1 DEF IInv, QueueKeepsTime
  <2>4. queue # <<>> => timer = gap /\ timer = due[queue[1].id] /\ timer > 0
    BY <2>1, <2>2, <2>3 DEF IInv, TypeOK
  <2> QED BY <2>1, <2>4
<1> HIDE DEF J
<1>4. IInv /\ J => TimerGuardsQueue
  BY <1>3 DEF J
<1> QED BY <1>1, <1>2, <1>4, Invariance, PTL DEF Spec

-----------------------------------------------------------------------------
(* The paced sender implements SendSchedule: the delta queue, the batch the *)
(* handler has in hand and the history of due times stand for the agenda,   *)
(* and every step of a handler is a step of the schedule or none at all.    *)

(* The agenda item of an entry under the due times d.                       *)
ItemOf(e, d) ==
  [id |-> e.id, wait |-> d[e.id], repeat |-> e.repeat, count |-> e.count]

ItemsOf(s, d) == {ItemOf(s[k], d) : k \in 1..Len(s)}

LEMMA AgendaIs == Agenda = ItemsOf(queue, due) \cup ItemsOf(batch, due)
BY DEF Agenda, ItemsOf, ItemOf, Item

LEMMA AgendaBecomes == Agenda' = ItemsOf(queue', due') \cup ItemsOf(batch', due')
BY DEF Agenda, ItemsOf, ItemOf, Item

LEMMA NoItems == ASSUME NEW d PROVE ItemsOf(<<>>, d) = {}
BY EmptySeq DEF ItemsOf

LEMMA ItemsOfAppend ==
  ASSUME NEW s \in Seq(Entry), NEW e \in Entry, NEW d
  PROVE  ItemsOf(Append(s, e), d) = ItemsOf(s, d) \cup {ItemOf(e, d)}
<1> DEFINE t == Append(s, e)
<1>1. /\ Len(s) \in Nat /\ Len(t) = Len(s) + 1
      /\ \A k \in 1..Len(s) : t[k] = s[k]
      /\ t[Len(s) + 1] = e
  BY EntryAppend, EntrySeq
<1> HIDE DEF t
<1>2. ASSUME NEW k \in 1..Len(t)
      PROVE  ItemOf(t[k], d) \in ItemsOf(s, d) \cup {ItemOf(e, d)}
  <2>1. CASE k = Len(s) + 1
    BY <1>1, <2>1
  <2>2. CASE k # Len(s) + 1
    <3>1. k \in 1..Len(s) /\ t[k] = s[k]
      BY <1>1, <2>2
    <3> QED BY <3>1 DEF ItemsOf
  <2> QED BY <2>1, <2>2
<1>3. ASSUME NEW k \in 1..Len(s) PROVE ItemOf(s[k], d) \in ItemsOf(t, d)
  <2>1. k \in 1..Len(t) /\ t[k] = s[k]
    BY <1>1
  <2> QED BY <2>1 DEF ItemsOf
<1>4. ItemOf(e, d) \in ItemsOf(t, d)
  <2>1. Len(t) \in 1..Len(t) /\ t[Len(t)] = e
    BY <1>1
  <2> QED BY <2>1 DEF ItemsOf
<1>5. ItemsOf(t, d) \subseteq ItemsOf(s, d) \cup {ItemOf(e, d)}
  BY <1>2 DEF ItemsOf
<1>6. ItemsOf(s, d) \subseteq ItemsOf(t, d)
  BY <1>3 DEF ItemsOf
<1> QED BY <1>4, <1>5, <1>6 DEF t

LEMMA ItemsOfTail ==
  ASSUME NEW s \in Seq(Entry), s # <<>>, NEW d
  PROVE  ItemsOf(s, d) = {ItemOf(Head(s), d)} \cup ItemsOf(Tail(s), d)
<1> DEFINE t == Tail(s)
<1>1. /\ Len(s) \in Nat /\ Len(t) = Len(s) - 1 /\ Head(s) = s[1] /\ 1 \in 1..Len(s)
      /\ \A k \in 1..(Len(s) - 1) : t[k] = s[k + 1]
  BY EntryTail, EntrySeq
<1> HIDE DEF t
<1>2. ASSUME NEW k \in 1..Len(s)
      PROVE  ItemOf(s[k], d) \in {ItemOf(Head(s), d)} \cup ItemsOf(t, d)
  <2>1. CASE k = 1
    BY <1>1, <2>1
  <2>2. CASE k # 1
    <3>1. k - 1 \in 1..Len(t) /\ t[k - 1] = s[k]
      BY <1>1, <2>2
    <3> QED BY <3>1 DEF ItemsOf
  <2> QED BY <2>1, <2>2
<1>3. ASSUME NEW k \in 1..Len(t) PROVE ItemOf(t[k], d) \in ItemsOf(s, d)
  <2>1. k + 1 \in 1..Len(s) /\ t[k] = s[k + 1]
    BY <1>1
  <2> QED BY <2>1 DEF ItemsOf
<1>4. ItemOf(Head(s), d) \in ItemsOf(s, d)
  BY <1>1 DEF ItemsOf
<1>5. ItemsOf(s, d) \subseteq {ItemOf(Head(s), d)} \cup ItemsOf(t, d)
  BY <1>2 DEF ItemsOf
<1>6. ItemsOf(t, d) \subseteq ItemsOf(s, d)
  BY <1>3 DEF ItemsOf
<1> QED BY <1>4, <1>5, <1>6 DEF t

(* Due times of other messages do not matter.                               *)
LEMMA ItemsOfSame ==
  ASSUME NEW s \in Seq(Entry), NEW d, NEW f,
         \A k \in 1..Len(s) : d[s[k].id] = f[s[k].id]
  PROVE  ItemsOf(s, d) = ItemsOf(s, f)
<1>1. \A k \in 1..Len(s) : ItemOf(s[k], d) = ItemOf(s[k], f)
  BY DEF ItemOf
<1> QED BY <1>1 DEF ItemsOf

(* A delay in the queue does not show in the agenda.                        *)
LEMMA ItemOfWithDelay ==
  ASSUME NEW e \in Entry, NEW x, NEW d
  PROVE  ItemOf(WithDelay(e, x), d) = ItemOf(e, d)
BY DEF ItemOf, WithDelay

LEMMA ItemsOfInsert ==
  ASSUME NEW q \in Seq(Entry), NEW i \in 1..(Len(q) + 1), NEW e \in Entry, NEW d,
         i <= Len(q) => e.delay <= q[i].delay
  PROVE  ItemsOf(Insert(q, i, e), d) = ItemsOf(q, d) \cup {ItemOf(e, d)}
<1> DEFINE r == Insert(q, i, e)
<1>1. /\ Len(q) \in Nat /\ \A k \in 1..Len(q) : q[k] \in Entry
  BY EntrySeq
<1>2. /\ Len(r) = Len(q) + 1
      /\ \A k \in 1..(Len(q) + 1) :
           r[k] = IF k < i THEN q[k]
                  ELSE IF k = i THEN e
                  ELSE IF k = i + 1 THEN WithDelay(q[i], q[i].delay - e.delay)
                  ELSE q[k - 1]
  BY InsertProperties
<1> HIDE DEF r
<1>3. ASSUME NEW k \in 1..Len(r)
      PROVE  ItemOf(r[k], d) \in ItemsOf(q, d) \cup {ItemOf(e, d)}
  <2>1. CASE k < i
    <3>1. r[k] = q[k] /\ k \in 1..Len(q)
      BY <1>1, <1>2, <2>1
    <3> QED BY <3>1 DEF ItemsOf
  <2>2. CASE k = i
    BY <1>1, <1>2, <2>2
  <2>3. CASE k = i + 1
    <3>1. r[k] = WithDelay(q[i], q[i].delay - e.delay) /\ i \in 1..Len(q)
      BY <1>1, <1>2, <2>3
    <3>2. ItemOf(r[k], d) = ItemOf(q[i], d)
      BY <1>1, <3>1, ItemOfWithDelay
    <3> QED BY <3>1, <3>2 DEF ItemsOf
  <2>4. CASE k > i + 1
    <3>1. k \in 1..(Len(q) + 1) /\ k - 1 \in 1..Len(q)
      BY <1>1, <1>2, <2>4
    <3>2. ~(k < i) /\ k # i /\ k # i + 1
      BY <3>1, <2>4, <1>1
    <3>3. r[k] = q[k - 1]
      BY <3>1, <3>2, <1>2
    <3> QED BY <3>1, <3>3 DEF ItemsOf
  <2>5. k < i \/ k = i \/ k = i + 1 \/ k > i + 1
    BY <1>1, <1>2
  <2> QED BY <2>1, <2>2, <2>3, <2>4, <2>5
<1>4. ASSUME NEW k \in 1..Len(q) PROVE ItemOf(q[k], d) \in ItemsOf(r, d)
  <2>1. CASE k < i
    <3>1. r[k] = q[k] /\ k \in 1..Len(r)
      BY <1>1, <1>2, <2>1
    <3> QED BY <3>1 DEF ItemsOf
  <2>2. CASE k = i
    <3>1. r[k + 1] = WithDelay(q[i], q[i].delay - e.delay) /\ k + 1 \in 1..Len(r)
      BY <1>1, <1>2, <2>2
    <3>2. ItemOf(r[k + 1], d) = ItemOf(q[k], d)
      BY <1>1, <2>2, <3>1, ItemOfWithDelay
    <3> QED BY <3>1, <3>2 DEF ItemsOf
  <2>3. CASE k > i
    <3>1. r[k + 1] = q[k] /\ k + 1 \in 1..Len(r)
      BY <1>1, <1>2, <2>3
    <3> QED BY <3>1 DEF ItemsOf
  <2> QED BY <2>1, <2>2, <2>3, <1>1
<1>5. ItemOf(e, d) \in ItemsOf(r, d)
  <2>1. r[i] = e /\ i \in 1..Len(r)
    BY <1>1, <1>2
  <2> QED BY <2>1 DEF ItemsOf
<1>6. ItemsOf(r, d) \subseteq ItemsOf(q, d) \cup {ItemOf(e, d)}
  BY <1>3 DEF ItemsOf
<1>7. ItemsOf(q, d) \subseteq ItemsOf(r, d)
  BY <1>4 DEF ItemsOf
<1> QED BY <1>5, <1>6, <1>7 DEF r

-----------------------------------------------------------------------------
(* What a step knows of the queue and the batch it starts from.             *)
LEMMA Sequences ==
  ASSUME IInv
  PROVE  /\ queue \in Seq(Entry) /\ batch \in Seq(Entry) /\ input \in Seq(Entry)
         /\ due \in [Msg -> Nat] /\ gap \in Nat
BY DEF IInv, TypeOK

LEMMA Stutters ==
  ASSUME Agenda' = Agenda, input' = input, (pc = "load") <=> (pc' = "load")
  PROVE  UNCHANGED Schedule!vars
<1>1. (pc = "load")' = (pc = "load")
  OBVIOUS
<1> QED BY <1>1 DEF Schedule!vars

LEMMA InitImplements == Init => Schedule!Init
<1> SUFFICES ASSUME Init PROVE Schedule!Init
  OBVIOUS
<1>1. queue = <<>> /\ batch = <<>> /\ input = <<>> /\ pc = "idle"
  BY DEF Init
<1>2. Agenda = {}
  BY <1>1, AgendaIs, NoItems
<1> QED BY <1>1, <1>2 DEF Schedule!Init

(* start() opens the schedule ...                                           *)
LEMMA StartImplements ==
  ASSUME IInv, NEW list \in SendLists, Start(list) PROVE Schedule!Open(list)
<1>1. queue = <<>> /\ batch = <<>> /\ pc = "idle"
  BY DEF IInv, Phases, Start
<1>2. queue' = queue /\ batch' = batch /\ input' = list /\ pc' = "load"
  BY DEF Start
<1>3. Agenda = {} /\ Agenda' = {}
  BY <1>1, <1>2, AgendaIs, AgendaBecomes, NoItems
<1> QED BY <1>1, <1>2, <1>3 DEF Schedule!Open

(* ... plans message by message, and closes it.                             *)
LEMMA LoadImplements == ASSUME IInv, Load PROVE Schedule!Plan \/ Schedule!Close
<1>1. pc = "load" /\ batch = <<>> /\ batch' = batch
  BY DEF IInv, Phases, Load
<1>2. CASE input = <<>>
  <2>1. pc' = "splice" /\ queue' = queue /\ due' = due /\ input' = input
    BY <1>2 DEF Load
  <2>2. Agenda' = Agenda
    BY <1>1, <2>1, AgendaIs, AgendaBecomes
  <2> QED BY <1>1, <1>2, <2>1, <2>2 DEF Schedule!Close
<1>3. CASE input # <<>>
  <2>1. PICK m : /\ m = Head(input) /\ input' = Tail(input)
                 /\ queue' = Append(queue, m)
                 /\ due' = [due EXCEPT ![m.id] = LastDue + m.delay]
                 /\ pc' = pc
    BY <1>3 DEF Load
  <2>2. m \in Entry /\ m = input[1] /\ 1 \in 1..Len(input)
    BY <1>3, <2>1, EntryTail, Sequences
  <2>3. m.id \in Msg /\ m.delay \in Nat
    BY <2>2 DEF Entry
  <2>4. \A k \in 1..Len(queue) : queue[k].id # m.id /\ queue[k].id \in Msg
    <3>1. \A k \in 1..Len(queue) : queue[k].id # m.id
      BY <2>2 DEF IInv, Distinct
    <3>2. \A k \in 1..Len(queue) : queue[k].id \in Msg
      BY Sequences, EntrySeq DEF Entry
    <3> QED BY <3>1, <3>2
  <2>5. due'[m.id] = LastDue + m.delay
        /\ \A k \in 1..Len(queue) : due'[queue[k].id] = due[queue[k].id]
    BY <2>1, <2>3, <2>4, Sequences
  <2>6. ItemsOf(queue, due') = ItemsOf(queue, due)
    BY <2>5, Sequences, ItemsOfSame
  <2>7. ItemOf(m, due') = Schedule!Planned(m, LastDue + m.delay)
    BY <2>5 DEF ItemOf, Schedule!Planned
  <2>8. /\ Agenda = ItemsOf(queue, due)
        /\ Agenda' = Agenda \cup {Schedule!Planned(m, LastDue + m.delay)}
    BY <1>1, <2>1, <2>2, <2>6, <2>7, AgendaIs, AgendaBecomes, NoItems,
       ItemsOfAppend, Sequences
  <2>9. /\ Agenda = {} => LastDue = 0
        /\ Agenda # {} => \E x \in Agenda : Schedule!Latest(x) /\ x.wait = LastDue
    <3>1. CASE queue = <<>>
      BY <2>8, <3>1, NoItems DEF LastDue
    <3>2. CASE queue # <<>>
      <4>1. Len(queue) \in 1..Len(queue)
        BY <3>2, Sequences, EntrySeq
      <4> DEFINE x == ItemOf(queue[Len(queue)], due)
      <4>2. x \in Agenda
        BY <2>8, <4>1 DEF ItemsOf
      <4>3. x.wait = LastDue
        BY <3>2 DEF ItemOf, LastDue
      <4>4. ASSUME NEW y \in Agenda PROVE y.wait <= x.wait
        <5>1. PICK k \in 1..Len(queue) : y = ItemOf(queue[k], due)
          BY <2>8 DEF ItemsOf
        <5>2. k <= Len(queue)
          BY Sequences, EntrySeq
        <5>3. due[queue[k].id] <= due[queue[Len(queue)].id]
          BY <4>1, <5>2 DEF IInv, QueueKeepsTime
        <5> QED BY <5>1, <5>3 DEF ItemOf
      <4> QED BY <4>2, <4>3, <4>4 DEF Schedule!Latest
    <3> QED BY <3>1, <3>2
  <2>10. /\ Agenda = {} => Agenda' = {Schedule!Planned(Head(input), Head(input).delay)}
         /\ Agenda # {} => \E x \in Agenda :
              /\ Schedule!Latest(x)
              /\ Agenda' = Agenda \cup {Schedule!Planned(Head(input), x.wait + Head(input).delay)}
    <3>1. Head(input) = m
      BY <2>1
    <3>2. CASE Agenda = {}
      <4>1. LastDue + m.delay = m.delay
        BY <2>3, <2>9, <3>2
      <4>2. Agenda' = {Schedule!Planned(m, m.delay)}
        BY <2>8, <3>2, <4>1
      <4> QED BY <3>1, <3>2, <4>2
    <3>3. CASE Agenda # {}
      <4>1. PICK x \in Agenda : Schedule!Latest(x) /\ x.wait = LastDue
        BY <2>9, <3>3
      <4> QED BY <2>8, <3>1, <3>3, <4>1
    <3> QED BY <3>2, <3>3
  <2>11. (pc = "load")' = (pc = "load")
    BY <2>1
  <2> QED BY <1>1, <1>3, <2>1, <2>10, <2>11 DEF Schedule!Plan
<1> QED BY <1>2, <1>3

(* The timeout advances the schedule to its earliest item.                  *)
LEMMA TimerFiresImplements == ASSUME IInv, TimerFires PROVE Schedule!Advance
<1>1. pc = "idle" /\ timer # Off /\ batch = <<>> /\ batch' = <<>> /\ queue # <<>>
  BY DEF IInv, Phases, TimerFires, locals
<1>2. /\ pc' = "splice" /\ queue' = queue /\ input' = input
      /\ due' = [m \in Msg |-> IF m \in Queued THEN due[m] - gap ELSE due[m]]
  BY DEF TimerFires, locals
<1>3. gap > 0 /\ queue[1].delay = 0 /\ 1 \in 1..Len(queue)
  <2>1. 1 \in 1..Len(queue)
    BY <1>1, Sequences, EntryTail
  <2> QED BY <1>1, <2>1 DEF IInv, Phases
<1>4. due[queue[1].id] = gap
  BY <1>3, Sequences DEF IInv, QueueKeepsTime
<1>5. \A k \in 1..Len(queue) : /\ queue[k].id \in Msg
                              /\ due'[queue[k].id] = due[queue[k].id] - gap
                              /\ gap <= due[queue[k].id]
  <2> SUFFICES ASSUME NEW k \in 1..Len(queue)
               PROVE  /\ queue[k].id \in Msg
                      /\ due'[queue[k].id] = due[queue[k].id] - gap
                      /\ gap <= due[queue[k].id]
    OBVIOUS
  <2>1. queue[k].id \in Msg
    BY Sequences, EntrySeq DEF Entry
  <2>2. queue[k].id \in Queued
    BY DEF Queued
  <2>3. 1 <= k
    BY Sequences, EntrySeq
  <2>4. due[queue[1].id] <= due[queue[k].id]
    BY <1>3, <2>3 DEF IInv, QueueKeepsTime
  <2> QED BY <1>2, <1>4, <2>1, <2>2, <2>4
<1> DEFINE first == ItemOf(queue[1], due)
           Earlier(y) == [y EXCEPT !.wait = y.wait - first.wait]
<1>6. first.wait = gap
  BY <1>4 DEF ItemOf
<1>7. Agenda = ItemsOf(queue, due) /\ Agenda' = ItemsOf(queue, due')
  BY <1>1, <1>2, AgendaIs, AgendaBecomes, NoItems
<1>8. first \in Agenda
  BY <1>3, <1>7 DEF ItemsOf
<1>9. \A y \in Agenda : first.wait <= y.wait
  BY <1>5, <1>6, <1>7 DEF ItemsOf, ItemOf
<1>10. \A k \in 1..Len(queue) : ItemOf(queue[k], due') = Earlier(ItemOf(queue[k], due))
  BY <1>5, <1>6 DEF ItemOf
<1>11. Agenda' = {Earlier(y) : y \in Agenda}
  <2>1. ASSUME NEW z \in Agenda' PROVE \E y \in Agenda : z = Earlier(y)
    <3>1. PICK k \in 1..Len(queue) : z = ItemOf(queue[k], due')
      BY <1>7 DEF ItemsOf
    <3>2. ItemOf(queue[k], due) \in Agenda
      BY <1>7 DEF ItemsOf
    <3>3. z = Earlier(ItemOf(queue[k], due))
      BY <3>1, <1>10
    <3> QED BY <3>2, <3>3
  <2>2. ASSUME NEW y \in Agenda PROVE Earlier(y) \in Agenda'
    <3>1. PICK k \in 1..Len(queue) : y = ItemOf(queue[k], due)
      BY <1>7 DEF ItemsOf
    <3>2. ItemOf(queue[k], due') \in Agenda'
      BY <1>7 DEF ItemsOf
    <3>3. Earlier(y) = ItemOf(queue[k], due')
      BY <3>1, <1>10
    <3> QED BY <3>2, <3>3
  <2> HIDE DEF Earlier
  <2> QED BY <2>1, <2>2
<1>12. pc # "load" /\ pc' # "load"
  BY <1>1, <1>2
<1> QED BY <1>2, <1>3, <1>6, <1>8, <1>9, <1>11, <1>12 DEF Schedule!Advance

(* Taking an entry from the queue into the batch does not show.             *)
LEMMA SpliceStutters == ASSUME IInv, Splice PROVE UNCHANGED Schedule!vars
<1>1. pc = "splice" /\ pc' # "load" /\ input' = input /\ due' = due
  BY DEF Splice, history
<1>2. CASE FrontDue
  <2>1. queue # <<>> /\ batch' = Append(batch, Head(queue)) /\ queue' = Tail(queue)
    BY <1>2 DEF Splice, FrontDue
  <2>2. Head(queue) \in Entry
    BY <2>1, Sequences, EntryTail
  <2>3. ItemsOf(batch', due) = ItemsOf(batch, due) \cup {ItemOf(Head(queue), due)}
    BY <2>1, <2>2, Sequences, ItemsOfAppend
  <2>4. ItemsOf(queue, due) = {ItemOf(Head(queue), due)} \cup ItemsOf(queue', due)
    BY <2>1, Sequences, ItemsOfTail
  <2>5. Agenda' = Agenda
    BY <1>1, <2>3, <2>4, AgendaIs, AgendaBecomes
  <2> QED BY <1>1, <2>5, Stutters
<1>3. CASE ~FrontDue
  <2>1. batch' = batch /\ queue' = queue
    BY <1>3 DEF Splice
  <2>2. Agenda' = Agenda
    BY <1>1, <2>1, AgendaIs, AgendaBecomes
  <2> QED BY <1>1, <2>2, Stutters
<1> QED BY <1>2, <1>3

(* The item of the entry in hand, and that no other item has its identity.  *)
LEMMA FirstOfBatch ==
  ASSUME IInv, batch # <<>>, batch' = Tail(batch)
  PROVE  /\ batch[1] \in Entry /\ Head(batch) = batch[1] /\ due[batch[1].id] = 0
         /\ batch' \in Seq(Entry)
         /\ \A k \in 1..Len(queue) : queue[k].id # batch[1].id
         /\ \A k \in 1..Len(batch') : batch'[k].id # batch[1].id
         /\ ItemOf(batch[1], due) \in Agenda
         /\ Agenda \ {ItemOf(batch[1], due)} = ItemsOf(queue, due) \cup ItemsOf(batch', due)
<1>1. /\ batch[1] \in Entry /\ Head(batch) = batch[1] /\ due[batch[1].id] = 0
      /\ batch' \in Seq(Entry)
      /\ \A k \in 1..Len(batch') : batch'[k].id # batch[1].id
  BY BatchTail
<1>2. \A k \in 1..Len(queue) : queue[k].id # batch[1].id
  <2>1. 1 \in 1..Len(batch)
    BY Sequences, EntryTail
  <2> QED BY <2>1 DEF IInv, Distinct
<1> DEFINE x == ItemOf(batch[1], due)
<1>3. Agenda = {x} \cup ItemsOf(queue, due) \cup ItemsOf(batch', due)
  BY <1>1, AgendaIs, ItemsOfTail, Sequences
<1>4. x \notin ItemsOf(queue, due)
  BY <1>2 DEF ItemsOf, ItemOf
<1>5. x \notin ItemsOf(batch', due)
  BY <1>1 DEF ItemsOf, ItemOf
<1> HIDE DEF x
<1>6. x \in Agenda /\ Agenda \ {x} = ItemsOf(queue, due) \cup ItemsOf(batch', due)
  BY <1>3, <1>4, <1>5
<1> QED BY <1>1, <1>2, <1>6 DEF x

(* Leaving the loop with a message that does not repeat sends it.           *)
LEMMA DropImplements == ASSUME IInv, Drop PROVE \E x \in Agenda : Schedule!Send(x)
<1>1. /\ pc = "requeue" /\ batch # <<>> /\ batch' = Tail(batch) /\ ~Reinsert(Head(batch))
      /\ UNCHANGED <<queue, pc, input, due>>
  BY DEF Drop, history
<1> DEFINE x == ItemOf(batch[1], due)
<1>2. x \in Agenda /\ x.wait = 0 /\ ~Schedule!Again(x)
  BY <1>1, FirstOfBatch DEF ItemOf, Reinsert, Schedule!Again
<1>3. Agenda' = Agenda \ {x}
  BY <1>1, FirstOfBatch, AgendaBecomes
<1>4. pc # "load" /\ pc' # "load"
  BY <1>1
<1> HIDE DEF x
<1>5. Schedule!Send(x)
  BY <1>1, <1>2, <1>3, <1>4 DEF Schedule!Send
<1> QED BY <1>2, <1>5

(* Putting a message back sends it and plans its next transmission.         *)
LEMMA PutBackImplements == ASSUME IInv, PutBack PROVE \E x \in Agenda : Schedule!Send(x)
<1> DEFINE m == batch[1]
           e == Reinserted(m, rem)
           x == ItemOf(m, due)
<1>1. /\ pc = "find" /\ ~Passes /\ batch # <<>> /\ Reinsert(m)
      /\ at \in 1..(Len(queue) + 1)
  BY DEF IInv, Searching, PutBack
<1>2. batch' = Tail(batch) /\ pc' = "requeue" /\ input' = input
  BY DEF PutBack
<1>3. /\ m \in Entry /\ Head(batch) = m /\ due[m.id] = 0
      /\ \A k \in 1..Len(queue) : queue[k].id # m.id
      /\ \A k \in 1..Len(batch') : batch'[k].id # m.id
      /\ batch' \in Seq(Entry) /\ x \in Agenda
      /\ Agenda \ {x} = ItemsOf(queue, due) \cup ItemsOf(batch', due)
  BY <1>1, <1>2, FirstOfBatch
<1>4. queue' = Insert(queue, at, e) /\ due' = [due EXCEPT ![m.id] = m.repeat]
  BY <1>3 DEF PutBack
<1>5. m.id \in Msg /\ m.repeat \in Nat /\ m.count \in Nat /\ rem \in Nat
  BY <1>3 DEF Entry, IInv, TypeOK
<1>6. e \in Entry
  BY <1>1, <1>5 DEF Entry, Reinserted, Reinsert
<1>7. at <= Len(queue) => e.delay <= queue[at].delay
  <2> SUFFICES ASSUME at <= Len(queue) PROVE rem <= queue[at].delay
    BY DEF Reinserted
  <2>1. queue[at] \in Entry
    BY <1>1, Sequences, EntrySeq
  <2>2. queue[at].delay \in Nat
    BY <2>1 DEF Entry
  <2> QED BY <1>1, <1>5, <2>2 DEF Passes
<1>8. ItemsOf(queue', due') = ItemsOf(queue, due') \cup {ItemOf(e, due')}
  <2> HIDE DEF m, e, x
  <2>1. queue' = Insert(queue, at, e)
    BY <1>4
  <2>2. queue \in Seq(Entry) /\ at \in 1..(Len(queue) + 1)
    BY <1>1, Sequences
  <2>3. ItemsOf(Insert(queue, at, e), due') = ItemsOf(queue, due') \cup {ItemOf(e, due')}
    BY <1>6, <1>7, <2>2, ItemsOfInsert
  <2> QED BY <2>1, <2>3
<1>9. ItemsOf(queue, due') = ItemsOf(queue, due)
  <2>1. \A k \in 1..Len(queue) : due'[queue[k].id] = due[queue[k].id]
    <3> SUFFICES ASSUME NEW k \in 1..Len(queue) PROVE due'[queue[k].id] = due[queue[k].id]
      OBVIOUS
    <3>1. queue[k].id \in Msg
      BY Sequences, EntrySeq DEF Entry
    <3> QED BY <1>3, <1>4, <3>1, Sequences
  <2> QED BY <2>1, Sequences, ItemsOfSame
<1>10. ItemsOf(batch', due') = ItemsOf(batch', due)
  <2>1. \A k \in 1..Len(batch') : due'[batch'[k].id] = due[batch'[k].id]
    <3> SUFFICES ASSUME NEW k \in 1..Len(batch') PROVE due'[batch'[k].id] = due[batch'[k].id]
      OBVIOUS
    <3>1. batch'[k].id \in Msg
      BY <1>3, EntrySeq DEF Entry
    <3> QED BY <1>3, <1>4, <3>1, Sequences
  <2> QED BY <2>1, <1>3, ItemsOfSame
<1>11. x.wait = 0 /\ Schedule!Again(x)
  BY <1>1, <1>3 DEF ItemOf, Reinsert, Schedule!Again
<1>12. ItemOf(e, due') = Schedule!Rescheduled(x)
  <2>1. due'[m.id] = m.repeat
    BY <1>4, <1>5, Sequences
  <2> QED BY <2>1 DEF ItemOf, Reinserted, Schedule!Rescheduled
<1>13. Agenda' = (Agenda \ {x}) \cup {Schedule!Rescheduled(x)}
  BY <1>3, <1>8, <1>9, <1>10, <1>12, AgendaBecomes
<1>14. pc # "load" /\ pc' # "load"
  BY <1>1, <1>2
<1> HIDE DEF x
<1>15. Schedule!Send(x)
  BY <1>2, <1>3, <1>11, <1>13, <1>14 DEF Schedule!Send
<1> QED BY <1>3, <1>15

(* Arming the timer takes the front entry's delay, which does not show.     *)
LEMMA ArmStutters == ASSUME IInv, Arm PROVE UNCHANGED Schedule!vars
<1>1. pc = "requeue" /\ pc' = "deliver" /\ input' = input /\ due' = due /\ batch' = batch
  BY DEF Arm
<1>2. ItemsOf(queue', due) = ItemsOf(queue, due)
  <2>1. CASE queue = <<>>
    BY <2>1 DEF Arm
  <2>2. CASE queue # <<>>
    <3>1. queue' = [queue EXCEPT ![1] = WithDelay(queue[1], 0)]
      BY <2>2 DEF Arm
    <3>2. 1 \in 1..Len(queue) /\ \A k \in 1..Len(queue) : queue[k] \in Entry
      BY <2>2, Sequences, EntryTail, EntrySeq
    <3>3. /\ Len(queue') = Len(queue)
          /\ queue'[1] = WithDelay(queue[1], 0)
          /\ \A k \in 1..Len(queue) : k # 1 => queue'[k] = queue[k]
      BY <3>1, <3>2, Sequences, ExceptSeq
    <3>4. \A k \in 1..Len(queue) : ItemOf(queue'[k], due) = ItemOf(queue[k], due)
      BY <3>2, <3>3, ItemOfWithDelay
    <3> QED BY <3>3, <3>4 DEF ItemsOf
  <2> QED BY <2>1, <2>2
<1>3. Agenda' = Agenda
  BY <1>1, <1>2, AgendaIs, AgendaBecomes
<1> QED BY <1>1, <1>3, Stutters

(* Stopping cancels whatever was ahead.                                     *)
LEMMA StopImplements ==
  ASSUME IInv, pc \in {"idle", "deliver"}, pc' = "idle", StopSending, UNCHANGED locals
  PROVE  Schedule!Cancel
<1>1. batch = <<>> /\ batch' = <<>> /\ queue' = <<>> /\ input' = input
  BY DEF IInv, Phases, StopSending, locals
<1>2. Agenda' = {}
  BY <1>1, AgendaBecomes, NoItems
<1>3. pc # "load" /\ pc' # "load"
  OBVIOUS
<1> QED BY <1>1, <1>2, <1>3 DEF Schedule!Cancel

(* What leaves the entries and their due times alone does not show.         *)
LEMMA OthersStutter ==
  ASSUME UNCHANGED <<queue, batch, input, due>>, (pc = "load") <=> (pc' = "load")
  PROVE  UNCHANGED Schedule!vars
<1>1. Agenda' = Agenda
  BY AgendaIs, AgendaBecomes
<1> QED BY <1>1, Stutters

LEMMA ReturnImplements ==
  ASSUME IInv, Return PROVE Schedule!Cancel \/ UNCHANGED Schedule!vars
<1>1. pc = "deliver" /\ pc' = "idle" /\ UNCHANGED locals
  BY DEF Return
<1>2. CASE StopSending
  BY <1>1, <1>2, StopImplements
<1>3. CASE ~StopSending
  <2>1. UNCHANGED <<queue, batch, input, due>>
    BY <1>3 DEF Return, locals, history
  <2> QED BY <1>1, <2>1, OthersStutter
<1> QED BY <1>2, <1>3

LEMMA StepImplements == IInv /\ [Next]_vars => [Schedule!Next]_Schedule!vars
<1> SUFFICES ASSUME IInv, [Next]_vars
             PROVE  Schedule!Next \/ UNCHANGED Schedule!vars
  OBVIOUS
<1>1. ASSUME NEW list \in SendLists, Start(list) PROVE Schedule!Next
  BY <1>1, StartImplements DEF Schedule!Next
<1>2. CASE Load
  BY <1>2, LoadImplements DEF Schedule!Next
<1>3. CASE TimerFires
  BY <1>3, TimerFiresImplements DEF Schedule!Next
<1>4. CASE Splice
  BY <1>4, SpliceStutters
<1>5. CASE Drop
  BY <1>5, DropImplements DEF Schedule!Next
<1>6. CASE PutBack
  BY <1>6, PutBackImplements DEF Schedule!Next
<1>7. CASE Search
  BY <1>7, OthersStutter DEF Search, control, history
<1>8. CASE Pass
  BY <1>8, OthersStutter DEF Pass, control, history
<1>9. CASE Arm
  BY <1>9, ArmStutters
<1>10. CASE Deliver
  BY <1>10, OthersStutter DEF Deliver, locals, history
<1>11. CASE Return
  BY <1>11, ReturnImplements DEF Schedule!Next
<1>12. CASE CloseDialog
  BY <1>12, OthersStutter DEF CloseDialog, locals, history
<1>13. CASE Stop
  <2>1. pc = "idle" /\ pc' = "idle" /\ StopSending /\ UNCHANGED locals
    BY <1>13 DEF Stop
  <2> QED BY <2>1, StopImplements DEF Schedule!Next
<1>14. CASE UNCHANGED vars
  BY <1>14, OthersStutter DEF vars
<1> QED BY <1>1, <1>2, <1>3, <1>4, <1>5, <1>6, <1>7, <1>8, <1>9, <1>10, <1>11,
           <1>12, <1>13, <1>14 DEF Next, Handler

(* ToolsMsgSendMgr keeps the schedule it is given: every behaviour of the   *)
(* delta queue and its timer is a behaviour of SendSchedule, whatever the   *)
(* lists, the periods and the error boxes that open on the way.             *)
THEOREM ScheduleIsKept == Spec => KeepsSchedule
BY InitImplements, StepImplements, Invariance, PTL
   DEF Spec, KeepsSchedule, Schedule!Spec
=============================================================================
