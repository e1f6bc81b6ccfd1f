--------------------------- MODULE Transport_proofs ---------------------------
(***************************************************************************)
(* What TLAPS proves of the sockets and the chain as Transport composes      *)
(* them, for every set of clients and amount of data.  One part runs and the *)
(* others wait, so each has an invariant of its own under the name of the    *)
(* subject.  The chain has theorems of its own: its module of proofs is      *)
(* instantiated as the chain is, and the steps of the one are those of the   *)
(* other.  The invariants of the sockets are proved here.                    *)
(***************************************************************************)
EXTENDS Transport, SequenceTheorems, FiniteSetTheorems, TLAPS

ChainP == INSTANCE FilterChain_proofs
            WITH N <- 2, Dialogs <- FALSE, MaxPieces <- MaxData, MaxDepth <- 3, told <- aware
BoxedP == INSTANCE FilterChain_proofs
            WITH N <- 2, Dialogs <- TRUE, MaxPieces <- 1, MaxDepth <- 2, told <- aware

(* What was told last is the status, and a socket is connected only while it *)
(* runs.                                                                     *)
Known ==
  /\ running \in BOOLEAN /\ connected \in BOOLEAN /\ told \in BOOLEAN
  /\ told = connected /\ (connected => running)

-----------------------------------------------------------------------------
(* The echo socket.                                                          *)
EchoPcs == {"test", "report", "box", "past"}

(* The stack of rounds when one begins, goes on, and ends.                   *)
LEMMA EchoRounds ==
  ASSUME NEW s \in Seq(EchoPcs), NEW pc \in EchoPcs
  PROVE  /\ Append(s, pc) \in Seq(EchoPcs) /\ Len(Append(s, pc)) = Len(s) + 1
         /\ s # <<>> => /\ [s EXCEPT ![Len(s)] = pc] \in Seq(EchoPcs)
                        /\ Len([s EXCEPT ![Len(s)] = pc]) = Len(s)
                        /\ SubSeq(s, 1, Len(s) - 1) \in Seq(EchoPcs)
                        /\ Len(SubSeq(s, 1, Len(s) - 1)) = Len(s) - 1
<1>1. Append(s, pc) \in Seq(EchoPcs) /\ Len(Append(s, pc)) = Len(s) + 1
  BY AppendProperties
<1>2. ASSUME s # <<>>
      PROVE  /\ [s EXCEPT ![Len(s)] = pc] \in Seq(EchoPcs)
             /\ Len([s EXCEPT ![Len(s)] = pc]) = Len(s)
             /\ SubSeq(s, 1, Len(s) - 1) \in Seq(EchoPcs)
             /\ Len(SubSeq(s, 1, Len(s) - 1)) = Len(s) - 1
  <2>1. Len(s) \in Nat \ {0} /\ \A k \in 1..Len(s) : s[k] \in EchoPcs
    BY <1>2, EmptySeq, LenProperties
  <2>2. [s EXCEPT ![Len(s)] = pc] \in Seq(EchoPcs) /\ Len([s EXCEPT ![Len(s)] = pc]) = Len(s)
    BY <2>1, ExceptSeq
  <2>3. SubSeq(s, 1, Len(s) - 1) \in Seq(EchoPcs) /\ Len(SubSeq(s, 1, Len(s) - 1)) = Len(s) - 1
    <3> DEFINE n == Len(s) - 1
    <3>1. n \in Nat
      BY <2>1
    <3>2. \A k \in 1..n : s[k] \in EchoPcs
      BY <2>1
    <3> HIDE DEF n
    <3>3. SubSeq(s, 1, n) \in Seq(EchoPcs) /\ Len(SubSeq(s, 1, n)) = n
      BY <3>1, <3>2
    <3> QED BY <3>3 DEF n
  <2> QED BY <2>2, <2>3
<1> QED BY <1>1, <1>2

(* Moving the front of the queue to what was echoed keeps the stream; a new  *)
(* piece lengthens it.                                                       *)
LEMMA EchoMoved ==
  ASSUME NEW e \in Seq(1..(2 * MaxData)), NEW p \in Seq(1..(2 * MaxData)), p # <<>>
  PROVE  /\ Append(e, Head(p)) \in Seq(1..(2 * MaxData)) /\ Tail(p) \in Seq(1..(2 * MaxData))
         /\ Append(e, Head(p)) \o Tail(p) = e \o p
<1>1. Head(p) \in 1..(2 * MaxData) /\ Tail(p) \in Seq(1..(2 * MaxData))
  BY HeadTailProperties
<1>2. <<Head(p)>> \in Seq(1..(2 * MaxData))
  BY <1>1
<1>3. Append(e, Head(p)) \in Seq(1..(2 * MaxData)) /\ Append(e, Head(p)) = e \o <<Head(p)>>
  BY <1>1, AppendProperties, AppendIsConcat
<1>4. (e \o <<Head(p)>>) \o Tail(p) = e \o (<<Head(p)>> \o Tail(p))
  BY <1>1, <1>2, ConcatAssociative
<1>5. <<Head(p)>> \o Tail(p) = p
  BY <1>1
<1> QED BY <1>1, <1>3, <1>4, <1>5

LEMMA EchoLengthened ==
  ASSUME NEW e \in Seq(1..(2 * MaxData)), NEW p \in Seq(1..(2 * MaxData)), NEW x \in 1..(2 * MaxData)
  PROVE  e \o Append(p, x) = Append(e \o p, x)
BY AppendIsConcat, ConcatAssociative, ConcatProperties

LEMMA EchoCounting ==
  ASSUME NEW n \in Nat
  PROVE  Append([k \in 1..n |-> k], n + 1) = [k \in 1..(n + 1) |-> k]
<1>1. [k \in 1..n |-> k] \in Seq(Nat) /\ Len([k \in 1..n |-> k]) = n
  OBVIOUS
<1> QED BY <1>1, AppendProperties

-----------------------------------------------------------------------------
EchoIInv == Echo!TypeOK /\ Echo!EchoesInOrder /\ Echo!WaitingIsServed

(* The stack of rounds after one of its steps.                               *)
LEMMA EchoStack ==
  ASSUME Echo!Bounds, Echo!TypeOK, ~Echo!Idle, NEW pc \in EchoPcs
  PROVE  /\ Echo!At(pc) \in Seq(EchoPcs) /\ Len(Echo!At(pc)) <= MaxData /\ Echo!At(pc) # <<>>
         /\ SubSeq(loops, 1, Len(loops) - 1) \in Seq(EchoPcs)
         /\ Len(SubSeq(loops, 1, Len(loops) - 1)) <= MaxData
<1>1. loops \in Seq(EchoPcs) /\ Len(loops) <= MaxData /\ loops # <<>>
  BY DEF Echo!TypeOK, Echo!Idle, EchoPcs
<1>2. Len(loops) \in Nat \ {0}
  BY <1>1, EmptySeq, LenProperties
<1>3. /\ Echo!At(pc) \in Seq(EchoPcs) /\ Len(Echo!At(pc)) = Len(loops)
      /\ SubSeq(loops, 1, Len(loops) - 1) \in Seq(EchoPcs)
      /\ Len(SubSeq(loops, 1, Len(loops) - 1)) = Len(loops) - 1
  BY <1>1, EchoRounds DEF Echo!At
<1>4. Echo!At(pc) # <<>>
  BY <1>2, <1>3, EmptySeq
<1> QED BY <1>1, <1>2, <1>3, <1>4 DEF Echo!Bounds

LEMMA EchoInitIInv == Echo!Bounds /\ Echo!Init => EchoIInv
<1> SUFFICES ASSUME Echo!Bounds, Echo!Init PROVE EchoIInv
  OBVIOUS
<1>1. Echo!SocketTypeOK
  BY DEF Echo!Init, Echo!SocketInit, Echo!SocketTypeOK
<1>2. pending = <<>> /\ loops = <<>> /\ echoed = <<>> /\ sent = 0 /\ timerActive = FALSE /\ timer = FALSE
  BY DEF Echo!Init
<1>3. <<>> \in Seq(1..(2 * MaxData)) /\ <<>> \in Seq(EchoPcs) /\ Len(<<>>) = 0
  OBVIOUS
<1>4. Echo!TypeOK
  <2>1. Len(loops) <= MaxData /\ sent \in 0..(2 * MaxData)
    BY <1>2, <1>3 DEF Echo!Bounds
  <2>2. {timerActive, timer} \subseteq BOOLEAN
    BY <1>2
  <2> QED BY <1>1, <1>2, <1>3, <2>1, <2>2, Zenon DEF Echo!TypeOK, EchoPcs
<1>5. <<>> \o <<>> = [k \in 1..0 |-> k]
  OBVIOUS
<1> QED BY <1>2, <1>4, <1>5 DEF EchoIInv, Echo!EchoesInOrder, Echo!WaitingIsServed

LEMMA EchoNextIInv == Echo!Bounds /\ EchoIInv /\ [Echo!Next]_(Echo!vars) => EchoIInv'
<1> SUFFICES ASSUME Echo!Bounds, EchoIInv, [Echo!Next]_(Echo!vars) PROVE EchoIInv'
  OBVIOUS
<1> USE DEF EchoIInv
<1>1. CASE Echo!Start
  BY <1>1 DEF Echo!Start, Echo!Started, Echo!TypeOK, Echo!SocketTypeOK, Echo!EchoesInOrder,
     Echo!WaitingIsServed, Echo!Idle
<1>2. CASE Echo!Connect
  BY <1>2 DEF Echo!Connect, Echo!Connected, Echo!TypeOK, Echo!SocketTypeOK, Echo!EchoesInOrder,
     Echo!WaitingIsServed, Echo!Idle
<1>3. CASE Echo!Stop
  <2>1. Echo!SocketTypeOK'
    BY <1>3 DEF Echo!Stop, Echo!Stopped, Echo!TypeOK, Echo!SocketTypeOK
  <2>2. <<>> \in Seq(1..(2 * MaxData)) /\ <<>> \o <<>> = [k \in 1..0 |-> k]
    OBVIOUS
  <2>3. Echo!TypeOK'
    <3>1. sent' \in 0..(2 * MaxData) /\ loops' = loops
      BY <1>3 DEF Echo!Stop, Echo!Bounds
    <3>2. pending' \in Seq(1..(2 * MaxData)) /\ echoed' \in Seq(1..(2 * MaxData))
      BY <1>3, <2>2 DEF Echo!Stop
    <3>3. timerActive' = FALSE /\ timer' = FALSE
      BY <1>3 DEF Echo!Stop
    <3> QED BY <2>1, <3>1, <3>2, <3>3, Zenon DEF Echo!TypeOK
  <2>4. Echo!EchoesInOrder'
    BY <1>3, <2>2 DEF Echo!Stop, Echo!EchoesInOrder
  <2>5. Echo!WaitingIsServed'
    BY <1>3 DEF Echo!Stop, Echo!WaitingIsServed
  <2> QED BY <2>3, <2>4, <2>5
<1>4. CASE Echo!SendData
  <2>1. sent \in Nat /\ sent' = sent + 1 /\ sent' \in 1..(2 * MaxData) /\ pending' = Append(pending,
  sent + 1)
    BY <1>4 DEF Echo!SendData, Echo!TypeOK, Echo!Bounds
  <2>2. pending' \in Seq(1..(2 * MaxData)) /\ pending' # <<>>
    BY <2>1, AppendProperties DEF Echo!TypeOK
  <2>3. Echo!TypeOK'
    BY <1>4, <2>1, <2>2 DEF Echo!SendData, Echo!socketVars, Echo!TypeOK, Echo!SocketTypeOK
  <2>4. Echo!EchoesInOrder'
    <3>1. echoed \o Append(pending, sent + 1) = Append(echoed \o pending, sent + 1)
      BY <2>1, EchoLengthened DEF Echo!TypeOK
    <3>2. Append(echoed \o pending, sent + 1) = [k \in 1..(sent + 1) |-> k]
      BY <2>1, EchoCounting DEF Echo!EchoesInOrder
    <3> QED BY <1>4, <2>1, <3>1, <3>2 DEF Echo!SendData, Echo!EchoesInOrder
  <2>5. Echo!WaitingIsServed'
    BY <1>4 DEF Echo!SendData, Echo!WaitingIsServed, Echo!Idle, Echo!TypeOK
  <2> QED BY <2>3, <2>4, <2>5
<1>5. CASE Echo!Timeout
  <2>1. loops' \in Seq(EchoPcs) /\ Len(loops') = Len(loops) + 1 /\ loops' # <<>>
    BY <1>5, EchoRounds, AppendProperties DEF Echo!Timeout, Echo!TypeOK, EchoPcs
  <2>2. Echo!TypeOK'
    <3>1. loops \in Seq(EchoPcs) /\ Len(loops) \in Nat
      BY LenProperties DEF Echo!TypeOK, EchoPcs
    <3>2. Len(loops') <= MaxData
      BY <1>5, <2>1, <3>1 DEF Echo!Timeout, Echo!Bounds
    <3>3. timerActive' = FALSE /\ timer' = FALSE
      BY <1>5 DEF Echo!Timeout, Echo!Rearm
    <3>4. Echo!SocketTypeOK'
      BY <1>5 DEF Echo!Timeout, Echo!socketVars, Echo!TypeOK, Echo!SocketTypeOK
    <3>5. UNCHANGED <<pending, sent, echoed>>
      BY <1>5 DEF Echo!Timeout
    <3> QED BY <2>1, <3>2, <3>3, <3>4, <3>5, Zenon DEF Echo!TypeOK, EchoPcs
  <2> QED BY <1>5, <2>1, <2>2 DEF Echo!Timeout, Echo!Rearm, Echo!EchoesInOrder, Echo!WaitingIsServed,
             Echo!Idle
<1>6. CASE Echo!Echo
  <2>1. ~Echo!Idle /\ pending # <<>> /\ loops' = Echo!At("report")
    BY <1>6 DEF Echo!Echo, Echo!Within
  <2>2. loops' \in Seq(EchoPcs) /\ Len(loops') <= MaxData /\ loops' # <<>>
    BY <2>1, EchoStack DEF EchoPcs
  <2>3. /\ pending' \in Seq(1..(2 * MaxData)) /\ echoed' \in Seq(1..(2 * MaxData))
        /\ echoed' \o pending' = echoed \o pending
    BY <1>6, <2>1, EchoMoved DEF Echo!Echo, Echo!Pop, Echo!TypeOK
  <2>4. Echo!SocketTypeOK'
    BY <1>6 DEF Echo!Echo, Echo!DataReported, Echo!TypeOK, Echo!SocketTypeOK
  <2>5. Echo!TypeOK'
    BY <1>6, <2>2, <2>3, <2>4 DEF Echo!Echo, Echo!TypeOK, EchoPcs
  <2> QED BY <1>6, <2>2, <2>3, <2>5 DEF Echo!Echo, Echo!EchoesInOrder, Echo!WaitingIsServed, Echo!Idle
<1>7. ASSUME NEW pc \in EchoPcs, Echo!Within({"test", "report", "box", "past"}), loops' = Echo!At(pc),
             UNCHANGED <<Echo!socketVars, pending, timerActive, timer, sent, echoed>>
      PROVE  EchoIInv'
  <2>1. loops' \in Seq(EchoPcs) /\ Len(loops') <= MaxData /\ loops' # <<>>
    BY <1>7, EchoStack DEF Echo!Within
  <2> QED BY <1>7, <2>1 DEF Echo!socketVars, Echo!TypeOK, Echo!SocketTypeOK, Echo!EchoesInOrder,
             Echo!WaitingIsServed, Echo!Idle, EchoPcs
<1>8. CASE Echo!OpenBox
  BY <1>8, <1>7 DEF Echo!OpenBox, Echo!Within, EchoPcs
<1>9. CASE Echo!CloseBox
  BY <1>9, <1>7 DEF Echo!CloseBox, Echo!Within, EchoPcs
<1>10. CASE Echo!Reported
  BY <1>10, <1>7 DEF Echo!Reported, Echo!Within, EchoPcs
<1>11. CASE Echo!Done
  <2>1. ~Echo!Idle /\ pending = <<>> /\ "test" \in EchoPcs
    BY <1>11 DEF Echo!Done, Echo!Within, EchoPcs
  <2>2. loops' \in Seq(EchoPcs) /\ Len(loops') <= MaxData
    BY <1>11, <2>1, EchoStack DEF Echo!Done
  <2> QED BY <1>11, <2>1, <2>2 DEF Echo!Done, Echo!socketVars, Echo!TypeOK, Echo!SocketTypeOK,
             Echo!EchoesInOrder, Echo!WaitingIsServed, EchoPcs
<1>12. CASE UNCHANGED Echo!vars
  BY <1>12 DEF Echo!vars, Echo!socketVars, Echo!TypeOK, Echo!SocketTypeOK, Echo!EchoesInOrder,
     Echo!WaitingIsServed, Echo!Idle
<1> QED BY <1>1, <1>2, <1>3, <1>4, <1>5, <1>6, <1>8, <1>9, <1>10, <1>11, <1>12 DEF Echo!Next

LEMMA EchoInductive == Echo!Spec => []EchoIInv
<1>1. Echo!Bounds
  BY TransportAssumption DEF Echo!Bounds
<1>2. Echo!Init => EchoIInv
  BY <1>1, EchoInitIInv
<1>3. EchoIInv /\ [Echo!Next]_(Echo!vars) => EchoIInv'
  BY <1>1, EchoNextIInv
<1> QED BY <1>2, <1>3, PTL DEF Echo!Spec

(* Every piece comes back once and in the order it was sent, whatever the    *)
(* receiving side does with it and however the rounds of sendDataPostponed() *)
(* nest in its boxes.                                                        *)
THEOREM EchoInOrder == Echo!Spec => []Echo!EchoesInOrder
<1>1. EchoIInv => Echo!EchoesInOrder
  BY DEF EchoIInv
<1> QED BY <1>1, EchoInductive, PTL

(* Nothing waits for a timer that is not armed: m_timerActive, the timer and *)
(* the loops on the stack agree, so no piece is forgotten.                   *)
THEOREM NothingForgotten == Echo!Spec => []Echo!WaitingIsServed
<1>1. EchoIInv => Echo!WaitingIsServed
  BY DEF EchoIInv
<1> QED BY <1>1, EchoInductive, PTL

(* The echo socket as the part that runs.                                    *)
EchoRuns == subject = "echo" => EchoIInv

LEMMA EchoRunsInductive ==
  /\ Init => EchoRuns
  /\ EchoRuns /\ [Next]_vars => EchoRuns'
<1>0. Echo!Bounds
  BY TransportAssumption DEF Echo!Bounds
<1>1. Init => EchoRuns
  BY <1>0, EchoInitIInv DEF Init, EchoRuns
<1>2. ASSUME EchoRuns, [Next]_vars, subject' = "echo" PROVE EchoIInv'
  <2>1. subject = "echo"
    BY <1>2 DEF Next, vars
  <2>2. [Echo!Next]_(Echo!vars)
    <3>1. CASE EchoStep
      BY <3>1, <2>1 DEF EchoStep
    <3>2. CASE UNCHANGED vars
      BY <3>2 DEF vars, tcpVars, udpVars, echoVars, serialVars, clientVars, chainVars,
         Echo!vars, Echo!socketVars
    <3> QED
      BY <1>2, <2>1, <3>1, <3>2 DEF Next, TcpServerStep, TcpProxyStep, TcpClientStep,
         SslClientStep, UdpGenericStep, UdpProxyStep, SerialStep, ChainStep
  <2> QED BY <1>0, <1>2, <2>1, <2>2, EchoNextIInv DEF EchoRuns
<1> QED BY <1>1, <1>2 DEF EchoRuns

-----------------------------------------------------------------------------
(* The UDP proxy.                                                            *)
UdpProxyTypes ==
  /\ UdpProxy!SocketTypeOK /\ listen \in Clients \cup {UdpProxy!Null, "bound"}
  /\ remote \in BOOLEAN /\ active \in BOOLEAN /\ queue \in Seq(Clients)
  /\ arrived \in Nat /\ carried \in Nat /\ unreached \in Nat

(* The status is what was told last; a socket that is not running or not     *)
(* connected has neither of the two sockets and nothing to read.             *)
UdpProxyAgreement ==
  /\ told = connected /\ (connected => running)
  /\ connected <=> listen # UdpProxy!Null
  /\ remote => connected
  /\ queue # <<>> => connected
  /\ stray = FALSE

UdpProxyIInv == UdpProxyTypes /\ UdpProxyAgreement /\ UdpProxy!CarriesEverything

-----------------------------------------------------------------------------
LEMMA UdpProxyInitIInv == UdpProxy!ClientsAreNames /\ UdpProxy!Init => UdpProxyIInv
<1> SUFFICES ASSUME UdpProxy!ClientsAreNames, UdpProxy!Init PROVE UdpProxyIInv
  OBVIOUS
<1>1. UdpProxyTypes
  <2>1. UdpProxy!SocketTypeOK
    BY DEF UdpProxy!Init, UdpProxy!SocketInit, UdpProxy!SocketTypeOK
  <2>2. queue \in Seq(Clients) /\ arrived \in Nat /\ carried \in Nat /\ unreached \in Nat
    BY DEF UdpProxy!Init
  <2>3. listen \in Clients \cup {UdpProxy!Null, "bound"} /\ remote \in BOOLEAN /\ active \in BOOLEAN
    BY DEF UdpProxy!Init
  <2> QED BY <2>1, <2>2, <2>3 DEF UdpProxyTypes
<1>2. UdpProxyAgreement /\ UdpProxy!CarriesEverything
  BY DEF UdpProxy!Init, UdpProxy!SocketInit, UdpProxyAgreement, UdpProxy!CarriesEverything,
     UdpProxy!Null
<1> QED BY <1>1, <1>2 DEF UdpProxyIInv

(* A step that leaves no listen socket, as disconnecting does in all ways.   *)
LEMMA UdpProxyClosing ==
  ASSUME UdpProxyIInv, UdpProxy!SocketTypeOK', connected' = FALSE, told' = FALSE, stray' = stray,
         listen' = UdpProxy!Null, remote' = FALSE, queue' = <<>>, active' \in BOOLEAN,
         UNCHANGED UdpProxy!counts
  PROVE  UdpProxyIInv'
<1>1. UdpProxyTypes'
  <2>1. arrived' \in Nat /\ carried' \in Nat /\ unreached' \in Nat
    BY DEF UdpProxyIInv, UdpProxyTypes, UdpProxy!counts
  <2>2. queue' \in Seq(Clients)
    OBVIOUS
  <2>3. remote' \in BOOLEAN /\ listen' \in Clients \cup {UdpProxy!Null, "bound"}
    OBVIOUS
  <2> QED BY <2>1, <2>2, <2>3 DEF UdpProxyTypes
<1>2. told' = connected' /\ ~connected' /\ listen' = UdpProxy!Null /\ ~remote' /\ queue' = <<>> /\ stray' = FALSE
  BY DEF UdpProxyIInv, UdpProxyAgreement
<1>3. UdpProxyAgreement' /\ UdpProxy!CarriesEverything'
  BY <1>2 DEF UdpProxyAgreement, UdpProxy!CarriesEverything
<1> QED BY <1>1, <1>3 DEF UdpProxyIInv

LEMMA UdpProxyNextIInv ==
  UdpProxy!ClientsAreNames /\ UdpProxyIInv /\ [UdpProxy!Next]_(UdpProxy!vars) => UdpProxyIInv'
<1> SUFFICES ASSUME UdpProxy!ClientsAreNames, UdpProxyIInv,
[UdpProxy!Next]_(UdpProxy!vars) PROVE UdpProxyIInv'
  OBVIOUS
<1>a. UdpProxyTypes /\ UdpProxyAgreement /\ UdpProxy!CarriesEverything
  BY DEF UdpProxyIInv
<1>b. running \in BOOLEAN /\ connected \in BOOLEAN /\ told \in BOOLEAN /\ stray \in BOOLEAN
  BY <1>a DEF UdpProxyTypes, UdpProxy!SocketTypeOK
<1>1. CASE UdpProxy!Start
  BY <1>1, <1>a, <1>b DEF UdpProxy!Start, UdpProxy!Started, UdpProxy!counts, UdpProxyIInv,
     UdpProxyTypes, UdpProxy!SocketTypeOK, UdpProxyAgreement, UdpProxy!CarriesEverything
<1>2. CASE UdpProxy!Connect
  <2>1. PICK ok \in BOOLEAN :
          /\ UdpProxy!Connected(ok) /\ active' = (active \/ ok)
          /\ listen' = IF ok THEN "bound" ELSE UdpProxy!Null
    BY <1>2 DEF UdpProxy!Connect
  <2>2. ~connected /\ running /\ remote = FALSE /\ queue' = <<>>
    BY <1>2, <1>a, <1>b DEF UdpProxy!Connect, UdpProxy!ConnectClicked, UdpProxyAgreement, UdpProxyTypes
  <2>3. UdpProxy!SocketTypeOK' /\ connected' = ok /\ told' = ok /\ running' = running /\ stray' = stray
    BY <1>b, <2>1 DEF UdpProxy!Connected, UdpProxy!SocketTypeOK
  <2>4. UdpProxyTypes'
    <3>1. listen' \in Clients \cup {UdpProxy!Null, "bound"} /\ active' \in BOOLEAN
      BY <2>1, <1>a DEF UdpProxyTypes
    <3> QED BY <1>2, <1>a, <2>3, <3>1 DEF UdpProxy!Connect, UdpProxyTypes
  <2>5. UdpProxyAgreement'
    BY <1>2, <1>a, <2>1, <2>2, <2>3 DEF UdpProxy!Connect, UdpProxyAgreement, UdpProxy!Null
  <2>6. UdpProxy!CarriesEverything'
    BY <1>2 DEF UdpProxy!Connect, UdpProxy!CarriesEverything
  <2> QED BY <2>4, <2>5, <2>6 DEF UdpProxyIInv
<1>3. CASE UdpProxy!Disconnect
  <2>1. UdpProxy!SocketTypeOK' /\ connected' = FALSE /\ told' = FALSE /\ stray' = stray
    BY <1>3, <1>b DEF UdpProxy!Disconnect, UdpProxy!Disconnected, UdpProxy!SocketTypeOK
  <2> QED BY <1>3, <2>1, UdpProxyClosing DEF UdpProxy!Disconnect, UdpProxy!Close
<1>4. CASE UdpProxy!Stop
  <2>1. UdpProxy!SocketTypeOK' /\ running' = FALSE /\ connected' = FALSE /\ told' = FALSE /\ stray' = stray
    BY <1>4, <1>a, <1>b DEF UdpProxy!Stop, UdpProxy!Stopped, UdpProxy!SocketTypeOK, UdpProxyAgreement
  <2>2. CASE connected
    BY <1>4, <2>1, <2>2, UdpProxyClosing DEF UdpProxy!Stop, UdpProxy!Close
  <2>3. CASE ~connected
    <3>1. listen' = UdpProxy!Null /\ remote' = FALSE /\ queue' = <<>> /\ active' \in BOOLEAN /\ UNCHANGED UdpProxy!counts
      BY <1>4, <1>a, <2>3 DEF UdpProxy!Stop, UdpProxyAgreement, UdpProxyTypes
    <3> QED BY <2>1, <3>1, UdpProxyClosing
  <2> QED BY <2>2, <2>3
<1>5. CASE UdpProxy!ReadFromListen
  <2>1. connected /\ running /\ told /\ listen # UdpProxy!Null
    BY <1>5, <1>a DEF UdpProxy!ReadFromListen, UdpProxyAgreement
  <2>2. Head(queue) \in Clients /\ Len(queue) \in Nat
    BY <1>5, <1>a, HeadTailProperties, LenProperties DEF UdpProxy!ReadFromListen, UdpProxyTypes
  <2>3. listen' \in (Clients \cup {UdpProxy!Null, "bound"}) \ {UdpProxy!Null}
    BY <1>5, <1>a, <2>1, <2>2 DEF UdpProxy!ReadFromListen, UdpProxyTypes, UdpProxy!ClientsAreNames,
       UdpProxy!Null
  <2>4. UdpProxy!SocketTypeOK' /\ UNCHANGED <<running, connected, told>> /\ stray' = FALSE
    BY <1>5, <1>a, <1>b, <2>1 DEF UdpProxy!ReadFromListen, UdpProxy!DataReported,
       UdpProxy!SocketTypeOK, UdpProxyAgreement
  <2>5. /\ remote' \in BOOLEAN /\ queue' = <<>> /\ UNCHANGED <<active, arrived>>
        /\ carried' = IF remote' THEN carried + Len(queue) ELSE carried
        /\ unreached' = IF remote' THEN unreached ELSE unreached + Len(queue)
    BY <1>5 DEF UdpProxy!ReadFromListen, UdpProxy!Carried
  <2>6. UdpProxyTypes'
    BY <1>a, <2>2, <2>3, <2>4, <2>5 DEF UdpProxyTypes
  <2>7. UdpProxyAgreement'
    BY <2>1, <2>3, <2>4, <2>5 DEF UdpProxyAgreement
  <2>8. UdpProxy!CarriesEverything'
    BY <1>a, <2>1, <2>2, <2>5 DEF UdpProxy!CarriesEverything, UdpProxyTypes
  <2> QED BY <2>6, <2>7, <2>8 DEF UdpProxyIInv
<1>6. CASE UdpProxy!ReadFromRemote
  <2>1. UdpProxy!SocketTypeOK' /\ UNCHANGED <<running, connected, told>> /\ stray' = FALSE
    BY <1>6, <1>a, <1>b DEF UdpProxy!ReadFromRemote, UdpProxy!DataReported, UdpProxy!SocketTypeOK,
       UdpProxyAgreement
  <2> QED BY <1>6, <1>a, <2>1 DEF UdpProxy!ReadFromRemote, UdpProxy!counts, UdpProxyIInv,
             UdpProxyTypes, UdpProxyAgreement, UdpProxy!CarriesEverything
<1>7. CASE UdpProxy!ListenLost
  <2>1. UdpProxy!SocketTypeOK' /\ connected' = FALSE /\ told' = FALSE /\ stray' = stray /\ active' \in BOOLEAN
    BY <1>7, <1>a, <1>b DEF UdpProxy!ListenLost, UdpProxy!Disconnected, UdpProxy!SocketTypeOK,
       UdpProxyTypes
  <2> QED BY <1>7, <2>1, UdpProxyClosing DEF UdpProxy!ListenLost
<1>8. CASE UdpProxy!RemoteLost
  <2>1. UdpProxy!SocketTypeOK' /\ connected' = FALSE /\ told' = FALSE /\ stray' = stray /\ active' \in BOOLEAN
    BY <1>8, <1>a, <1>b DEF UdpProxy!RemoteLost, UdpProxy!Disconnected, UdpProxy!SocketTypeOK,
       UdpProxyTypes
  <2> QED BY <1>8, <2>1, UdpProxyClosing DEF UdpProxy!RemoteLost
<1>9. CASE UdpProxy!SendData
  BY <1>9, <1>a, <1>b DEF UdpProxy!SendData, UdpProxy!socketVars, UdpProxy!counts, UdpProxyIInv,
     UdpProxyTypes, UdpProxy!SocketTypeOK, UdpProxyAgreement, UdpProxy!CarriesEverything
<1>10. ASSUME NEW c \in Clients, UdpProxy!Arrive(c) PROVE UdpProxyIInv'
  <2>1. listen # UdpProxy!Null /\ connected
    BY <1>10, <1>a DEF UdpProxy!Arrive, UdpProxyAgreement, UdpProxy!ClientsAreNames, UdpProxy!Null
  <2>2. queue' \in Seq(Clients) /\ Len(queue') = Len(queue) + 1 /\ Len(queue) \in Nat
    BY <1>10, <1>a, AppendProperties, LenProperties DEF UdpProxy!Arrive, UdpProxyTypes
  <2>3. UdpProxyTypes'
    BY <1>10, <1>a, <2>2 DEF UdpProxy!Arrive, UdpProxy!socketVars, UdpProxyTypes, UdpProxy!SocketTypeOK
  <2>4. UdpProxyAgreement' /\ UdpProxy!CarriesEverything'
    BY <1>10, <1>a, <2>1, <2>2 DEF UdpProxy!Arrive, UdpProxy!socketVars, UdpProxyTypes,
       UdpProxyAgreement, UdpProxy!CarriesEverything
  <2> QED BY <2>3, <2>4 DEF UdpProxyIInv
<1>11. CASE UNCHANGED UdpProxy!vars
  BY <1>11, <1>a DEF UdpProxy!vars, UdpProxy!socketVars, UdpProxy!counts, UdpProxyIInv, UdpProxyTypes,
     UdpProxy!SocketTypeOK, UdpProxyAgreement, UdpProxy!CarriesEverything
<1> QED
  BY <1>1, <1>2, <1>3, <1>4, <1>5, <1>6, <1>7, <1>8, <1>9, <1>10, <1>11 DEF UdpProxy!Next, UdpProxy!Step

(* No more is counted than has arrived, connected or not.                    *)
UdpProxyCounted ==
  carried + unreached + Len(queue) <= arrived /\ arrived <= (MaxData + 1) /\ crashed \in BOOLEAN

LEMMA UdpProxyInitCounted == UdpProxy!ClientsAreNames /\ UdpProxy!Init => UdpProxyCounted
<1> SUFFICES ASSUME UdpProxy!ClientsAreNames, UdpProxy!Init PROVE UdpProxyCounted
  OBVIOUS
<1>1. Len(queue) = 0 /\ carried = 0 /\ unreached = 0 /\ arrived = 0
  BY DEF UdpProxy!Init
<1>2. crashed \in BOOLEAN
  BY DEF UdpProxy!Init
<1>3. carried + unreached + Len(queue) <= arrived /\ arrived <= (MaxData + 1)
  BY <1>1 DEF UdpProxy!ClientsAreNames
<1> QED BY <1>2, <1>3 DEF UdpProxyCounted

LEMMA UdpProxyNextCounted ==
  UdpProxy!ClientsAreNames /\ UdpProxyIInv /\ UdpProxyCounted /\ [UdpProxy!Next]_(UdpProxy!vars) => UdpProxyCounted'
<1> SUFFICES ASSUME UdpProxy!ClientsAreNames, UdpProxyIInv, UdpProxyCounted,
[UdpProxy!Next]_(UdpProxy!vars) PROVE UdpProxyCounted'
  OBVIOUS
<1>1. /\ arrived \in Nat /\ carried \in Nat /\ unreached \in Nat /\ Len(queue) \in Nat /\ (MaxData + 1) \in Nat
      /\ queue \in Seq(Clients) /\ Len(<<>>) = 0
      /\ carried + unreached + Len(queue) <= arrived /\ arrived <= (MaxData + 1)
  BY LenProperties DEF UdpProxyIInv, UdpProxyTypes, UdpProxyCounted, UdpProxy!ClientsAreNames
<1>2. ASSUME UNCHANGED UdpProxy!counts, queue' = queue \/ queue' = <<>>
      PROVE  carried' + unreached' + Len(queue') <= arrived' /\ arrived' <= (MaxData + 1)
  <2>1. CASE queue' = queue
    BY <1>1, <1>2, <2>1 DEF UdpProxy!counts
  <2>2. CASE queue' = <<>>
    <3>1. Len(queue') = 0
      BY <2>2
    <3> QED BY <1>1, <1>2, <3>1 DEF UdpProxy!counts
  <2> QED BY <1>2, <2>1, <2>2
<1>3. CASE UdpProxy!Start \/ UdpProxy!ReadFromRemote \/ UdpProxy!Disconnect \/ UdpProxy!Stop \/ UdpProxy!ListenLost
  <2>1. UNCHANGED <<UdpProxy!counts, crashed>> /\ (queue' = queue \/ queue' = <<>>)
    BY <1>3 DEF UdpProxy!Start, UdpProxy!ReadFromRemote, UdpProxy!Disconnect, UdpProxy!Stop,
       UdpProxy!ListenLost, UdpProxy!Close
  <2> QED BY <1>2, <2>1 DEF UdpProxyCounted
<1>4. CASE UdpProxy!SendData
  <2>1. UNCHANGED <<UdpProxy!counts, queue>> /\ crashed' \in BOOLEAN
    BY <1>4 DEF UdpProxy!SendData
  <2> QED BY <1>2, <2>1 DEF UdpProxyCounted
<1>5. CASE UdpProxy!RemoteLost
  <2>1. UNCHANGED UdpProxy!counts /\ queue' = <<>> /\ crashed' \in BOOLEAN
    BY <1>5 DEF UdpProxy!RemoteLost, UdpProxy!Linked
  <2> QED BY <1>2, <2>1 DEF UdpProxyCounted
<1>6. CASE UdpProxy!Connect
  <2>1. Len(queue') = 0 /\ arrived' = 0 /\ carried' = 0 /\ unreached' = 0 /\ crashed' = crashed
    BY <1>6 DEF UdpProxy!Connect
  <2> QED BY <1>1, <2>1 DEF UdpProxyCounted
<1>7. CASE UdpProxy!ReadFromListen
  <2>1. /\ Len(queue') = 0 /\ arrived' = arrived /\ crashed' = crashed
        /\ carried' = IF remote' THEN carried + Len(queue) ELSE carried
        /\ unreached' = IF remote' THEN unreached ELSE unreached + Len(queue)
    BY <1>7 DEF UdpProxy!ReadFromListen, UdpProxy!Carried
  <2> QED BY <1>1, <2>1 DEF UdpProxyCounted
<1>8. ASSUME NEW c \in Clients, UdpProxy!Arrive(c) PROVE UdpProxyCounted'
  <2>1. /\ Len(queue') = Len(queue) + 1 /\ arrived' = arrived + 1 /\ arrived < (MaxData + 1)
        /\ UNCHANGED <<carried, unreached, crashed>>
    BY <1>1, <1>8, AppendProperties DEF UdpProxy!Arrive
  <2> QED BY <1>1, <2>1 DEF UdpProxyCounted
<1>9. CASE UNCHANGED UdpProxy!vars
  BY <1>9 DEF UdpProxy!vars, UdpProxy!counts, UdpProxyCounted
<1> QED BY <1>3, <1>4, <1>5, <1>6, <1>7, <1>8, <1>9 DEF UdpProxy!Next, UdpProxy!Step

LEMMA UdpProxyCountedTypes == UdpProxy!ClientsAreNames /\ UdpProxyIInv /\ UdpProxyCounted => UdpProxy!TypeOK
<1> SUFFICES ASSUME UdpProxy!ClientsAreNames, UdpProxyIInv, UdpProxyCounted PROVE UdpProxy!TypeOK
  OBVIOUS
<1>1. arrived \in 0..(MaxData + 1) /\ carried \in 0..(MaxData + 1) /\ unreached \in 0..(MaxData + 1)
  BY LenProperties DEF UdpProxyIInv, UdpProxyTypes, UdpProxyCounted, UdpProxy!ClientsAreNames
<1> QED BY <1>1 DEF UdpProxy!TypeOK, UdpProxyIInv, UdpProxyTypes, UdpProxyCounted

LEMMA UdpProxyInductive == UdpProxy!Spec => []UdpProxyIInv
<1>1. UdpProxy!ClientsAreNames
  BY TransportAssumption DEF UdpProxy!ClientsAreNames, UdpProxy!Null
<1>2. UdpProxy!Init => UdpProxyIInv
  BY <1>1, UdpProxyInitIInv
<1>3. UdpProxyIInv /\ [UdpProxy!Next]_(UdpProxy!vars) => UdpProxyIInv'
  BY <1>1, UdpProxyNextIInv
<1> QED BY <1>2, <1>3, PTL DEF UdpProxy!Spec

-----------------------------------------------------------------------------
(* A tool that shows a connected proxy has a listen socket to send through,  *)
(* one that shows a disconnected proxy has no remote socket left over and    *)
(* nothing to report (UdpProxySocket.cpp).                                   *)
THEOREM SocketsFollow == UdpProxy!Spec => []UdpProxy!SocketsFollowStatus
<1>1. UdpProxyIInv => UdpProxy!SocketsFollowStatus
  BY DEF UdpProxyIInv, UdpProxyAgreement, UdpProxy!SocketsFollowStatus
<1> QED BY <1>1, UdpProxyInductive, PTL

(* Every datagram of a client is carried to the remote host, waits to be     *)
(* read, or was read while there was no way to the remote host.              *)
THEOREM NothingUncounted == UdpProxy!Spec => []UdpProxy!CarriesEverything
<1>1. UdpProxyIInv => UdpProxy!CarriesEverything
  BY DEF UdpProxyIInv
<1> QED BY <1>1, UdpProxyInductive, PTL

(* The UDP proxy as the part that runs.                                      *)
UdpProxyRuns == subject = "udp_proxy" => UdpProxyIInv /\ UdpProxyCounted

LEMMA UdpProxyRunsInductive ==
  /\ Init => UdpProxyRuns
  /\ UdpProxyRuns /\ [Next]_vars => UdpProxyRuns'
<1>0. UdpProxy!ClientsAreNames
  BY TransportAssumption DEF UdpProxy!ClientsAreNames, UdpProxy!Null
<1>1. Init => UdpProxyRuns
  BY <1>0, UdpProxyInitIInv, UdpProxyInitCounted DEF Init, UdpProxyRuns
<1>2. ASSUME UdpProxyRuns, [Next]_vars, subject' = "udp_proxy"
       PROVE  UdpProxyIInv' /\ UdpProxyCounted'
  <2>1. subject = "udp_proxy"
    BY <1>2 DEF Next, vars
  <2>2. [UdpProxy!Next]_(UdpProxy!vars)
    <3>1. CASE UdpProxyStep
      BY <3>1, <2>1 DEF UdpProxyStep
    <3>2. CASE UNCHANGED vars
      BY <3>2 DEF vars, tcpVars, udpVars, echoVars, serialVars, clientVars, chainVars,
         UdpProxy!vars, UdpProxy!socketVars, UdpProxy!counts
    <3> QED
      BY <1>2, <2>1, <3>1, <3>2 DEF Next, TcpServerStep, TcpProxyStep, TcpClientStep,
         SslClientStep, UdpGenericStep, EchoStep, SerialStep, ChainStep
  <2> QED BY <1>0, <1>2, <2>1, <2>2, UdpProxyNextIInv, UdpProxyNextCounted DEF UdpProxyRuns
<1> QED BY <1>1, <1>2 DEF UdpProxyRuns

-----------------------------------------------------------------------------
(* The UDP socket.                                                           *)
LEMMA MaxOf ==
  ASSUME NEW S \in SUBSET Int, NEW m \in S, \A y \in S : m >= y
  PROVE  UdpGeneric!Max(S) = m
<1>1. UdpGeneric!Max(S) \in S /\ \A y \in S : UdpGeneric!Max(S) >= y
  BY DEF UdpGeneric!Max
<1> DEFINE x == UdpGeneric!Max(S)
<1>2. x \in Int /\ m \in Int /\ m >= x /\ x >= m
  BY <1>1
<1> HIDE DEF x
<1>3. x = m
  BY <1>2
<1> QED BY <1>3 DEF x

(* The key that is looked at last is the closer one.                         *)
LEMMA BroadcastIsAsked ==
  ASSUME NEW props \in UdpGeneric!PropMaps
  PROVE  /\ UdpGeneric!BroadcastTtl(props) = UdpGeneric!Asked(props)
         /\ UdpGeneric!Asked(props) \in {2, 3} \cup {defaultTtl}
<1> DEFINE keys == UdpGeneric!BroadcastTtlKeys
           there == {k \in DOMAIN keys : keys[k] \in DOMAIN props}
<1>1. /\ DOMAIN keys = 1..4
      /\ keys[1] = "network.broadcast_radius" /\ keys[2] = "network.broadcast_ttl"
      /\ keys[3] = "udp.broadcast_radius" /\ keys[4] = "udp.broadcast_ttl"
  BY DEF UdpGeneric!BroadcastTtlKeys
<1>2. /\ DOMAIN props \subseteq {"network.broadcast_ttl", "udp.broadcast_radius"}
      /\ \A k \in DOMAIN props : props[k] \in {2, 3}
  BY DEF UdpGeneric!PropMaps
<1>3. there \in SUBSET Int /\ \A k \in there : k \in {2, 3}
  BY <1>1, <1>2
<1>4. /\ 2 \in there <=> "network.broadcast_ttl" \in DOMAIN props
      /\ 3 \in there <=> "udp.broadcast_radius" \in DOMAIN props
  BY <1>1
<1>5. UdpGeneric!BroadcastTtl(props) = IF there = {} THEN defaultTtl ELSE props[keys[UdpGeneric!Max(there)]]
  BY DEF UdpGeneric!BroadcastTtl, UdpGeneric!Override
<1> HIDE DEF keys, there
<1>6. CASE "udp.broadcast_radius" \in DOMAIN props
  <2>1. UdpGeneric!Max(there) = 3 /\ there # {}
    <3>1. 3 \in there /\ \A y \in there : 3 >= y
      BY <1>3, <1>4, <1>6
    <3> QED BY <1>3, <3>1, MaxOf
  <2>2. UdpGeneric!Asked(props) = props["udp.broadcast_radius"]
    BY <1>6 DEF UdpGeneric!Asked
  <2> QED BY <1>1, <1>2, <1>5, <1>6, <2>1, <2>2
<1>7. CASE "udp.broadcast_radius" \notin DOMAIN props /\ "network.broadcast_ttl" \in DOMAIN props
  <2>1. UdpGeneric!Max(there) = 2 /\ there # {}
    <3>1. 2 \in there /\ \A y \in there : 2 >= y
      BY <1>3, <1>4, <1>7
    <3> QED BY <1>3, <3>1, MaxOf
  <2>2. UdpGeneric!Asked(props) = props["network.broadcast_ttl"]
    BY <1>7 DEF UdpGeneric!Asked
  <2> QED BY <1>1, <1>2, <1>5, <1>7, <2>1, <2>2
<1>8. CASE "udp.broadcast_radius" \notin DOMAIN props /\ "network.broadcast_ttl" \notin DOMAIN props
  <2>1. there = {}
    BY <1>3, <1>4, <1>8
  <2>2. UdpGeneric!Asked(props) = defaultTtl
    BY <1>8 DEF UdpGeneric!Asked
  <2> QED BY <1>5, <2>1, <2>2
<1> QED BY <1>6, <1>7, <1>8

UdpPeers == Clients \cup {"none", "host"}

UdpTypes ==
  /\ udpSettings \in [host: BOOLEAN, port: BOOLEAN, local: BOOLEAN]
  /\ peer \in UdpPeers /\ queue \in Seq(Clients \cup {"host"}) /\ first \in UdpPeers
  /\ ttl \in {1, 2, 3, 64} /\ defaultTtl \in {0, 1, 64}
  /\ last \in [asked: {0, 1, 2, 3, 64}, ttl: {0, 1, 2, 3, 64}]

(* The device is closed or dead while the socket is not connected; such a    *)
(* device has no peer and nothing to read; an open one knows its time to     *)
(* live, and one that lives has kept to its first sender.                    *)
UdpRuns ==
  /\ Known /\ stray = FALSE /\ open \in BOOLEAN /\ dead \in BOOLEAN /\ (open /\ ~dead => connected)
  /\ (~open \/ dead) => queue = <<>> /\ peer = "none"
  /\ open => defaultTtl # 0
  /\ open /\ ~dead /\ first # "none" => peer = first

UdpGenericRuns == subject = "udp_generic" => UdpTypes /\ UdpRuns /\ UdpGeneric!TtlAsAsked

LEMMA UdpGenericInit == Init => UdpGenericRuns
<1> SUFFICES ASSUME Init PROVE UdpTypes /\ UdpRuns /\ UdpGeneric!TtlAsAsked
  BY DEF UdpGenericRuns
<1>1. /\ running = FALSE /\ connected = FALSE /\ told = FALSE /\ stray = FALSE
      /\ open = FALSE /\ dead = FALSE /\ peer = "none" /\ queue = <<>> /\ ttl = 1 /\ defaultTtl = 0
      /\ first = "none" /\ last = [asked |-> 0, ttl |-> 0]
      /\ udpSettings \in [host: BOOLEAN, port: BOOLEAN, local: BOOLEAN]
  BY DEF Init, UdpGeneric!Init, UdpGeneric!SocketInit, UdpGeneric!NoPeer
<1>2. UdpTypes
  BY <1>1 DEF UdpTypes, UdpPeers
<1>3. UdpRuns /\ UdpGeneric!TtlAsAsked
  BY <1>1 DEF UdpRuns, Known, UdpGeneric!TtlAsAsked
<1> QED BY <1>2, <1>3

(* The device is closed when the socket is disconnected, and dead when it is *)
(* lost.                                                                     *)
LEMMA UdpCloses ==
  ASSUME UdpTypes, UdpRuns, UdpGeneric!TtlAsAsked, running' \in BOOLEAN, connected' = FALSE, told' = FALSE,
         UNCHANGED <<stray, udpSettings, defaultTtl, first, last, ttl>>,
         (open' = FALSE /\ dead' = FALSE) \/ (open' = open /\ dead' = TRUE), peer' = "none", queue' = <<>>
  PROVE  UdpTypes' /\ UdpRuns' /\ UdpGeneric!TtlAsAsked'
<1>1. UdpTypes'
  BY DEF UdpTypes, UdpPeers
<1>2. Known' /\ stray' = FALSE /\ UdpGeneric!TtlAsAsked'
  BY DEF UdpRuns, Known, UdpGeneric!TtlAsAsked
<1>3. CASE open' = FALSE /\ dead' = FALSE
  BY <1>1, <1>2, <1>3 DEF UdpRuns
<1>4. CASE open' = open /\ dead' = TRUE
  BY <1>1, <1>2, <1>4 DEF UdpRuns
<1> QED BY <1>3, <1>4

LEMMA UdpGenericNext == UdpGenericRuns /\ [Next]_vars => UdpGenericRuns'
<1> SUFFICES ASSUME UdpGenericRuns, [Next]_vars, subject' = "udp_generic"
             PROVE  UdpTypes' /\ UdpRuns' /\ UdpGeneric!TtlAsAsked'
  BY DEF UdpGenericRuns
<1>1. subject = "udp_generic"
  BY DEF Next, vars
<1>2. UdpTypes /\ UdpRuns /\ UdpGeneric!TtlAsAsked
  BY <1>1 DEF UdpGenericRuns
<1>3. /\ running \in BOOLEAN /\ connected \in BOOLEAN /\ told \in BOOLEAN /\ told = connected
      /\ (connected => running) /\ stray = FALSE /\ open \in BOOLEAN /\ dead \in BOOLEAN /\ (open /\ ~dead => connected)
  BY <1>2 DEF UdpRuns, Known
<1>4. CASE UNCHANGED vars
  BY <1>2, <1>4 DEF vars, udpVars, UdpTypes, UdpRuns, Known, UdpGeneric!TtlAsAsked
<1> USE DEF UdpGeneric!socketVars, UdpGeneric!deviceVars, UdpGeneric!NoPeer, UdpGeneric!Host
<1>5. CASE UdpGeneric!Start
  BY <1>2, <1>3, <1>5 DEF UdpGeneric!Start, UdpGeneric!Started, UdpTypes, UdpRuns, Known, UdpGeneric!TtlAsAsked
<1>6. CASE UdpGeneric!Configure
  BY <1>2, <1>6 DEF UdpGeneric!Configure, UdpTypes, UdpRuns, Known, UdpGeneric!TtlAsAsked
<1>7. CASE UdpGeneric!Connect
  <2>1. running /\ connected = FALSE /\ last' = last
    BY <1>3, <1>7 DEF UdpGeneric!Connect, UdpGeneric!ConnectClicked
  <2>2. CASE UdpGeneric!Refused
    <3>1. UdpGeneric!Connected(FALSE) /\ UNCHANGED <<udpSettings, open, dead, peer, queue, ttl, defaultTtl, first>>
      BY <1>7, <2>2 DEF UdpGeneric!Connect
    <3>2. UNCHANGED <<running, connected, told, stray>>
      BY <1>3, <2>1, <3>1 DEF UdpGeneric!Connected
    <3>3. UdpTypes' /\ UdpGeneric!TtlAsAsked'
      BY <1>2, <2>1, <3>1 DEF UdpTypes, UdpGeneric!TtlAsAsked
    <3> QED BY <1>2, <3>1, <3>2, <3>3 DEF UdpRuns, Known
  <2>3. CASE ~UdpGeneric!Refused
    <3>1. /\ UdpGeneric!Connected(TRUE) /\ open' \in BOOLEAN /\ dead' = FALSE
          /\ peer' \in IF udpSettings.host /\ open' THEN {"none", "host"} ELSE {"none"}
          /\ ttl' = 1 /\ queue' = <<>> /\ first' = "none" /\ udpSettings' = udpSettings
          /\ defaultTtl' = IF defaultTtl # 0 THEN defaultTtl ELSE IF open' THEN 1 ELSE 64
      BY <1>7, <2>3 DEF UdpGeneric!Connect, UdpGeneric!AssumedTtl
    <3>2. peer' \in {"none", "host"} /\ (~open' => peer' = "none") /\ defaultTtl' \in {1, 64}
      BY <1>2, <3>1 DEF UdpTypes
    <3>3. running' /\ connected' /\ told' /\ stray' = FALSE
      BY <1>3, <2>1, <3>1 DEF UdpGeneric!Connected
    <3>4. UdpTypes'
      BY <1>2, <2>1, <3>1, <3>2 DEF UdpTypes, UdpPeers
    <3>5. UdpRuns'
      <4>1. Known'
        BY <3>3 DEF Known
      <4>2. defaultTtl' # 0 /\ first' = "none" /\ queue' = <<>> /\ dead' = FALSE /\ open' \in BOOLEAN
        BY <3>1, <3>2
      <4> QED BY <3>2, <3>3, <4>1, <4>2 DEF UdpRuns
    <3> QED BY <1>2, <2>1, <3>4, <3>5 DEF UdpGeneric!TtlAsAsked
  <2> QED BY <2>2, <2>3
<1>8. CASE UdpGeneric!Disconnect \/ UdpGeneric!Lose
  BY <1>2, <1>3, <1>8, UdpCloses DEF UdpGeneric!Disconnect, UdpGeneric!Lose, UdpGeneric!Disconnected, UdpGeneric!Close
<1>9. CASE UdpGeneric!Stop
  <2>1. running' = FALSE /\ connected' = FALSE /\ told' = FALSE /\ stray' = stray
    BY <1>3, <1>9 DEF UdpGeneric!Stop, UdpGeneric!Stopped
  <2>2. /\ (open' = FALSE /\ dead' = FALSE) \/ (open' = open /\ dead' = TRUE)
        /\ peer' = "none" /\ queue' = <<>> /\ UNCHANGED <<ttl, udpSettings, defaultTtl, first, last>>
    BY <1>2, <1>3, <1>9 DEF UdpGeneric!Stop, UdpGeneric!Close, UdpRuns
  <2> QED BY <1>2, <2>1, <2>2, UdpCloses
<1>10. CASE UdpGeneric!ReadFromSocket
  <2>1. queue # <<>> /\ open /\ ~dead /\ connected /\ running /\ told
    BY <1>2, <1>3, <1>10 DEF UdpGeneric!ReadFromSocket, UdpRuns
  <2>2. UNCHANGED <<running, connected, told, open, dead, udpSettings, ttl, defaultTtl, last>> /\ stray' = FALSE
    BY <1>3, <1>10, <2>1 DEF UdpGeneric!ReadFromSocket, UdpGeneric!DataReported
  <2>3. Head(queue) \in UdpPeers /\ queue' = Tail(queue) /\ Tail(queue) \in Seq(Clients \cup {"host"})
    BY <1>2, <1>10, <2>1, HeadTailProperties DEF UdpTypes, UdpPeers, UdpGeneric!ReadFromSocket
  <2>4. /\ peer' = IF peer = "none" THEN Head(queue) ELSE peer
        /\ first' = IF first = "none" /\ peer = "none" THEN Head(queue) ELSE first
    BY <1>10 DEF UdpGeneric!ReadFromSocket, UdpGeneric!Adopt
  <2>5. first' # "none" => peer' = first'
    BY <1>2, <2>1, <2>4 DEF UdpRuns
  <2>6. UdpTypes'
    BY <1>2, <2>2, <2>3, <2>4 DEF UdpTypes
  <2>7. UdpRuns'
    BY <1>2, <2>1, <2>2, <2>5 DEF UdpRuns, Known
  <2> QED BY <1>2, <2>2, <2>6, <2>7 DEF UdpGeneric!TtlAsAsked
<1>11. CASE UdpGeneric!Unicast
  <2>1. /\ open /\ defaultTtl \in {1, 64} /\ ttl' = defaultTtl
        /\ UNCHANGED <<running, connected, told, stray, udpSettings, open, dead, peer, queue, defaultTtl, first>>
    BY <1>2, <1>11 DEF UdpGeneric!Unicast, UdpGeneric!UnicastTtl, UdpTypes, UdpRuns
  <2>2. last' = last \/ last' = [asked |-> defaultTtl, ttl |-> defaultTtl]
    BY <1>11 DEF UdpGeneric!Unicast, UdpGeneric!UnicastTtl
  <2>3. last' \in [asked: {0, 1, 2, 3, 64}, ttl: {0, 1, 2, 3, 64}] /\ UdpGeneric!TtlAsAsked'
    BY <1>2, <2>1, <2>2 DEF UdpTypes, UdpGeneric!TtlAsAsked
  <2> QED BY <1>2, <2>1, <2>3 DEF UdpTypes, UdpRuns, Known
<1>12. ASSUME NEW p \in Clients \cup {"host"}, UdpGeneric!Arrive(p)
       PROVE  UdpTypes' /\ UdpRuns' /\ UdpGeneric!TtlAsAsked'
  <2>1. /\ open /\ ~dead /\ queue' = Append(queue, p)
        /\ UNCHANGED <<running, connected, told, stray, udpSettings, open, dead, peer, ttl, defaultTtl, first, last>>
    BY <1>12 DEF UdpGeneric!Arrive
  <2>2. queue' \in Seq(Clients \cup {"host"})
    BY <1>2, <2>1, AppendProperties DEF UdpTypes
  <2> QED BY <1>2, <2>1, <2>2 DEF UdpTypes, UdpRuns, Known, UdpGeneric!TtlAsAsked
<1>13. ASSUME NEW props \in UdpGeneric!PropMaps, UdpGeneric!Broadcast(props)
       PROVE  UdpTypes' /\ UdpRuns' /\ UdpGeneric!TtlAsAsked'
  <2> DEFINE asked == UdpGeneric!Asked(props)
  <2>1. /\ open /\ defaultTtl \in {1, 64} /\ ttl' = asked /\ last' = [asked |-> asked, ttl |-> asked]
        /\ UNCHANGED <<running, connected, told, stray, udpSettings, open, dead, peer, queue, defaultTtl, first>>
    BY <1>2, <1>13, BroadcastIsAsked DEF UdpGeneric!Broadcast, UdpTypes, UdpRuns
  <2>2. asked \in {2, 3} \cup {defaultTtl}
    BY BroadcastIsAsked
  <2> HIDE DEF asked
  <2>3. asked \in {1, 2, 3, 64} /\ UdpGeneric!TtlAsAsked'
    BY <2>1, <2>2 DEF UdpGeneric!TtlAsAsked
  <2> QED BY <1>2, <2>1, <2>3 DEF UdpTypes, UdpRuns, Known
<1>14. UdpGenericStep \/ UNCHANGED vars
  BY <1>1 DEF Next, TcpServerStep, TcpProxyStep, TcpClientStep, SslClientStep, UdpProxyStep, EchoStep, SerialStep,
     ChainStep
<1> QED
  BY <1>4, <1>5, <1>6, <1>7, <1>8, <1>9, <1>10, <1>11, <1>12, <1>13, <1>14 DEF UdpGenericStep, UdpGeneric!Next

-----------------------------------------------------------------------------
(* The chain of filters, without error boxes.                                *)
LEMMA ChainPInit == Chain!Init => ChainP!Init
BY Zenon DEF Chain!Init, ChainP!Init, Chain!Filters, ChainP!Filters, Chain!Protocol,
   ChainP!Protocol, Chain!Application, ChainP!Application, Chain!Listeners, ChainP!Listeners

LEMMA ChainPNext == Chain!Next => ChainP!Next
<1> USE Zenon DEF Chain!chainVars, ChainP!chainVars, Chain!history, ChainP!history,
   Chain!Filters, ChainP!Filters, Chain!Protocol, ChainP!Protocol, Chain!Application,
   ChainP!Application, Chain!Listeners, ChainP!Listeners, Chain!Idle, ChainP!Idle, Chain!Top,
   ChainP!Top, Chain!Rest, ChainP!Rest, Chain!InCall, ChainP!InCall, Chain!EventLoop,
   ChainP!EventLoop
<1>1. Chain!Start => ChainP!Start
  BY DEF Chain!Start, ChainP!Start
<1>2. Chain!Stop => ChainP!Stop
  BY DEF Chain!Stop, ChainP!Stop, Chain!Call, ChainP!Call
<1>3. Chain!Connect => ChainP!Connect
  BY DEF Chain!Connect, ChainP!Connect, Chain!Report, ChainP!Report, Chain!Call, ChainP!Call
<1>4. Chain!Disconnect => ChainP!Disconnect
  BY DEF Chain!Disconnect, ChainP!Disconnect, Chain!Report, ChainP!Report, Chain!Call,
     ChainP!Call
<1>5. Chain!Lost => ChainP!Lost
  BY DEF Chain!Lost, ChainP!Lost, Chain!Report, ChainP!Report, Chain!Call, ChainP!Call
<1>6. Chain!Tell => ChainP!Tell
  BY DEF Chain!Tell, ChainP!Tell, Chain!NextListener, ChainP!NextListener
<1>7. Chain!Told => ChainP!Told
  BY DEF Chain!Told, ChainP!Told, Chain!Call, ChainP!Call
<1>8. Chain!SocketData => ChainP!SocketData
  BY DEF Chain!SocketData, ChainP!SocketData, Chain!Call, ChainP!Call
<1>9. Chain!RecvPass => ChainP!RecvPass
  BY DEF Chain!RecvPass, ChainP!RecvPass
<1>10. Chain!Consume => ChainP!Consume
  BY DEF Chain!Consume, ChainP!Consume
<1>11. Chain!ToProtocol => ChainP!ToProtocol
  BY DEF Chain!ToProtocol, ChainP!ToProtocol
<1>12. Chain!ProtocolSends => ChainP!ProtocolSends
  BY DEF Chain!ProtocolSends, ChainP!ProtocolSends, Chain!Call, ChainP!Call
<1>13. Chain!SendPass => ChainP!SendPass
  BY DEF Chain!SendPass, ChainP!SendPass
<1>14. Chain!ToSocket => ChainP!ToSocket
  BY DEF Chain!ToSocket, ChainP!ToSocket
<1>15. Chain!OpenBox => ChainP!OpenBox
  BY DEF Chain!OpenBox, ChainP!OpenBox
<1>16. Chain!CloseBox => ChainP!CloseBox
  BY DEF Chain!CloseBox, ChainP!CloseBox
<1>17. ASSUME NEW i PROVE Chain!FilterSends(i) => ChainP!FilterSends(i)
  BY DEF Chain!FilterSends, ChainP!FilterSends, Chain!Call, ChainP!Call, Chain!Below,
     ChainP!Below
<1> QED BY <1>1, <1>2, <1>3, <1>4, <1>5, <1>6, <1>7, <1>8, <1>9, <1>10, <1>11, <1>12, <1>13,
   <1>14, <1>15, <1>16, <1>17 DEF Chain!Next, ChainP!Next

ChainRuns == subject = "chain" => ChainP!IInv /\ ChainP!Typed /\ ChainP!PlainInv

LEMMA ChainRunsInductive ==
  /\ Init => ChainRuns
  /\ ChainRuns /\ [Next]_vars => ChainRuns'
<1>0. ChainP!FiltersAreCounted /\ ChainP!Bounded
  BY TransportAssumption DEF ChainP!FiltersAreCounted, ChainP!Bounded
<1>1. Init => ChainRuns
  BY <1>0, ChainPInit, ChainP!InitIInv, ChainP!InitTyped, ChainP!InitPlain DEF Init, ChainRuns
<1>2. ASSUME ChainRuns, [Next]_vars, subject' = "chain"
       PROVE  ChainP!IInv' /\ ChainP!Typed' /\ ChainP!PlainInv'
  <2>1. subject = "chain"
    BY <1>2 DEF Next, vars
  <2>2. [ChainP!Next]_(ChainP!vars)
    <3>1. CASE ChainStep
      BY <3>1, <2>1, ChainPNext DEF ChainStep
    <3>2. CASE UNCHANGED vars
      BY <3>2 DEF vars, tcpVars, udpVars, echoVars, serialVars, clientVars, chainVars,
         ChainP!vars, ChainP!chainVars, ChainP!history
    <3> QED
      BY <1>2, <2>1, <3>1, <3>2 DEF Next, TcpServerStep, TcpProxyStep, TcpClientStep,
         SslClientStep, UdpGenericStep, UdpProxyStep, EchoStep, SerialStep
  <2> QED BY <1>0, <1>2, <2>1, <2>2, ChainP!NextIInv, ChainP!NextTyped, ChainP!NextPlain DEF ChainRuns
<1> QED BY <1>1, <1>2 DEF ChainRuns

-----------------------------------------------------------------------------
(* The chain of filters, with error boxes.                                   *)
LEMMA BoxedPInit == Chain!Init => BoxedP!Init
BY Zenon DEF Chain!Init, BoxedP!Init, Chain!Filters, BoxedP!Filters, Chain!Protocol,
   BoxedP!Protocol, Chain!Application, BoxedP!Application, Chain!Listeners, BoxedP!Listeners

LEMMA BoxedPNext == BoxedChain!Next => BoxedP!Next
<1> USE Zenon DEF BoxedChain!chainVars, BoxedP!chainVars, BoxedChain!history, BoxedP!history,
   BoxedChain!Filters, BoxedP!Filters, BoxedChain!Protocol, BoxedP!Protocol,
   BoxedChain!Application, BoxedP!Application, BoxedChain!Listeners, BoxedP!Listeners,
   BoxedChain!Idle, BoxedP!Idle, BoxedChain!Top, BoxedP!Top, BoxedChain!Rest, BoxedP!Rest,
   BoxedChain!InCall, BoxedP!InCall, BoxedChain!EventLoop, BoxedP!EventLoop
<1>1. BoxedChain!Start => BoxedP!Start
  BY DEF BoxedChain!Start, BoxedP!Start
<1>2. BoxedChain!Stop => BoxedP!Stop
  BY DEF BoxedChain!Stop, BoxedP!Stop, BoxedChain!Call, BoxedP!Call
<1>3. BoxedChain!Connect => BoxedP!Connect
  BY DEF BoxedChain!Connect, BoxedP!Connect, BoxedChain!Report, BoxedP!Report, BoxedChain!Call,
     BoxedP!Call
<1>4. BoxedChain!Disconnect => BoxedP!Disconnect
  BY DEF BoxedChain!Disconnect, BoxedP!Disconnect, BoxedChain!Report, BoxedP!Report,
     BoxedChain!Call, BoxedP!Call
<1>5. BoxedChain!Lost => BoxedP!Lost
  BY DEF BoxedChain!Lost, BoxedP!Lost, BoxedChain!Report, BoxedP!Report, BoxedChain!Call,
     BoxedP!Call
<1>6. BoxedChain!Tell => BoxedP!Tell
  BY DEF BoxedChain!Tell, BoxedP!Tell, BoxedChain!NextListener, BoxedP!NextListener
<1>7. BoxedChain!Told => BoxedP!Told
  BY DEF BoxedChain!Told, BoxedP!Told, BoxedChain!Call, BoxedP!Call
<1>8. BoxedChain!SocketData => BoxedP!SocketData
  BY DEF BoxedChain!SocketData, BoxedP!SocketData, BoxedChain!Call, BoxedP!Call
<1>9. BoxedChain!RecvPass => BoxedP!RecvPass
  BY DEF BoxedChain!RecvPass, BoxedP!RecvPass
<1>10. BoxedChain!Consume => BoxedP!Consume
  BY DEF BoxedChain!Consume, BoxedP!Consume
<1>11. BoxedChain!ToProtocol => BoxedP!ToProtocol
  BY DEF BoxedChain!ToProtocol, BoxedP!ToProtocol
<1>12. BoxedChain!ProtocolSends => BoxedP!ProtocolSends
  BY DEF BoxedChain!ProtocolSends, BoxedP!ProtocolSends, BoxedChain!Call, BoxedP!Call
<1>13. BoxedChain!SendPass => BoxedP!SendPass
  BY DEF BoxedChain!SendPass, BoxedP!SendPass
<1>14. BoxedChain!ToSocket => BoxedP!ToSocket
  BY DEF BoxedChain!ToSocket, BoxedP!ToSocket
<1>15. BoxedChain!OpenBox => BoxedP!OpenBox
  BY DEF BoxedChain!OpenBox, BoxedP!OpenBox
<1>16. BoxedChain!CloseBox => BoxedP!CloseBox
  BY DEF BoxedChain!CloseBox, BoxedP!CloseBox
<1>17. ASSUME NEW i PROVE BoxedChain!FilterSends(i) => BoxedP!FilterSends(i)
  BY DEF BoxedChain!FilterSends, BoxedP!FilterSends, BoxedChain!Call, BoxedP!Call,
     BoxedChain!Below, BoxedP!Below
<1> QED BY <1>1, <1>2, <1>3, <1>4, <1>5, <1>6, <1>7, <1>8, <1>9, <1>10, <1>11, <1>12, <1>13,
   <1>14, <1>15, <1>16, <1>17 DEF BoxedChain!Next, BoxedP!Next

BoxedChainRuns == subject = "boxed_chain" => BoxedP!IInv

LEMMA BoxedChainRunsInductive ==
  /\ Init => BoxedChainRuns
  /\ BoxedChainRuns /\ [Next]_vars => BoxedChainRuns'
<1>0. BoxedP!FiltersAreCounted
  BY DEF BoxedP!FiltersAreCounted
<1>1. Init => BoxedChainRuns
  BY <1>0, BoxedPInit, BoxedP!InitIInv DEF Init, BoxedChainRuns
<1>2. ASSUME BoxedChainRuns, [Next]_vars, subject' = "boxed_chain" PROVE BoxedP!IInv'
  <2>1. subject = "boxed_chain"
    BY <1>2 DEF Next, vars
  <2>2. [BoxedP!Next]_(BoxedP!vars)
    <3>1. CASE ChainStep
      BY <3>1, <2>1, BoxedPNext DEF ChainStep
    <3>2. CASE UNCHANGED vars
      BY <3>2 DEF vars, tcpVars, udpVars, echoVars, serialVars, clientVars, chainVars,
         BoxedP!vars, BoxedP!chainVars, BoxedP!history
    <3> QED
      BY <1>2, <2>1, <3>1, <3>2 DEF Next, TcpServerStep, TcpProxyStep, TcpClientStep,
         SslClientStep, UdpGenericStep, UdpProxyStep, EchoStep, SerialStep
  <2> QED BY <1>0, <1>2, <2>1, <2>2, BoxedP!NextIInv DEF BoxedChainRuns
<1> QED BY <1>1, <1>2 DEF BoxedChainRuns

-----------------------------------------------------------------------------
(* The listening sockets: the port is open exactly while that is shown.      *)
ServerRuns ==
  subject \in {"tcp_server", "tcp_proxy"} =>
    Known /\ listening \in BOOLEAN /\ (connected <=> listening)

LEMMA ServerInit == Init => ServerRuns
BY DEF Init, TcpServer!Init, TcpServer!SocketInit, TcpProxy!Init, TcpProxy!SocketInit, ServerRuns, Known

LEMMA ServerNext == ServerRuns /\ [Next]_vars => ServerRuns'
<1> SUFFICES ASSUME ServerRuns, [Next]_vars, subject' \in {"tcp_server", "tcp_proxy"}
             PROVE  Known' /\ listening' \in BOOLEAN /\ (connected' <=> listening')
  BY DEF ServerRuns
<1>1. /\ subject \in {"tcp_server", "tcp_proxy"} /\ running \in BOOLEAN /\ connected \in BOOLEAN
      /\ told \in BOOLEAN /\ listening \in BOOLEAN
      /\ told = connected /\ (connected => running) /\ (connected <=> listening)
  BY DEF ServerRuns, Known, Next, vars
<1> USE DEF Known
<1>2. CASE UNCHANGED vars
  BY <1>1, <1>2 DEF vars, tcpVars
<1>3. CASE TcpServerStep
  <2> USE DEF TcpServer!socketVars
  <2>1. CASE TcpServer!Start
    BY <1>1, <2>1 DEF TcpServer!Start, TcpServer!Started
  <2>2. CASE TcpServer!Connect
    <3>1. connected = FALSE /\ listening = FALSE /\ running
      BY <1>1, <2>2 DEF TcpServer!Connect, TcpServer!ConnectClicked
    <3>2. PICK free \in BOOLEAN : TcpServer!Connected(free) /\ listening' = free
      BY <2>2, <3>1 DEF TcpServer!Connect
    <3> QED BY <3>1, <3>2 DEF TcpServer!Connected
  <2>3. CASE TcpServer!Disconnect
    BY <1>1, <2>3 DEF TcpServer!Disconnect, TcpServer!Disconnected, TcpServer!Close
  <2>4. CASE TcpServer!Stop
    <3>1. running' = FALSE /\ connected' = FALSE /\ told' = FALSE
      BY <1>1, <2>4 DEF TcpServer!Stop, TcpServer!Stopped
    <3>2. listening' = FALSE
      BY <1>1, <2>4 DEF TcpServer!Stop, TcpServer!Close
    <3> QED BY <3>1, <3>2
  <2>5. CASE TcpServer!AcceptError
    <3>1. PICK open_ \in BOOLEAN :
            /\ listening' = open_
            /\ IF open_ THEN UNCHANGED TcpServer!socketVars ELSE TcpServer!Disconnected
      BY <2>5 DEF TcpServer!AcceptError
    <3>2. listening
      BY <2>5 DEF TcpServer!AcceptError
    <3> QED BY <1>1, <3>1, <3>2 DEF TcpServer!Disconnected
  <2>6. CASE TcpServer!SendData
    BY <1>1, <2>6 DEF TcpServer!SendData
  <2>7. ASSUME NEW c \in Clients,
               \/ TcpServer!NewConnection(c) \/ TcpServer!ConnectionTerminated(c)
               \/ TcpServer!Arrive(c) \/ TcpServer!ReadFromSocket(c)
        PROVE  UNCHANGED <<running, connected, told, listening>>
    BY <2>7 DEF TcpServer!NewConnection, TcpServer!ConnectionTerminated, TcpServer!Arrive,
       TcpServer!ReadFromSocket, TcpServer!DataReported
  <2> QED BY <1>1, <1>3, <2>1, <2>2, <2>3, <2>4, <2>5, <2>6, <2>7 DEF TcpServerStep, TcpServer!Next
<1>4. CASE TcpProxyStep
  <2> USE DEF TcpProxy!socketVars
  <2>1. CASE TcpProxy!Start
    BY <1>1, <2>1 DEF TcpProxy!Start, TcpProxy!Started
  <2>2. CASE TcpProxy!Connect
    <3>1. connected = FALSE /\ listening = FALSE /\ running
      BY <1>1, <2>2 DEF TcpProxy!Connect, TcpProxy!ConnectClicked
    <3>2. PICK itself \in BOOLEAN, free \in BOOLEAN :
            /\ TcpProxy!Connected(~listening /\ ~itself /\ free)
            /\ listening' = (listening \/ (~listening /\ ~itself /\ free))
      BY <2>2 DEF TcpProxy!Connect
    <3>3. listening' = (~itself /\ free) /\ connected' = (~itself /\ free) /\ told' = (~itself /\ free)
      BY <3>1, <3>2 DEF TcpProxy!Connected
    <3>4. running' = running
      BY <3>2 DEF TcpProxy!Connected
    <3> QED BY <3>1, <3>3, <3>4
  <2>3. CASE TcpProxy!Disconnect
    BY <1>1, <2>3 DEF TcpProxy!Disconnect, TcpProxy!Disconnected, TcpProxy!Close
  <2>4. CASE TcpProxy!Stop
    <3>1. running' = FALSE /\ connected' = FALSE /\ told' = FALSE
      BY <1>1, <2>4 DEF TcpProxy!Stop, TcpProxy!Stopped
    <3>2. listening' = FALSE
      BY <1>1, <2>4 DEF TcpProxy!Stop, TcpProxy!Close
    <3> QED BY <3>1, <3>2
  <2>5. CASE TcpProxy!SendData \/ TcpProxy!AcceptError
    BY <1>1, <2>5 DEF TcpProxy!SendData, TcpProxy!AcceptError
  <2>6. ASSUME NEW c \in Clients,
               \/ TcpProxy!NewConnection(c) \/ TcpProxy!ClientSends(c) \/ TcpProxy!RemoteConnected(c)
               \/ TcpProxy!RemoteRefused(c) \/ TcpProxy!ReadFromClient(c) \/ TcpProxy!ReadFromRemote(c)
               \/ TcpProxy!ClientGone(c) \/ TcpProxy!RemoteGone(c)
        PROVE  UNCHANGED <<running, connected, told, listening>>
    BY <2>6 DEF TcpProxy!NewConnection, TcpProxy!ClientSends, TcpProxy!RemoteConnected,
       TcpProxy!RemoteRefused, TcpProxy!ReadFromClient, TcpProxy!ReadFromRemote,
       TcpProxy!ClientGone, TcpProxy!RemoteGone, TcpProxy!CatchUp, TcpProxy!Carry, TcpProxy!DataReported
  <2> QED BY <1>1, <1>4, <2>1, <2>2, <2>3, <2>4, <2>5, <2>6 DEF TcpProxyStep, TcpProxy!Next, TcpProxy!Step
<1> QED
  BY <1>1, <1>2, <1>3, <1>4 DEF Next, TcpClientStep, SslClientStep, UdpGenericStep, UdpProxyStep,
     EchoStep, SerialStep, ChainStep

(* The TCP client: its connection is up exactly while it is shown so, but    *)
(* for the time its loss is on display in an error box.                      *)
ClientRuns ==
  subject = "tcp_client" =>
    /\ Known /\ link \in {"none", "up"} /\ box \in BOOLEAN
    /\ connected => link = "up" \/ box
    /\ link = "up" => connected
    /\ inbox # 0 => link = "up"
    /\ stray = FALSE

LEMMA ClientRunsInit == Init => ClientRuns
BY DEF Init, TcpClient!Init, TcpClient!SocketInit, ClientRuns, Known

LEMMA ClientRunsNext == ClientRuns /\ [Next]_vars => ClientRuns'
<1> SUFFICES ASSUME ClientRuns, [Next]_vars, subject' = "tcp_client" PROVE ClientRuns'
  BY DEF ClientRuns
<1>1. subject = "tcp_client"
  BY DEF Next, vars
<1> USE <1>1 DEF ClientRuns, Known, TcpClient!socketVars, TcpClient!deviceVars
<1>2. CASE UNCHANGED vars
  BY <1>2 DEF vars, clientVars
<1>3. CASE TcpClientStep
  <2>1. CASE TcpClient!Start
    BY <2>1 DEF TcpClient!Start, TcpClient!Started
  <2>2. CASE TcpClient!Configure \/ TcpClient!Encrypted \/ TcpClient!Arrive \/ TcpClient!SendData \/ TcpClient!Written
    BY <2>2 DEF TcpClient!Configure, TcpClient!Encrypted, TcpClient!Arrive, TcpClient!SendData, TcpClient!Written
  <2>3. CASE TcpClient!Connect
    <3>1. connected = FALSE /\ running /\ ~box
      BY <2>3 DEF TcpClient!Connect, TcpClient!ConnectClicked
    <3>2. CASE TcpClient!Connected(FALSE) /\ UNCHANGED TcpClient!deviceVars
      BY <3>1, <3>2 DEF TcpClient!Connected
    <3>3. CASE link' \in TcpClient!Waited /\ TcpClient!Connected(TcpClient!Succeeds(link')) /\ inbox' = inbox /\ box' = box /\ ~box
      BY <3>1, <3>3 DEF TcpClient!Connected, TcpClient!Succeeds, TcpClient!Waited, TcpClient!AfterWait, TcpClient!AfterSslWait
    <3> QED BY <2>3, <3>2, <3>3 DEF TcpClient!Connect
  <2>4. CASE TcpClient!Disconnect
    BY <2>4 DEF TcpClient!Disconnect, TcpClient!Disconnected, TcpClient!Close, TcpClient!DisconnectClicked
  <2>5. CASE TcpClient!Stop
    <3>1. running' = FALSE /\ connected' = FALSE /\ told' = FALSE /\ stray' = stray /\ box' = box /\ ~box
      BY <2>5 DEF TcpClient!Stop, TcpClient!Stopped
    <3>2. IF connected THEN link' = "none" /\ inbox' = 0 ELSE UNCHANGED <<link, inbox>>
      BY <2>5 DEF TcpClient!Stop, TcpClient!Close
    <3> QED BY <3>1, <3>2
  <2>6. CASE TcpClient!Lose
    BY <2>6 DEF TcpClient!Lose, TcpClient!ReportLoss, TcpClient!Disconnected
  <2>8. CASE TcpClient!ErrorOccurs
    <3>1. box' = TRUE /\ link' \in {link, "none"} /\ inbox = 0
          /\ UNCHANGED <<running, connected, told, stray, inbox>>
      BY <2>8 DEF TcpClient!ErrorOccurs
    <3> QED BY <3>1
  <2>9. CASE TcpClient!ErrorShown
    <3>1. box' = FALSE /\ link' = link /\ inbox' = inbox
      BY <2>9 DEF TcpClient!ErrorShown
    <3>2. CASE link = "none"
      <4>1. connected' = FALSE /\ told' = FALSE /\ running' = running /\ stray' = stray
        BY <2>9, <3>2 DEF TcpClient!ErrorShown, TcpClient!ReportLoss, TcpClient!Disconnected
      <4> QED BY <3>1, <3>2, <4>1
    <3>3. CASE link # "none"
      <4>1. UNCHANGED <<connected, told, running, stray>>
        BY <2>9, <3>3 DEF TcpClient!ErrorShown
      <4> QED BY <3>1, <3>3, <4>1
    <3> QED BY <3>2, <3>3
  <2>7. CASE TcpClient!ReadFromSocket
    <3>1. inbox # 0 /\ inbox' = 0 /\ link' = link /\ box' = box
      BY <2>7 DEF TcpClient!ReadFromSocket
    <3>2. UNCHANGED <<running, connected, told>> /\ stray' = (stray \/ (running /\ ~told))
      BY <2>7 DEF TcpClient!ReadFromSocket, TcpClient!DataReported
    <3> QED BY <3>1, <3>2
  <2> QED BY <1>3, <2>1, <2>2, <2>3, <2>4, <2>5, <2>6, <2>7, <2>8, <2>9 DEF TcpClientStep, TcpClient!Next
<1> QED
  BY <1>2, <1>3 DEF Next, TcpServerStep, TcpProxyStep, SslClientStep, UdpGenericStep,
     UdpProxyStep, EchoStep, SerialStep, ChainStep

(* The SSL client: it is shown as connected only while its connection is up  *)
(* or its loss is on display.                                                *)
SslClientRuns ==
  subject = "ssl_client" =>
    Known /\ box \in BOOLEAN /\ (connected => link = "up" \/ (box /\ link = "none"))

LEMMA SslClientRunsInit == Init => SslClientRuns
BY DEF Init, SslClient!Init, SslClient!SocketInit, SslClientRuns, Known

LEMMA SslClientRunsNext == SslClientRuns /\ [Next]_vars => SslClientRuns'
<1> SUFFICES ASSUME SslClientRuns, [Next]_vars, subject' = "ssl_client" PROVE SslClientRuns'
  BY DEF SslClientRuns
<1>1. subject = "ssl_client"
  BY DEF Next, vars
<1> USE <1>1 DEF SslClientRuns, Known, SslClient!socketVars, SslClient!deviceVars
<1>2. CASE UNCHANGED vars
  BY <1>2 DEF vars, clientVars
<1>3. CASE SslClientStep
  <2>1. CASE SslClient!Start
    BY <2>1 DEF SslClient!Start, SslClient!Started
  <2>2. CASE SslClient!Configure \/ SslClient!Encrypted \/ SslClient!Arrive \/ SslClient!SendData \/ SslClient!Written
    BY <2>2 DEF SslClient!Configure, SslClient!Encrypted, SslClient!Arrive, SslClient!SendData, SslClient!Written
  <2>3. CASE SslClient!Connect
    <3>1. connected = FALSE /\ running /\ ~box
      BY <2>3 DEF SslClient!Connect, SslClient!ConnectClicked
    <3>2. CASE SslClient!Connected(FALSE) /\ UNCHANGED SslClient!deviceVars
      BY <3>1, <3>2 DEF SslClient!Connected
    <3>3. CASE link' \in SslClient!Waited /\ SslClient!Connected(SslClient!Succeeds(link')) /\ inbox' = inbox /\ box' = box /\ ~box
      BY <3>1, <3>3 DEF SslClient!Connected, SslClient!Succeeds, SslClient!Waited, SslClient!AfterWait, SslClient!AfterSslWait
    <3> QED BY <2>3, <3>2, <3>3 DEF SslClient!Connect
  <2>4. CASE SslClient!Disconnect
    BY <2>4 DEF SslClient!Disconnect, SslClient!Disconnected, SslClient!Close, SslClient!DisconnectClicked
  <2>5. CASE SslClient!Stop
    <3>1. running' = FALSE /\ connected' = FALSE /\ told' = FALSE /\ stray' = stray /\ box' = box /\ ~box
      BY <2>5 DEF SslClient!Stop, SslClient!Stopped
    <3>2. IF connected THEN link' = "none" /\ inbox' = 0 ELSE UNCHANGED <<link, inbox>>
      BY <2>5 DEF SslClient!Stop, SslClient!Close
    <3> QED BY <3>1, <3>2
  <2>6. CASE SslClient!Lose
    BY <2>6 DEF SslClient!Lose, SslClient!ReportLoss, SslClient!Disconnected
  <2>8. CASE SslClient!ErrorOccurs
    <3>1. box' = TRUE /\ link' \in {link, "none"} /\ inbox = 0
          /\ UNCHANGED <<running, connected, told, stray, inbox>>
      BY <2>8 DEF SslClient!ErrorOccurs
    <3> QED BY <3>1
  <2>9. CASE SslClient!ErrorShown
    <3>1. box' = FALSE /\ link' = link /\ inbox' = inbox
      BY <2>9 DEF SslClient!ErrorShown
    <3>2. CASE link = "none"
      <4>1. connected' = FALSE /\ told' = FALSE /\ running' = running /\ stray' = stray
        BY <2>9, <3>2 DEF SslClient!ErrorShown, SslClient!ReportLoss, SslClient!Disconnected
      <4> QED BY <3>1, <3>2, <4>1
    <3>3. CASE link # "none"
      <4>1. UNCHANGED <<connected, told, running, stray>>
        BY <2>9, <3>3 DEF SslClient!ErrorShown
      <4> QED BY <3>1, <3>3, <4>1
    <3> QED BY <3>2, <3>3
  <2>7. CASE SslClient!ReadFromSocket
    <3>1. inbox # 0 /\ inbox' = 0 /\ link' = link /\ box' = box
      BY <2>7 DEF SslClient!ReadFromSocket
    <3>2. UNCHANGED <<running, connected, told>> /\ stray' = (stray \/ (running /\ ~told))
      BY <2>7 DEF SslClient!ReadFromSocket, SslClient!DataReported
    <3> QED BY <3>1, <3>2
  <2> QED BY <1>3, <2>1, <2>2, <2>3, <2>4, <2>5, <2>6, <2>7, <2>8, <2>9 DEF SslClientStep, SslClient!Next
<1> QED
  BY <1>2, <1>3 DEF Next, TcpServerStep, TcpProxyStep, TcpClientStep, UdpGenericStep,
     UdpProxyStep, EchoStep, SerialStep, ChainStep

(* The serial port: it is open exactly while it is shown so, and has data    *)
(* only then.                                                                *)
SerialRuns ==
  subject = "serial" =>
    /\ Known /\ open \in BOOLEAN /\ (connected <=> open) /\ (inbox # 0 => open)
    /\ stray = FALSE

LEMMA SerialRunsInit == Init => SerialRuns
BY DEF Init, Serial!Init, Serial!SocketInit, SerialRuns, Known

LEMMA SerialRunsNext == SerialRuns /\ [Next]_vars => SerialRuns'
<1> SUFFICES ASSUME SerialRuns, [Next]_vars, subject' = "serial" PROVE SerialRuns'
  BY DEF SerialRuns
<1>1. subject = "serial"
  BY DEF Next, vars
<1> USE <1>1 DEF SerialRuns, Known, Serial!socketVars
<1>2. CASE UNCHANGED vars
  BY <1>2 DEF vars
<1>3. CASE SerialStep
  <2>1. CASE Serial!Start
    BY <2>1 DEF Serial!Start, Serial!Started
  <2>2. CASE Serial!Configure \/ Serial!Arrive
    BY <2>2 DEF Serial!Configure, Serial!Arrive
  <2>3. CASE Serial!Connect
    <3>1. PICK there \in BOOLEAN :
            Serial!Connected(there /\ ~open) /\ open' = (open \/ (there /\ ~open))
      BY <2>3 DEF Serial!Connect
    <3>2. open = FALSE /\ inbox' = inbox /\ running
      BY <2>3 DEF Serial!Connect, Serial!ConnectClicked
    <3>3. open' = there /\ connected' = there /\ told' = there /\ UNCHANGED <<running, stray>>
      BY <3>1, <3>2 DEF Serial!Connected
    <3> QED BY <3>2, <3>3
  <2>4. CASE Serial!Disconnect
    BY <2>4 DEF Serial!Disconnect, Serial!Disconnected, Serial!Close, Serial!DisconnectClicked
  <2>5. CASE Serial!Stop
    <3>1. running' = FALSE /\ connected' = FALSE /\ told' = FALSE /\ stray' = stray
      BY <2>5 DEF Serial!Stop, Serial!Stopped
    <3>2. open' = FALSE /\ inbox' = 0
      BY <2>5 DEF Serial!Stop, Serial!Close
    <3> QED BY <3>1, <3>2
  <2>6. CASE Serial!PerformRead
    <3>1. inbox # 0
      BY <2>6 DEF Serial!PerformRead
    <3> QED BY <2>6, <3>1 DEF Serial!PerformRead, Serial!DataReported
  <2>7. CASE Serial!ErrorOccurred
    <3>1. CASE open'
      BY <2>7, <3>1 DEF Serial!ErrorOccurred
    <3>2. CASE ~open'
      BY <2>7, <3>2 DEF Serial!ErrorOccurred, Serial!ReportLoss, Serial!Disconnected
    <3> QED BY <3>1, <3>2
  <2> QED BY <1>3, <2>1, <2>2, <2>3, <2>4, <2>5, <2>6, <2>7 DEF SerialStep, Serial!Next
<1> QED
  BY <1>2, <1>3 DEF Next, TcpServerStep, TcpProxyStep, TcpClientStep, SslClientStep, UdpGenericStep,
     UdpProxyStep, EchoStep, ChainStep

-----------------------------------------------------------------------------
(* The clients of the TCP server.                                            *)
LEMMA Removed ==
  ASSUME NEW S, NEW s \in Seq(S), NEW i \in 1..Len(s)
  PROVE  /\ TcpServer!RemoveAt(s, i) \in Seq(S) /\ Len(TcpServer!RemoveAt(s, i)) = Len(s) - 1
         /\ \A k \in 1..(Len(s) - 1) : TcpServer!RemoveAt(s, i)[k] = IF k < i THEN s[k] ELSE s[k + 1]
<1> DEFINE n == Len(s)
           t == TcpServer!RemoveAt(s, i)
           a == SubSeq(s, 1, i - 1)
           b == SubSeq(s, i + 1, n)
<1>1. n \in Nat /\ i \in 1..n /\ \A k \in 1..n : s[k] \in S
  BY LenProperties
<1>2. a \in Seq(S) /\ Len(a) = i - 1 /\ \A k \in 1..(i - 1) : a[k] = s[k]
  <2> DEFINE m == i - 1
  <2>1. m \in 0..n
    BY <1>1
  <2> HIDE DEF m
  <2>2. SubSeq(s, 1, m) \in Seq(S) /\ Len(SubSeq(s, 1, m)) = m /\ \A k \in 1..m : SubSeq(s, 1, m)[k] = s[k]
    BY <1>1, <2>1
  <2> QED BY <2>2 DEF m
<1>3. b \in Seq(S) /\ Len(b) = n - i /\ \A k \in 1..(n - i) : b[k] = s[i + k]
  <2> DEFINE m == i + 1
  <2>1. m \in 1..(n + 1)
    BY <1>1
  <2> HIDE DEF m, n
  <2>2. /\ SubSeq(s, m, n) \in Seq(S) /\ Len(SubSeq(s, m, n)) = n + 1 - m
        /\ \A k \in 1..(n + 1 - m) : SubSeq(s, m, n)[k] = s[m + k - 1]
    BY <1>1, <2>1 DEF n
  <2> QED BY <1>1, <2>2 DEF m
<1>4. t = a \o b
  BY DEF TcpServer!RemoveAt
<1> HIDE DEF a, b, n, t
<1>5. /\ t \in Seq(S) /\ Len(t) = Len(a) + Len(b)
      /\ \A k \in 1..(Len(a) + Len(b)) : t[k] = IF k <= Len(a) THEN a[k] ELSE b[k - Len(a)]
  BY <1>2, <1>3, <1>4, ConcatProperties
<1>6. ASSUME NEW k \in 1..(n - 1) PROVE t[k] = IF k < i THEN s[k] ELSE s[k + 1]
  <2>1. CASE k < i
    BY <1>1, <1>2, <1>3, <1>5, <2>1
  <2>2. CASE ~(k < i)
    <3>1. t[k] = b[k - (i - 1)] /\ k - (i - 1) \in 1..(n - i)
      BY <1>1, <1>2, <1>3, <1>5, <2>2
    <3>2. i + (k - (i - 1)) = k + 1
      BY <1>1
    <3> QED BY <1>3, <2>2, <3>1, <3>2
  <2> QED BY <2>1, <2>2
<1>7. t \in Seq(S) /\ Len(t) = n - 1
  BY <1>1, <1>2, <1>3, <1>5
<1> QED BY <1>6, <1>7 DEF n, t

(* What a client got is what was sent since it was accepted.                 *)
Stream(c) ==
  /\ got[c].since <= sent /\ Len(got[c].data) = sent - got[c].since
  /\ \A k \in 1..Len(got[c].data) : got[c].data[k] = got[c].since + k

Accepted ==
  /\ linked \subseteq Clients /\ sockets \in Seq(Clients)
  /\ \A k \in 1..Len(sockets) : sockets[k] \in linked
  /\ \A c \in linked : \E k \in 1..Len(sockets) : sockets[k] = c
  /\ \A j, k \in 1..Len(sockets) : sockets[j] = sockets[k] => j = k

Streams ==
  /\ inboxes \in [Clients -> 0..MaxData] /\ sent \in 0..MaxData
  /\ got \in [Clients -> [since: 0..MaxData, data: Seq(1..MaxData)]]
  /\ \A c \in linked : Stream(c)

ServerStreams == subject = "tcp_server" => stray \in BOOLEAN /\ Accepted /\ Streams

LEMMA ServerStreamsInit == Init => ServerStreams
<1> SUFFICES ASSUME Init PROVE stray \in BOOLEAN /\ Accepted /\ Streams
  BY DEF ServerStreams
<1>1. /\ stray = FALSE /\ linked = {} /\ sockets = <<>> /\ Len(sockets) = 0 /\ sent = 0
      /\ inboxes = [c \in Clients |-> 0] /\ got = [c \in Clients |-> [since |-> 0, data |-> <<>>]]
  BY DEF Init, TcpServer!Init, TcpServer!SocketInit
<1>2. 0 \in 0..MaxData /\ <<>> \in Seq(1..MaxData)
  BY TransportAssumption
<1>3. [since |-> 0, data |-> <<>>] \in [since: 0..MaxData, data: Seq(1..MaxData)]
  BY <1>2
<1>4. Accepted
  BY <1>1 DEF Accepted
<1> QED BY <1>1, <1>2, <1>3, <1>4 DEF Streams

(* A connection that ends is taken out of the list, the others stay.         *)
LEMMA ErasedOne ==
  ASSUME Accepted, NEW c \in linked, linked' = linked \ {c}, sockets' = TcpServer!Erased(c)
  PROVE  Accepted'
<1> DEFINE i == CHOOSE k \in DOMAIN sockets : sockets[k] = c
           n == Len(sockets)
<1>1. /\ n \in Nat /\ DOMAIN sockets = 1..n /\ \A k \in 1..n : sockets[k] \in linked
      /\ \A d \in linked : \E k \in 1..n : sockets[k] = d
      /\ \A j, k \in 1..n : sockets[j] = sockets[k] => j = k
  BY LenProperties DEF Accepted
<1>2. i \in 1..n /\ sockets[i] = c
  BY <1>1
<1>3. sockets' = TcpServer!RemoveAt(sockets, i)
  BY DEF TcpServer!Erased
<1> HIDE DEF i
<1>4. /\ sockets' \in Seq(Clients) /\ Len(sockets') = n - 1
      /\ \A k \in 1..(n - 1) : sockets'[k] = IF k < i THEN sockets[k] ELSE sockets[k + 1]
  <2>1. sockets \in Seq(Clients) /\ i \in 1..Len(sockets)
    BY <1>2 DEF Accepted
  <2>2. /\ TcpServer!RemoveAt(sockets, i) \in Seq(Clients)
        /\ Len(TcpServer!RemoveAt(sockets, i)) = Len(sockets) - 1
        /\ \A k \in 1..(Len(sockets) - 1) :
             TcpServer!RemoveAt(sockets, i)[k] = IF k < i THEN sockets[k] ELSE sockets[k + 1]
    BY <2>1, Removed
  <2> QED BY <1>3, <2>2
<1> HIDE DEF n
<1>5. ASSUME NEW k \in 1..(n - 1) PROVE sockets'[k] \in linked'
  <2>1. CASE k < i
    BY <1>1, <1>2, <1>4, <2>1
  <2>2. CASE ~(k < i)
    BY <1>1, <1>2, <1>4, <2>2
  <2> QED BY <2>1, <2>2
<1>6. ASSUME NEW d \in linked' PROVE \E k \in 1..(n - 1) : sockets'[k] = d
  <2>1. PICK k \in 1..n : sockets[k] = d
    BY <1>1
  <2>2. k # i
    BY <1>2, <2>1
  <2>3. CASE k < i
    BY <1>1, <1>2, <1>4, <2>1, <2>3
  <2>4. CASE k > i
    <3>1. k - 1 \in 1..(n - 1) /\ ~(k - 1 < i) /\ (k - 1) + 1 = k
      BY <1>1, <1>2, <2>4
    <3> QED BY <1>4, <2>1, <3>1
  <2> QED BY <1>1, <1>2, <2>2, <2>3, <2>4
<1>7. ASSUME NEW j \in 1..(n - 1), NEW k \in 1..(n - 1), sockets'[j] = sockets'[k] PROVE j = k
  <2> DEFINE Old(x) == IF x < i THEN x ELSE x + 1
  <2>1. ASSUME NEW x \in 1..(n - 1) PROVE Old(x) \in 1..n /\ sockets'[x] = sockets[Old(x)]
    BY <1>1, <1>2, <1>4
  <2>2. Old(j) = Old(k)
    <3> HIDE DEF Old
    <3> QED BY <1>1, <1>7, <2>1
  <2> QED BY <1>1, <1>2, <2>2
<1>8. linked' \subseteq Clients
  BY DEF Accepted
<1> QED BY <1>4, <1>5, <1>6, <1>7, <1>8 DEF Accepted

(* A new connection goes to the end of the list.                             *)
LEMMA AcceptedOne ==
  ASSUME Accepted, NEW c \in Clients, c \notin linked, linked' = linked \cup {c}, sockets' = Append(sockets, c)
  PROVE  Accepted'
<1> DEFINE n == Len(sockets)
<1>1. /\ n \in Nat /\ \A k \in 1..n : sockets[k] \in linked
      /\ \A d \in linked : \E k \in 1..n : sockets[k] = d
      /\ \A j, k \in 1..n : sockets[j] = sockets[k] => j = k
  BY LenProperties DEF Accepted
<1>2. /\ sockets' \in Seq(Clients) /\ Len(sockets') = n + 1 /\ sockets'[n + 1] = c
      /\ \A k \in 1..n : sockets'[k] = sockets[k]
  BY AppendProperties DEF Accepted
<1> HIDE DEF n
<1>3. \A k \in 1..(n + 1) : sockets'[k] \in linked'
  BY <1>1, <1>2
<1>4. \A d \in linked' : \E k \in 1..(n + 1) : sockets'[k] = d
  BY <1>1, <1>2
<1>5. \A j, k \in 1..(n + 1) : sockets'[j] = sockets'[k] => j = k
  BY <1>1, <1>2
<1>6. linked' \subseteq Clients
  BY DEF Accepted
<1> QED BY <1>2, <1>3, <1>4, <1>5, <1>6 DEF Accepted

LEMMA SentOne ==
  ASSUME Accepted, Streams, TcpServer!SendData
  PROVE  Streams'
<1>1. /\ sent' = sent + 1 /\ sent < MaxData /\ linked' = linked /\ inboxes' = inboxes
      /\ got' = [c \in Clients |->
                   IF c \in TcpServer!ToSet(sockets) THEN [got[c] EXCEPT !.data = Append(@, sent')] ELSE got[c]]
  BY DEF TcpServer!SendData
<1>2. sent' \in 1..MaxData /\ sent \in Nat
  BY <1>1, TransportAssumption DEF Streams
<1>3. ASSUME NEW c \in Clients
      PROVE  /\ Append(got[c].data, sent') \in Seq(1..MaxData)
             /\ Len(Append(got[c].data, sent')) = Len(got[c].data) + 1 /\ Len(got[c].data) \in Nat
             /\ Append(got[c].data, sent')[Len(got[c].data) + 1] = sent'
             /\ \A k \in 1..Len(got[c].data) : Append(got[c].data, sent')[k] = got[c].data[k]
  <2>1. got[c].data \in Seq(1..MaxData)
    BY DEF Streams
  <2> QED BY <1>2, <2>1, AppendProperties, LenProperties
<1>4. ASSUME NEW c \in Clients
      PROVE  /\ got'[c] \in [since: 0..MaxData, data: Seq(1..MaxData)] /\ got'[c].since = got[c].since
             /\ c \in TcpServer!ToSet(sockets) => got'[c].data = Append(got[c].data, sent')
  <2>1. got[c] \in [since: 0..MaxData, data: Seq(1..MaxData)]
    BY DEF Streams
  <2> QED BY <1>1, <1>3, <2>1
<1>5. got' \in [Clients -> [since: 0..MaxData, data: Seq(1..MaxData)]]
  BY <1>1, <1>4
<1>6. ASSUME NEW c \in linked PROVE Stream(c)'
  <2>1. c \in Clients /\ c \in TcpServer!ToSet(sockets)
    <3>1. c \in Clients /\ \E k \in DOMAIN sockets : sockets[k] = c
      BY LenProperties DEF Accepted
    <3> QED BY <3>1 DEF TcpServer!ToSet
  <2>2. /\ got[c].since \in Nat /\ got[c].since <= sent /\ Len(got[c].data) = sent - got[c].since
        /\ \A k \in 1..Len(got[c].data) : got[c].data[k] = got[c].since + k
    BY <2>1, TransportAssumption DEF Streams, Stream
  <2> DEFINE d == got[c].data
             e == got'[c].data
             m == got[c].since
             n == Len(d)
  <2>3. /\ Len(e) = n + 1 /\ n \in Nat /\ e[n + 1] = sent + 1 /\ got'[c].since = m
        /\ \A k \in 1..n : e[k] = d[k]
    BY <1>1, <1>3, <1>4, <2>1
  <2>4. m \in Nat /\ m <= sent /\ n = sent - m /\ \A k \in 1..n : d[k] = m + k
    BY <2>2
  <2> HIDE DEF d, e, m, n
  <2>5. \A k \in 1..(n + 1) : e[k] = m + k
    BY <1>2, <2>3, <2>4
  <2>6. m <= sent + 1 /\ n + 1 = (sent + 1) - m
    BY <1>2, <2>4
  <2> QED BY <1>1, <2>3, <2>5, <2>6 DEF Stream, d, e, m, n
<1>7. inboxes' \in [Clients -> 0..MaxData] /\ sent' \in 0..MaxData
  BY <1>1, <1>2 DEF Streams
<1>8. \A c \in linked' : Stream(c)'
  BY <1>1, <1>6
<1> QED BY <1>5, <1>7, <1>8 DEF Streams

LEMMA ServerStreamsNext == ServerStreams /\ [Next]_vars => ServerStreams'
<1> SUFFICES ASSUME ServerStreams, [Next]_vars, subject' = "tcp_server"
             PROVE  stray' \in BOOLEAN /\ Accepted' /\ Streams'
  BY DEF ServerStreams
<1>1. subject = "tcp_server"
  BY DEF Next, vars
<1>2. stray \in BOOLEAN /\ Accepted /\ Streams
  BY <1>1 DEF ServerStreams
<1>3. ASSUME UNCHANGED <<linked, sockets, inboxes, sent, got>>, stray' \in BOOLEAN
      PROVE  stray' \in BOOLEAN /\ Accepted' /\ Streams'
  BY <1>2, <1>3 DEF Accepted, Streams, Stream
<1>4. CASE UNCHANGED vars
  BY <1>2, <1>3, <1>4 DEF vars, tcpVars
<1> USE DEF TcpServer!socketVars
<1>5. CASE TcpServer!Start \/ TcpServer!Connect \/ TcpServer!Disconnect \/ TcpServer!Stop \/ TcpServer!AcceptError
  <2>1. UNCHANGED <<linked, sockets, inboxes, sent, got, stray>>
    BY <1>5 DEF TcpServer!Start, TcpServer!Started, TcpServer!Connect, TcpServer!Connected, TcpServer!Disconnect,
       TcpServer!Disconnected, TcpServer!Stop, TcpServer!Stopped, TcpServer!AcceptError
  <2> QED BY <1>2, <1>3, <2>1
<1>6. CASE TcpServer!SendData
  <2>1. UNCHANGED <<stray, linked, sockets>>
    BY <1>6 DEF TcpServer!SendData
  <2> QED BY <1>2, <1>6, <2>1, SentOne DEF Accepted
<1>7. ASSUME NEW c \in Clients, TcpServer!NewConnection(c)
      PROVE  stray' \in BOOLEAN /\ Accepted' /\ Streams'
  <2>1. /\ c \notin linked /\ linked' = linked \cup {c} /\ sockets' = Append(sockets, c)
        /\ inboxes' = [inboxes EXCEPT ![c] = 0]
        /\ got' = [got EXCEPT ![c] = [since |-> sent, data |-> <<>>]] /\ UNCHANGED <<stray, sent>>
    BY <1>7 DEF TcpServer!NewConnection
  <2>2. inboxes' \in [Clients -> 0..MaxData]
    BY <1>2, <2>1, TransportAssumption DEF Streams
  <2>3. [since |-> sent, data |-> <<>>] \in [since: 0..MaxData, data: Seq(1..MaxData)]
    BY <1>2 DEF Streams
  <2>4. got' \in [Clients -> [since: 0..MaxData, data: Seq(1..MaxData)]]
    BY <1>2, <2>1, <2>3 DEF Streams
  <2>5. ASSUME NEW d \in linked' PROVE Stream(d)'
    <3>1. CASE d = c
      <4>1. got'[c].since = sent /\ got'[c].data = <<>> /\ Len(got'[c].data) = 0 /\ sent \in Nat
        BY <1>2, <2>1, TransportAssumption DEF Streams
      <4> QED BY <2>1, <3>1, <4>1 DEF Stream
    <3>2. CASE d # c
      <4>1. got'[d] = got[d] /\ Stream(d)
        BY <1>2, <2>1, <3>2 DEF Streams, Accepted
      <4> QED BY <2>1, <4>1 DEF Stream
    <3> QED BY <3>1, <3>2
  <2> QED BY <1>2, <2>1, <2>2, <2>4, <2>5, AcceptedOne DEF Streams
<1>8. ASSUME NEW c \in Clients, TcpServer!ConnectionTerminated(c)
      PROVE  stray' \in BOOLEAN /\ Accepted' /\ Streams'
  <2>1. /\ c \in linked /\ linked' = linked \ {c} /\ sockets' = TcpServer!Erased(c)
        /\ inboxes' = [inboxes EXCEPT ![c] = 0] /\ UNCHANGED <<stray, sent, got>>
    BY <1>8 DEF TcpServer!ConnectionTerminated
  <2>2. inboxes' \in [Clients -> 0..MaxData]
    BY <1>2, <2>1, TransportAssumption DEF Streams
  <2> QED BY <1>2, <2>1, <2>2, ErasedOne DEF Streams, Stream
<1>9. ASSUME NEW c \in Clients, TcpServer!Arrive(c) \/ TcpServer!ReadFromSocket(c)
      PROVE  stray' \in BOOLEAN /\ Accepted' /\ Streams'
  <2>1. /\ inboxes' \in [Clients -> 0..MaxData] /\ UNCHANGED <<linked, sockets, sent, got>>
    <3>1. CASE TcpServer!Arrive(c)
      <4>1. inboxes[c] \in 0..MaxData /\ inboxes[c] < MaxData /\ inboxes' = [inboxes EXCEPT ![c] = inboxes[c] + 1]
        BY <1>2, <3>1 DEF Streams, TcpServer!Arrive
      <4>2. inboxes[c] + 1 \in 0..MaxData
        BY <4>1, TransportAssumption
      <4> QED BY <1>2, <3>1, <4>1, <4>2 DEF Streams, TcpServer!Arrive
    <3>2. CASE TcpServer!ReadFromSocket(c)
      BY <1>2, <3>2, TransportAssumption DEF Streams, TcpServer!ReadFromSocket
    <3> QED BY <1>9, <3>1, <3>2
  <2>2. stray' \in BOOLEAN
    BY <1>2, <1>9 DEF TcpServer!Arrive, TcpServer!ReadFromSocket, TcpServer!DataReported
  <2> QED BY <1>2, <2>1, <2>2 DEF Accepted, Streams, Stream
<1>10. TcpServerStep \/ UNCHANGED vars
  BY <1>1 DEF Next, UdpGenericStep, TcpProxyStep, TcpClientStep, SslClientStep, UdpProxyStep, EchoStep, SerialStep,
     ChainStep
<1> QED BY <1>4, <1>5, <1>6, <1>7, <1>8, <1>9, <1>10 DEF TcpServerStep, TcpServer!Next

LEMMA AcceptedTypes == Accepted => sockets \in Seq(linked)
<1> SUFFICES ASSUME Accepted PROVE sockets \in Seq(linked)
  OBVIOUS
<1> DEFINE n == Len(sockets)
<1>1. n \in Nat /\ sockets = [k \in 1..n |-> sockets[k]] /\ \A k \in 1..n : sockets[k] \in linked
  BY DEF Accepted
<1> HIDE DEF n
<1>2. [k \in 1..n |-> sockets[k]] \in Seq(linked)
  BY <1>1
<1> QED BY <1>1, <1>2

LEMMA StreamsGiven == Accepted /\ Streams => TcpServer!ClientsGetTheStream
<1> SUFFICES ASSUME Accepted, Streams, NEW c \in linked
             PROVE  /\ c \in TcpServer!ToSet(sockets)
                    /\ got[c].data = [k \in 1..(sent - got[c].since) |-> got[c].since + k]
  BY DEF TcpServer!ClientsGetTheStream
<1>1. c \in Clients /\ \E k \in DOMAIN sockets : sockets[k] = c
  BY LenProperties DEF Accepted
<1>2. c \in TcpServer!ToSet(sockets)
  BY <1>1 DEF TcpServer!ToSet
<1> DEFINE d == got[c].data
           m == got[c].since
           n == sent - m
<1>3. d \in Seq(1..MaxData) /\ Len(d) = n /\ \A k \in 1..n : d[k] = m + k
  BY <1>1 DEF Streams, Stream
<1> HIDE DEF d, m, n
<1>4. d = [k \in 1..n |-> d[k]]
  BY <1>3
<1>5. d = [k \in 1..n |-> m + k]
  BY <1>3, <1>4
<1> QED BY <1>2, <1>5 DEF d, m, n

-----------------------------------------------------------------------------
(* The pairs of the TCP proxy.                                               *)
Ends == {"client", "tool"}
OfClient(s) == {k \in DOMAIN s : s[k] = "client"}
Forwarded(s) == TcpProxy!Cardinality(OfClient(s))

LEMMA SameCardinality == ASSUME NEW S PROVE TcpProxy!Cardinality(S) = Cardinality(S)
BY Zenon DEF TcpProxy!Cardinality, Cardinality

LEMMA OfClientFinite ==
  ASSUME NEW s \in Seq(Ends)
  PROVE  IsFiniteSet(OfClient(s)) /\ Forwarded(s) = Cardinality(OfClient(s)) /\ Forwarded(s) \in Nat
<1>1. Len(s) \in Nat /\ DOMAIN s = 1..Len(s)
  BY LenProperties
<1>2. IsFiniteSet(1..Len(s))
  BY <1>1, FS_Interval
<1>3. OfClient(s) \in SUBSET (1..Len(s))
  BY <1>1 DEF OfClient
<1>4. IsFiniteSet(OfClient(s))
  BY <1>2, <1>3, FS_Subset
<1> QED BY <1>4, FS_CardinalityType, SameCardinality DEF Forwarded

LEMMA NothingForwarded == Forwarded(<<>>) = 0
<1>1. OfClient(<<>>) = {}
  BY DEF OfClient
<1> QED BY <1>1, FS_EmptySet, SameCardinality DEF Forwarded

(* What the tool sends is not the client's.                                  *)
LEMMA ToolSends ==
  ASSUME NEW s \in Seq(Ends)
  PROVE  Append(s, "tool") \in Seq(Ends) /\ Forwarded(Append(s, "tool")) = Forwarded(s)
<1> DEFINE n == Len(s)
           t == Append(s, "tool")
<1>1. /\ n \in Nat /\ DOMAIN s = 1..n /\ t \in Seq(Ends) /\ DOMAIN t = 1..(n + 1) /\ t[n + 1] = "tool"
      /\ \A k \in 1..n : t[k] = s[k]
  <2>1. "tool" \in Ends
    BY DEF Ends
  <2> QED BY <2>1, AppendProperties, LenProperties
<1> HIDE DEF n, t
<1>2. OfClient(t) = OfClient(s)
  BY <1>1 DEF OfClient
<1> QED BY <1>1, <1>2 DEF Forwarded, t

(* What is read of a client is added to what it has sent.                    *)
LEMMA Forwards ==
  ASSUME NEW s \in Seq(Ends), NEW m \in Nat, NEW t, t = s \o [k \in 1..m |-> "client"]
  PROVE  t \in Seq(Ends) /\ Forwarded(t) = Forwarded(s) + m
<1> DEFINE n == Len(s)
           e == [k \in 1..m |-> "client"]
<1>1. n \in Nat /\ DOMAIN s = 1..n
  BY LenProperties
<1>2. e \in Seq(Ends) /\ Len(e) = m /\ \A k \in 1..m : e[k] = "client"
  BY DEF Ends
<1> HIDE DEF e
<1>3. /\ t \in Seq(Ends) /\ Len(t) = n + m
      /\ \A k \in 1..(n + m) : t[k] = IF k <= n THEN s[k] ELSE e[k - n]
  BY <1>2, ConcatProperties DEF e
<1>4. DOMAIN t = 1..(n + m)
  BY <1>3, LenProperties
<1> HIDE DEF n
<1>5. OfClient(t) = OfClient(s) \cup ((n + 1)..(n + m))
  <2>1. ASSUME NEW k \in 1..(n + m) PROVE t[k] = "client" <=> k \in OfClient(s) \/ k \in (n + 1)..(n + m)
    <3>1. CASE k <= n
      BY <1>1, <1>3, <3>1 DEF OfClient
    <3>2. CASE ~(k <= n)
      <4>1. k - n \in 1..m /\ k \in (n + 1)..(n + m)
        BY <1>1, <3>2
      <4> QED BY <1>2, <1>3, <3>2, <4>1
    <3> QED BY <3>1, <3>2
  <2>2. OfClient(s) \subseteq 1..(n + m) /\ (n + 1)..(n + m) \subseteq 1..(n + m)
    BY <1>1 DEF OfClient
  <2> QED BY <1>4, <2>1, <2>2 DEF OfClient
<1>6. OfClient(s) \cap ((n + 1)..(n + m)) = {}
  BY <1>1 DEF OfClient
<1>7. IsFiniteSet((n + 1)..(n + m)) /\ Cardinality((n + 1)..(n + m)) = m
  <2> DEFINE a == n + 1
             b == n + m
  <2>2. a \in Int /\ b \in Int /\ (IF a > b THEN 0 ELSE b - a + 1) = m
    BY <1>1
  <2> HIDE DEF a, b
  <2>3. /\ IsFiniteSet(a..b)
        /\ Cardinality(a..b) = IF a > b THEN 0 ELSE b - a + 1
    BY <2>2, FS_Interval
  <2>4. IsFiniteSet(a..b) /\ Cardinality(a..b) = m
    BY <2>2, <2>3
  <2> QED BY <2>4 DEF a, b
<1>8. IsFiniteSet(OfClient(s)) /\ Forwarded(s) = Cardinality(OfClient(s)) /\ Forwarded(s) \in Nat
  BY OfClientFinite
<1>9. Cardinality(OfClient(t)) = Forwarded(s) + m - Cardinality({})
  <2> DEFINE A == OfClient(s)
             B == (n + 1)..(n + m)
  <2>1. IsFiniteSet(A) /\ IsFiniteSet(B) /\ A \cap B = {} /\ Cardinality(A) = Forwarded(s) /\ Cardinality(B) = m
    BY <1>6, <1>7, <1>8
  <2>2. OfClient(t) = A \cup B
    BY <1>5
  <2> HIDE DEF A, B
  <2>3. Cardinality(A \cup B) = Cardinality(A) + Cardinality(B) - Cardinality(A \cap B)
    BY <2>1, FS_Union
  <2> QED BY <2>1, <2>2, <2>3
<1>10. Cardinality({}) = 0
  BY FS_EmptySet
<1>11. Forwarded(t) = Cardinality(OfClient(t))
  BY SameCardinality DEF Forwarded
<1> QED BY <1>3, <1>8, <1>9, <1>10, <1>11

ProxyTypes ==
  /\ stray \in BOOLEAN /\ asserted \in BOOLEAN
  /\ pair \in [Clients -> {"none", "connecting", "up", "refused"}]
  /\ inboxes \in [Clients -> 0..1] /\ arrivals \in [Clients -> 0..1] /\ ready \subseteq Clients
  /\ carriage \in [Clients -> Seq(Ends)]

(* Of every pair, what came from the client was forwarded or is not read yet;*)
(* only of an established one a signal waits, and one that has something to  *)
(* be read has a signal.                                                     *)
Counts(c) ==
  /\ pair[c] # "none" => Forwarded(carriage[c]) + inboxes[c] = arrivals[c]
  /\ c \in ready => pair[c] = "up"
  /\ pair[c] = "up" /\ inboxes[c] > 0 => c \in ready

ProxyPairs == subject = "tcp_proxy" => ProxyTypes /\ \A c \in Clients : Counts(c)

LEMMA ProxyPairsInit == Init => ProxyPairs
<1> SUFFICES ASSUME Init PROVE ProxyTypes /\ \A c \in Clients : Counts(c)
  BY DEF ProxyPairs
<1>1. /\ stray = FALSE /\ asserted = FALSE /\ pair = [c \in Clients |-> "none"] /\ ready = {}
      /\ inboxes = [c \in Clients |-> 0] /\ arrivals = inboxes /\ carriage = [c \in Clients |-> <<>>]
  BY DEF Init, TcpProxy!Init, TcpProxy!SocketInit
<1>2. <<>> \in Seq(Ends)
  OBVIOUS
<1>3. stray \in BOOLEAN /\ asserted \in BOOLEAN
  BY <1>1
<1>4. /\ pair \in [Clients -> {"none", "connecting", "up", "refused"}] /\ ready \subseteq Clients
      /\ inboxes \in [Clients -> 0..1] /\ arrivals \in [Clients -> 0..1]
      /\ carriage \in [Clients -> Seq(Ends)]
  BY <1>1, <1>2
<1>5. \A c \in Clients : Counts(c)
  BY <1>1 DEF Counts
<1> QED BY <1>3, <1>4, <1>5 DEF ProxyTypes

(* What was read of a client has been forwarded.                             *)
LEMMA Carrying ==
  ASSUME ProxyTypes, NEW c \in Clients, TcpProxy!Carry(c)
  PROVE  /\ stray' \in BOOLEAN /\ inboxes' = [inboxes EXCEPT ![c] = 0] /\ inboxes' \in [Clients -> 0..1]
         /\ carriage' \in [Clients -> Seq(Ends)]
         /\ Forwarded(carriage'[c]) = Forwarded(carriage[c]) + inboxes[c]
         /\ Forwarded(carriage[c]) \in Nat
         /\ \A d \in Clients : d # c => carriage'[d] = carriage[d]
<1>1. /\ carriage' = [carriage EXCEPT ![c] = carriage[c] \o [k \in 1..inboxes[c] |-> "client"]]
      /\ inboxes' = [inboxes EXCEPT ![c] = 0]
  BY DEF TcpProxy!Carry
<1>2. stray' \in BOOLEAN
  BY DEF TcpProxy!Carry, TcpProxy!DataReported, TcpProxy!socketVars, ProxyTypes
<1>3. inboxes[c] \in Nat /\ carriage[c] \in Seq(Ends) /\ carriage \in [Clients -> Seq(Ends)]
  BY DEF ProxyTypes
<1> DEFINE t == carriage[c] \o [k \in 1..inboxes[c] |-> "client"]
<1>4. t \in Seq(Ends) /\ Forwarded(t) = Forwarded(carriage[c]) + inboxes[c]
  BY <1>3, Forwards
<1>5. carriage' = [carriage EXCEPT ![c] = t]
  BY <1>1
<1> HIDE DEF t
<1>6. /\ carriage' \in [Clients -> Seq(Ends)] /\ carriage'[c] = t
      /\ \A d \in Clients : d # c => carriage'[d] = carriage[d]
  BY <1>3, <1>4, <1>5
<1>7. inboxes' \in [Clients -> 0..1]
  BY <1>1 DEF ProxyTypes
<1> QED BY <1>1, <1>2, <1>3, <1>4, <1>6, <1>7, OfClientFinite

LEMMA ProxyPairsNext == ProxyPairs /\ [Next]_vars => ProxyPairs'
<1> SUFFICES ASSUME ProxyPairs, [Next]_vars, subject' = "tcp_proxy"
             PROVE  ProxyTypes' /\ \A c \in Clients : Counts(c)'
  BY DEF ProxyPairs
<1>1. subject = "tcp_proxy"
  BY DEF Next, vars
<1>2. ProxyTypes /\ \A c \in Clients : Counts(c)
  BY <1>1 DEF ProxyPairs
<1>3. ASSUME UNCHANGED <<pair, inboxes, arrivals, ready, carriage>>, stray' \in BOOLEAN, asserted' \in BOOLEAN
      PROVE  ProxyTypes' /\ \A c \in Clients : Counts(c)'
  BY <1>2, <1>3 DEF ProxyTypes, Counts
<1>4. CASE UNCHANGED vars
  BY <1>2, <1>3, <1>4 DEF vars, tcpVars, ProxyTypes
<1> USE DEF TcpProxy!socketVars, TcpProxy!carryVars
<1>5. CASE TcpProxy!Start \/ TcpProxy!Connect \/ TcpProxy!Disconnect \/ TcpProxy!Stop \/ TcpProxy!AcceptError
  <2>1. UNCHANGED <<pair, inboxes, arrivals, ready, carriage, stray>> /\ asserted' \in BOOLEAN
    BY <1>2, <1>5 DEF TcpProxy!Start, TcpProxy!Started, TcpProxy!Connect, TcpProxy!Connected, TcpProxy!Disconnect,
       TcpProxy!Disconnected, TcpProxy!Stop, TcpProxy!Stopped, TcpProxy!AcceptError, ProxyTypes
  <2> QED BY <1>2, <1>3, <2>1 DEF ProxyTypes
<1>6. CASE TcpProxy!SendData
  <2>1. /\ carriage' = [c \in Clients |-> IF TcpProxy!Written(c) THEN Append(carriage[c], "tool") ELSE carriage[c]]
        /\ UNCHANGED <<stray, asserted, pair, inboxes, ready, arrivals>>
    BY <1>6 DEF TcpProxy!SendData
  <2>2. ASSUME NEW c \in Clients
        PROVE  carriage'[c] \in Seq(Ends) /\ Forwarded(carriage'[c]) = Forwarded(carriage[c])
    <3>1. carriage[c] \in Seq(Ends)
      BY <1>2 DEF ProxyTypes
    <3> QED BY <2>1, <3>1, ToolSends
  <2>3. carriage' \in [Clients -> Seq(Ends)]
    BY <2>1, <2>2
  <2> QED BY <1>2, <2>1, <2>2, <2>3 DEF ProxyTypes, Counts
<1>7. ASSUME NEW c \in Clients, TcpProxy!NewConnection(c)
      PROVE  ProxyTypes' /\ \A d \in Clients : Counts(d)'
  <2>1. /\ pair[c] = "none" /\ pair' = [pair EXCEPT ![c] = "connecting"]
        /\ inboxes' = [inboxes EXCEPT ![c] = 0] /\ arrivals' = [arrivals EXCEPT ![c] = 0]
        /\ carriage' = [carriage EXCEPT ![c] = <<>>] /\ UNCHANGED <<stray, asserted, ready>>
    BY <1>7 DEF TcpProxy!NewConnection
  <2>2. <<>> \in Seq(Ends)
    OBVIOUS
  <2>3. ProxyTypes'
    BY <1>2, <2>1, <2>2 DEF ProxyTypes
  <2>4. ASSUME NEW d \in Clients PROVE Counts(d)'
    <3>1. CASE d = c
      <4>1. /\ pair'[d] = "connecting" /\ inboxes'[d] = 0 /\ arrivals'[d] = 0 /\ carriage'[d] = <<>>
            /\ d \notin ready'
        BY <1>2, <2>1, <3>1 DEF ProxyTypes, Counts
      <4> QED BY <4>1, NothingForwarded DEF Counts
    <3>2. CASE d # c
      BY <1>2, <2>1, <3>2 DEF ProxyTypes, Counts
    <3> QED BY <3>1, <3>2
  <2> QED BY <2>3, <2>4
<1>8. ASSUME NEW c \in Clients, TcpProxy!ClientSends(c)
      PROVE  ProxyTypes' /\ \A d \in Clients : Counts(d)'
  <2>1. /\ pair[c] # "none" /\ arrivals[c] < 1
        /\ inboxes' = [inboxes EXCEPT ![c] = inboxes[c] + 1] /\ arrivals' = [arrivals EXCEPT ![c] = arrivals[c] + 1]
        /\ ready' = IF pair[c] = "up" THEN ready \cup {c} ELSE ready
        /\ UNCHANGED <<stray, asserted, pair, carriage>>
    BY <1>8 DEF TcpProxy!ClientSends
  <2>2. Forwarded(carriage[c]) \in Nat
    BY <1>2, OfClientFinite DEF ProxyTypes
  <2>3. inboxes[c] \in Nat /\ arrivals[c] \in Nat /\ Forwarded(carriage[c]) + inboxes[c] = arrivals[c]
    <3>1. inboxes[c] \in Nat /\ arrivals[c] \in Nat
      BY <1>2 DEF ProxyTypes
    <3>2. Forwarded(carriage[c]) + inboxes[c] = arrivals[c]
      BY <1>2, <2>1 DEF Counts
    <3> QED BY <3>1, <3>2
  <2>4. inboxes[c] + 1 \in 0..1 /\ arrivals[c] + 1 \in 0..1
    BY <2>1, <2>2, <2>3
  <2>5. ProxyTypes'
    BY <1>2, <2>1, <2>4 DEF ProxyTypes
  <2>6. ASSUME NEW d \in Clients PROVE Counts(d)'
    <3>1. CASE d = c
      <4>1. inboxes'[d] = inboxes[c] + 1 /\ arrivals'[d] = arrivals[c] + 1 /\ carriage'[d] = carriage[c] /\ pair'[d] = pair[c]
        BY <1>2, <2>1, <3>1 DEF ProxyTypes
      <4>2. Forwarded(carriage[c]) + (inboxes[c] + 1) = arrivals[c] + 1
        BY <2>2, <2>3
      <4> QED BY <1>2, <2>1, <3>1, <4>1, <4>2 DEF Counts
    <3>2. CASE d # c
      <4>1. inboxes'[d] = inboxes[d] /\ arrivals'[d] = arrivals[d] /\ (d \in ready' <=> d \in ready)
        BY <1>2, <2>1, <3>2 DEF ProxyTypes
      <4> QED BY <1>2, <2>1, <4>1 DEF Counts
    <3> QED BY <3>1, <3>2
  <2> QED BY <2>5, <2>6
<1>9. ASSUME NEW c \in Clients, TcpProxy!RemoteConnected(c) \/ TcpProxy!ReadFromClient(c)
      PROVE  ProxyTypes' /\ \A d \in Clients : Counts(d)'
  <2>1. /\ pair[c] # "none" /\ pair' \in [Clients -> {"none", "connecting", "up", "refused"}] /\ pair'[c] = "up"
        /\ \A d \in Clients : d # c => pair'[d] = pair[d]
        /\ ready' \subseteq Clients /\ \A d \in Clients : d # c => (d \in ready' <=> d \in ready)
        /\ TcpProxy!Carry(c) /\ UNCHANGED <<arrivals, asserted>>
    <3>1. CASE TcpProxy!RemoteConnected(c)
      BY <1>2, <3>1 DEF TcpProxy!RemoteConnected, TcpProxy!CatchUp, ProxyTypes
    <3>2. CASE TcpProxy!ReadFromClient(c)
      BY <1>2, <3>2 DEF TcpProxy!ReadFromClient, ProxyTypes, Counts
    <3> QED BY <1>9, <3>1, <3>2
  <2>2. /\ stray' \in BOOLEAN /\ inboxes' = [inboxes EXCEPT ![c] = 0] /\ inboxes' \in [Clients -> 0..1]
        /\ carriage' \in [Clients -> Seq(Ends)]
        /\ Forwarded(carriage'[c]) = Forwarded(carriage[c]) + inboxes[c]
        /\ Forwarded(carriage[c]) \in Nat
        /\ \A d \in Clients : d # c => carriage'[d] = carriage[d]
    BY <1>2, <2>1, Carrying
  <2>3. ProxyTypes'
    BY <1>2, <2>1, <2>2 DEF ProxyTypes
  <2>4. ASSUME NEW d \in Clients PROVE Counts(d)'
    <3>1. CASE d = c
      <4>1. inboxes'[c] = 0 /\ inboxes[c] \in Nat
        BY <1>2, <2>2 DEF ProxyTypes
      <4>2. Forwarded(carriage[c]) + inboxes[c] = arrivals[c]
        BY <1>2, <2>1 DEF Counts
      <4>3. Forwarded(carriage'[c]) + 0 = arrivals'[c]
        BY <2>1, <2>2, <4>1, <4>2
      <4> QED BY <2>1, <3>1, <4>1, <4>3 DEF Counts
    <3>2. CASE d # c
      <4>1. inboxes'[d] = inboxes[d]
        BY <1>2, <2>2, <3>2 DEF ProxyTypes
      <4> QED BY <1>2, <2>1, <2>2, <3>2, <4>1 DEF Counts
    <3> QED BY <3>1, <3>2
  <2> QED BY <2>3, <2>4
<1>10. ASSUME NEW c \in Clients, TcpProxy!RemoteRefused(c)
       PROVE  ProxyTypes' /\ \A d \in Clients : Counts(d)'
  BY <1>2, <1>10 DEF TcpProxy!RemoteRefused, ProxyTypes, Counts
<1>11. ASSUME NEW c \in Clients, TcpProxy!ReadFromRemote(c)
       PROVE  ProxyTypes' /\ \A d \in Clients : Counts(d)'
  BY <1>2, <1>3, <1>11 DEF TcpProxy!ReadFromRemote, TcpProxy!DataReported, ProxyTypes
<1>12. ASSUME NEW c \in Clients, TcpProxy!ClientGone(c) \/ TcpProxy!RemoteGone(c)
       PROVE  ProxyTypes' /\ \A d \in Clients : Counts(d)'
  <2>1. /\ pair' = [pair EXCEPT ![c] = "none"] /\ inboxes' = [inboxes EXCEPT ![c] = 0]
        /\ c \notin ready' /\ ready' \subseteq ready /\ \A d \in Clients : d # c => (d \in ready' <=> d \in ready)
        /\ UNCHANGED <<stray, arrivals, carriage, asserted>>
    BY <1>12 DEF TcpProxy!ClientGone, TcpProxy!RemoteGone
  <2>2. ProxyTypes'
    BY <1>2, <2>1 DEF ProxyTypes
  <2>3. ASSUME NEW d \in Clients PROVE Counts(d)'
    <3>1. CASE d = c
      BY <1>2, <2>1, <3>1 DEF ProxyTypes, Counts
    <3>2. CASE d # c
      BY <1>2, <2>1, <3>2 DEF ProxyTypes, Counts
    <3> QED BY <3>1, <3>2
  <2> QED BY <2>2, <2>3
<1>13. TcpProxyStep \/ UNCHANGED vars
  BY <1>1 DEF Next, TcpServerStep, UdpGenericStep, TcpClientStep, SslClientStep, UdpProxyStep, EchoStep, SerialStep,
     ChainStep
<1> QED
  BY <1>4, <1>5, <1>6, <1>7, <1>8, <1>9, <1>10, <1>11, <1>12, <1>13 DEF TcpProxyStep, TcpProxy!Next, TcpProxy!Step

LEMMA PairsForward == ProxyTypes /\ (\A c \in Clients : Counts(c)) => TcpProxy!ForwardsEverything
BY DEF ProxyTypes, Counts, Forwarded, OfClient, TcpProxy!ForwardsEverything

-----------------------------------------------------------------------------
(* The TCP and the SSL client.                                               *)
ClientTypes ==
  /\ running \in BOOLEAN /\ connected \in BOOLEAN /\ told \in BOOLEAN /\ stray \in BOOLEAN
  /\ settings \in [host: BOOLEAN, port: BOOLEAN] /\ box \in BOOLEAN
  /\ inbox \in 0..MaxData /\ sent \in 0..MaxData /\ arrived \in 0..MaxData

ClientsTyped ==
  /\ subject = "tcp_client" => ClientTypes /\ link \in {"none", "up"}
  /\ subject = "ssl_client" => ClientTypes /\ link \in {"none", "shake", "up"}

LEMMA ClientsTypedInit == Init => ClientsTyped
<1> SUFFICES ASSUME Init PROVE ClientsTyped
  OBVIOUS
<1>1. /\ running = FALSE /\ connected = FALSE /\ told = FALSE /\ stray = FALSE
      /\ link = "none" /\ box = FALSE /\ inbox = 0 /\ sent = 0 /\ arrived = 0
      /\ settings \in [host: BOOLEAN, port: BOOLEAN]
  BY DEF Init, TcpClient!Init, TcpClient!SocketInit
<1>2. running \in BOOLEAN /\ connected \in BOOLEAN /\ told \in BOOLEAN /\ stray \in BOOLEAN
  BY <1>1
<1>3. inbox \in 0..MaxData /\ sent \in 0..MaxData /\ arrived \in 0..MaxData
  BY <1>1, TransportAssumption
<1> QED BY <1>1, <1>2, <1>3 DEF ClientsTyped, ClientTypes

LEMMA ClientsTypedNext == ClientsTyped /\ [Next]_vars => ClientsTyped'
<1> SUFFICES ASSUME ClientsTyped, [Next]_vars PROVE ClientsTyped'
  OBVIOUS
<1>1. subject' = subject /\ MaxData \in Nat
  BY TransportAssumption DEF Next, vars
<1>2. CASE UNCHANGED vars
  BY <1>2 DEF vars, clientVars, ClientsTyped, ClientTypes
<1>3. CASE TcpClientStep
  <2>1. subject = "tcp_client" /\ ClientTypes /\ link \in {"none", "up"}
    BY <1>3 DEF TcpClientStep, ClientsTyped
  <2> USE DEF TcpClient!socketVars, TcpClient!deviceVars
  <2>2. CASE TcpClient!Start
    BY <1>1, <2>1, <2>2 DEF TcpClient!Start, TcpClient!Started, ClientsTyped, ClientTypes
  <2>3. CASE TcpClient!Configure
    BY <1>1, <2>1, <2>3 DEF TcpClient!Configure, ClientsTyped, ClientTypes
  <2>4. CASE TcpClient!Connect
    <3>1. running' = running /\ stray' = stray /\ connected' \in BOOLEAN /\ told' \in BOOLEAN
      BY <2>4 DEF TcpClient!Connect, TcpClient!Connected, TcpClient!Succeeds
    <3>2. settings' \in [host: BOOLEAN, port: BOOLEAN]
      BY <2>1, <2>4 DEF TcpClient!Connect, ClientTypes
    <3>3. link' \in {"none", "up"} /\ inbox' = inbox /\ box' = box /\ sent' \in 0..MaxData /\ arrived' \in 0..MaxData
      <4>1. link' \in {"none", "up"} /\ inbox' = inbox /\ box' = box
        BY <2>1, <2>4 DEF TcpClient!Connect, TcpClient!Waited, TcpClient!AfterWait
      <4>2. (sent' = sent /\ arrived' = arrived) \/ (sent' = 0 /\ arrived' = 0)
        BY <2>4 DEF TcpClient!Connect
      <4> QED BY <1>1, <2>1, <4>1, <4>2 DEF ClientTypes
    <3> QED BY <1>1, <2>1, <3>1, <3>2, <3>3 DEF ClientsTyped, ClientTypes
  <2>5. CASE TcpClient!Encrypted
    BY <2>1, <2>5 DEF TcpClient!Encrypted
  <2>6. CASE TcpClient!Disconnect
    <3>1. running' = running /\ connected' = FALSE /\ told' = FALSE /\ stray' = stray /\ UNCHANGED <<settings, box, sent>>
      BY <2>6 DEF TcpClient!Disconnect, TcpClient!Disconnected
    <3>2. link' \in {"none", "up"} /\ inbox' \in 0..MaxData /\ arrived' \in 0..MaxData
      BY <1>1, <2>1, <2>6 DEF TcpClient!Disconnect, TcpClient!Close, ClientTypes
    <3> QED BY <1>1, <2>1, <3>1, <3>2 DEF ClientsTyped, ClientTypes
  <2>7. CASE TcpClient!Stop
    <3>1. running' = FALSE /\ connected' = FALSE /\ told' \in BOOLEAN /\ stray' = stray /\ UNCHANGED <<settings, box, sent>>
      BY <2>1, <2>7 DEF TcpClient!Stop, TcpClient!Stopped, ClientTypes
    <3>2. link' \in {"none", "up"} /\ inbox' \in 0..MaxData /\ arrived' \in 0..MaxData
      BY <1>1, <2>1, <2>7 DEF TcpClient!Stop, TcpClient!Close, ClientTypes
    <3> QED BY <1>1, <2>1, <3>1, <3>2 DEF ClientsTyped, ClientTypes
  <2>8. CASE TcpClient!Lose
    BY <1>1, <2>1, <2>8 DEF TcpClient!Lose, TcpClient!ReportLoss, TcpClient!Disconnected, ClientsTyped, ClientTypes
  <2>11. CASE TcpClient!ErrorOccurs
    BY <1>1, <2>1, <2>11 DEF TcpClient!ErrorOccurs, ClientsTyped, ClientTypes
  <2>12. CASE TcpClient!ErrorShown
    BY <1>1, <2>1, <2>12 DEF TcpClient!ErrorShown, TcpClient!ReportLoss, TcpClient!Disconnected, ClientsTyped, ClientTypes
  <2>9. CASE TcpClient!Arrive \/ TcpClient!SendData \/ TcpClient!Written
    BY <1>1, <2>1, <2>9 DEF TcpClient!Arrive, TcpClient!SendData, TcpClient!Written, ClientsTyped, ClientTypes
  <2>10. CASE TcpClient!ReadFromSocket
    BY <1>1, <2>1, <2>10 DEF TcpClient!ReadFromSocket, TcpClient!DataReported, ClientsTyped, ClientTypes
  <2> QED BY <1>3, <2>2, <2>3, <2>4, <2>5, <2>6, <2>7, <2>8, <2>9, <2>10, <2>11, <2>12 DEF TcpClientStep, TcpClient!Next
<1>4. CASE SslClientStep
  <2>1. subject = "ssl_client" /\ ClientTypes /\ link \in {"none", "shake", "up"}
    BY <1>4 DEF SslClientStep, ClientsTyped
  <2> USE DEF SslClient!socketVars, SslClient!deviceVars
  <2>2. CASE SslClient!Start
    BY <1>1, <2>1, <2>2 DEF SslClient!Start, SslClient!Started, ClientsTyped, ClientTypes
  <2>3. CASE SslClient!Configure
    BY <1>1, <2>1, <2>3 DEF SslClient!Configure, ClientsTyped, ClientTypes
  <2>4. CASE SslClient!Connect
    <3>1. running' = running /\ stray' = stray /\ connected' \in BOOLEAN /\ told' \in BOOLEAN
      BY <2>4 DEF SslClient!Connect, SslClient!Connected, SslClient!Succeeds
    <3>2. settings' \in [host: BOOLEAN, port: BOOLEAN]
      BY <2>1, <2>4 DEF SslClient!Connect, ClientTypes
    <3>3. link' \in {"none", "shake", "up"} /\ inbox' = inbox /\ box' = box /\ sent' \in 0..MaxData /\ arrived' \in 0..MaxData
      <4>1. link' \in {"none", "shake", "up"} /\ inbox' = inbox /\ box' = box
        BY <2>1, <2>4 DEF SslClient!Connect, SslClient!Waited, SslClient!AfterSslWait
      <4>2. (sent' = sent /\ arrived' = arrived) \/ (sent' = 0 /\ arrived' = 0)
        BY <2>4 DEF SslClient!Connect
      <4> QED BY <1>1, <2>1, <4>1, <4>2 DEF ClientTypes
    <3> QED BY <1>1, <2>1, <3>1, <3>2, <3>3 DEF ClientsTyped, ClientTypes
  <2>5. CASE SslClient!Encrypted
    BY <1>1, <2>1, <2>5 DEF SslClient!Encrypted, ClientsTyped, ClientTypes
  <2>6. CASE SslClient!Disconnect
    <3>1. running' = running /\ connected' = FALSE /\ told' = FALSE /\ stray' = stray /\ UNCHANGED <<settings, box, sent>>
      BY <2>6 DEF SslClient!Disconnect, SslClient!Disconnected
    <3>2. link' \in {"none", "shake", "up"} /\ inbox' \in 0..MaxData /\ arrived' \in 0..MaxData
      BY <1>1, <2>1, <2>6 DEF SslClient!Disconnect, SslClient!Close, ClientTypes
    <3> QED BY <1>1, <2>1, <3>1, <3>2 DEF ClientsTyped, ClientTypes
  <2>7. CASE SslClient!Stop
    <3>1. running' = FALSE /\ connected' = FALSE /\ told' \in BOOLEAN /\ stray' = stray /\ UNCHANGED <<settings, box, sent>>
      BY <2>1, <2>7 DEF SslClient!Stop, SslClient!Stopped, ClientTypes
    <3>2. link' \in {"none", "shake", "up"} /\ inbox' \in 0..MaxData /\ arrived' \in 0..MaxData
      BY <1>1, <2>1, <2>7 DEF SslClient!Stop, SslClient!Close, ClientTypes
    <3> QED BY <1>1, <2>1, <3>1, <3>2 DEF ClientsTyped, ClientTypes
  <2>8. CASE SslClient!Lose
    BY <1>1, <2>1, <2>8 DEF SslClient!Lose, SslClient!ReportLoss, SslClient!Disconnected, ClientsTyped, ClientTypes
  <2>11. CASE SslClient!ErrorOccurs
    BY <1>1, <2>1, <2>11 DEF SslClient!ErrorOccurs, ClientsTyped, ClientTypes
  <2>12. CASE SslClient!ErrorShown
    BY <1>1, <2>1, <2>12 DEF SslClient!ErrorShown, SslClient!ReportLoss, SslClient!Disconnected, ClientsTyped, ClientTypes
  <2>9. CASE SslClient!Arrive \/ SslClient!SendData \/ SslClient!Written
    BY <1>1, <2>1, <2>9 DEF SslClient!Arrive, SslClient!SendData, SslClient!Written, ClientsTyped, ClientTypes
  <2>10. CASE SslClient!ReadFromSocket
    BY <1>1, <2>1, <2>10 DEF SslClient!ReadFromSocket, SslClient!DataReported, ClientsTyped, ClientTypes
  <2> QED BY <1>4, <2>2, <2>3, <2>4, <2>5, <2>6, <2>7, <2>8, <2>9, <2>10, <2>11, <2>12 DEF SslClientStep, SslClient!Next
<1>5. CASE subject \notin {"tcp_client", "ssl_client"}
  BY <1>1, <1>5 DEF ClientsTyped
<1> QED
  BY <1>2, <1>3, <1>4, <1>5 DEF Next, TcpServerStep, TcpProxyStep, UdpGenericStep, UdpProxyStep, EchoStep, SerialStep,
     ChainStep

-----------------------------------------------------------------------------
(* The echo returns every piece once and in order, and nothing waits for a   *)
(* timer that is not armed, however the rounds of sendDataPostponed() nest   *)
(* (EchoSocket.cpp).                                                         *)
THEOREM EchoReturns == Spec => []EchoesInOrder
<1>1. EchoRuns => EchoesInOrder
  BY DEF EchoRuns, EchoesInOrder, EchoIInv, Echo!EchoesInOrder, Echo!WaitingIsServed, Echo!Idle
<1> QED BY <1>1, EchoRunsInductive, PTL DEF Spec

(* The UDP proxy carries every datagram once, also the first, which comes    *)
(* before there is a socket to carry it (UdpProxySocket.cpp).                *)
THEOREM ProxyCarries == Spec => []CarriesEverything
<1>1. UdpProxyRuns => CarriesEverything
  BY DEF UdpProxyRuns, CarriesEverything, UdpProxyIInv, UdpProxy!CarriesEverything
<1> QED BY <1>1, UdpProxyRunsInductive, PTL DEF Spec

(* However many programs send, the UDP socket without a remote host keeps to *)
(* the one that spoke first (readFromSocket(), UdpGenericSocket.cpp).        *)
THEOREM FirstIsKept == Spec => []TalksToTheFirst
<1>1. UdpGenericRuns => TalksToTheFirst
  BY DEF UdpGenericRuns, UdpRuns, TalksToTheFirst, UdpGeneric!TalksToTheFirst, UdpGeneric!NoPeer
<1> QED BY <1>1, UdpGenericInit, UdpGenericNext, PTL DEF Spec

(* What reaches the socket has been through the filters below its sender,    *)
(* each once and from the top to the bottom, in whatever call or error box   *)
(* it was sent (sendMsgs(), filterDataToSendReport(), ToolsMsgMgrImpl.cpp).  *)
THEOREM ChainIsPassed == Spec => []PathIsChain
<1>1. ChainRuns /\ BoxedChainRuns => PathIsChain
  BY DEF ChainRuns, BoxedChainRuns, PathIsChain, Chain!PathIsChain, ChainP!IInv, BoxedP!IInv,
     ChainP!PathIsChain, BoxedP!PathIsChain
<1> QED BY <1>1, ChainRunsInductive, BoxedChainRunsInductive, PTL DEF Spec

(* Through losses, failing connects, error boxes, disconnects, stop and      *)
(* start a socket that is shown connected has its device; connecting finds   *)
(* none left over, and the disconnected are silent, except for the SSL       *)
(* client (socketConnectImpl(), socketErrorOccurred() and                    *)
(* socketDisconnected() of the sockets, ToolsSocket.cpp).                    *)
THEOREM StatusFollowsDevice == Spec => []StatusIsDevice
<1> DEFINE Runs == /\ ServerRuns /\ ClientRuns /\ SslClientRuns /\ SerialRuns
                   /\ UdpProxyRuns /\ UdpGenericRuns
<1>1. Init => Runs
  BY ServerInit, ClientRunsInit, SslClientRunsInit, SerialRunsInit, UdpProxyRunsInductive,
     UdpGenericInit
<1>2. Runs /\ [Next]_vars => Runs'
  BY ServerNext, ClientRunsNext, SslClientRunsNext, SerialRunsNext, UdpProxyRunsInductive,
     UdpGenericNext
<1>3. Runs => StatusIsDevice
  <2> SUFFICES ASSUME Runs PROVE StatusIsDevice
    OBVIOUS
  <2>1. subject = "tcp_server" => TcpServer!ConnectedIsListening
    BY DEF ServerRuns, Known, TcpServer!ConnectedIsListening
  <2>2. subject = "tcp_proxy" => TcpProxy!ConnectedIsListening
    BY DEF ServerRuns, Known, TcpProxy!ConnectedIsListening
  <2>3. subject \in {"tcp_client", "ssl_client"} => TcpClient!ConnectedIsLinked
    BY DEF ClientRuns, SslClientRuns, Known, TcpClient!ConnectedIsLinked
  <2>4. subject = "tcp_client" => TcpClient!ConnectFindsNone /\ TcpClient!NoDataAfterDisconnect
    BY DEF ClientRuns, Known, TcpClient!ConnectFindsNone, TcpClient!NoDataAfterDisconnect,
       TcpClient!ConnectClicked
  <2>5. subject = "serial" => Serial!StatusIsPort /\ Serial!NoDataAfterDisconnect
    BY DEF SerialRuns, Known, Serial!StatusIsPort, Serial!NoDataAfterDisconnect
  <2>6. subject = "udp_proxy" => UdpProxy!SocketsFollowStatus
    BY DEF UdpProxyRuns, UdpProxyIInv, UdpProxyAgreement, UdpProxy!SocketsFollowStatus, UdpProxy!Null
  <2>7. subject = "udp_generic" => UdpGeneric!DisconnectedIsDead
    BY DEF UdpGenericRuns, UdpRuns, Known, UdpGeneric!DisconnectedIsDead, UdpGeneric!ConnectClicked
  <2> QED BY <2>1, <2>2, <2>3, <2>4, <2>5, <2>6, <2>7 DEF StatusIsDevice
<1> HIDE DEF Runs
<1> QED BY <1>1, <1>2, <1>3, PTL DEF Spec

(* The time to live of a broadcast is the one its properties ask for, the    *)
(* closer key before the farther one, and is not that of the next message    *)
(* (sendDataImpl(), UdpGenericSocket.cpp).                                   *)
THEOREM TtlKept == Spec => []TtlAsAsked
<1>1. UdpGenericRuns => TtlAsAsked
  BY DEF UdpGenericRuns, TtlAsAsked
<1> QED BY <1>1, UdpGenericInit, UdpGenericNext, PTL DEF Spec

(* A client of the TCP server gets what is sent after it was accepted, every *)
(* piece once and in order, whoever comes and goes around it                 *)
(* (TcpServerSocket.cpp); the proxy forwards everything its clients send,    *)
(* also what they sent before the remote host was there                      *)
(* (connectionSocketConnected(), TcpProxySocket.cpp).                        *)
THEOREM StreamsKept == Spec => []StreamsArrive
<1>1. Init => ServerStreams /\ ProxyPairs
  BY ServerStreamsInit, ProxyPairsInit
<1>2. (ServerStreams /\ ProxyPairs) /\ [Next]_vars => (ServerStreams /\ ProxyPairs)'
  BY ServerStreamsNext, ProxyPairsNext
<1>3. ServerStreams /\ ProxyPairs => StreamsArrive
  BY StreamsGiven, PairsForward DEF ServerStreams, ProxyPairs, StreamsArrive
<1> QED BY <1>1, <1>2, <1>3, PTL DEF Spec

(* Without boxes the protocol gets the data in the order they came, and the  *)
(* filters, the protocol and the buttons have the status of the socket when  *)
(* nothing is being reported (ToolsMsgMgrImpl.cpp).                          *)
THEOREM ChainInAgreement == Spec => []ChainAgrees
<1>1. ChainP!FiltersAreCounted /\ ~FALSE
  BY DEF ChainP!FiltersAreCounted
<1>2. ChainRuns => ChainAgrees
  <2>1. ChainP!IInv /\ ChainP!Typed /\ ChainP!PlainInv => ChainP!DataInOrder /\ ChainP!StatusAgrees
    BY <1>1, ChainP!PlainAgrees
  <2>2. ChainP!DataInOrder /\ ChainP!StatusAgrees => Chain!DataInOrder /\ Chain!StatusAgrees
    BY Zenon DEF ChainP!DataInOrder, ChainP!StatusAgrees, Chain!DataInOrder, Chain!StatusAgrees, ChainP!Idle,
       Chain!Idle, ChainP!Listeners, Chain!Listeners, ChainP!Application, Chain!Application, ChainP!Protocol,
       Chain!Protocol, ChainP!Filters, Chain!Filters
  <2> QED BY <2>1, <2>2 DEF ChainRuns, ChainAgrees
<1> QED BY <1>2, ChainRunsInductive, PTL DEF Spec

(* Every part stays within its types: no count of a connection falls below   *)
(* zero or misses what it counts, no list names a client that has gone.      *)
THEOREM TypesKept == Spec => []TypeOK
<1> DEFINE Runs == /\ ServerRuns /\ ServerStreams /\ ProxyPairs /\ ClientsTyped
                   /\ UdpGenericRuns /\ UdpProxyRuns /\ EchoRuns /\ ChainRuns
<1>1. Init => Runs
  BY ServerInit, ServerStreamsInit, ProxyPairsInit, ClientsTypedInit, UdpGenericInit, UdpProxyRunsInductive,
     EchoRunsInductive, ChainRunsInductive
<1>2. Runs /\ [Next]_vars => Runs'
  BY ServerNext, ServerStreamsNext, ProxyPairsNext, ClientsTypedNext, UdpGenericNext, UdpProxyRunsInductive,
     EchoRunsInductive, ChainRunsInductive
<1>3. Runs => TypeOK
  <2> SUFFICES ASSUME Runs PROVE TypeOK
    OBVIOUS
  <2>1. subject = "tcp_server" => TcpServer!TypeOK
    BY AcceptedTypes DEF ServerRuns, ServerStreams, Known, Streams, Accepted, TcpServer!TypeOK, TcpServer!SocketTypeOK
  <2>2. subject = "tcp_client" => TcpClient!TypeOK
    BY DEF ClientsTyped, ClientTypes, TcpClient!TypeOK, TcpClient!SocketTypeOK
  <2>3. subject = "ssl_client" => SslClient!TypeOK
    BY DEF ClientsTyped, ClientTypes, SslClient!TypeOK, SslClient!SocketTypeOK
  <2>4. subject = "tcp_proxy" => TcpProxy!TypeOK
    BY DEF ServerRuns, Known, ProxyPairs, ProxyTypes, Ends, TcpProxy!TypeOK, TcpProxy!SocketTypeOK
  <2>5. subject = "udp_generic" => UdpGeneric!TypeOK
    BY DEF UdpGenericRuns, UdpRuns, Known, UdpTypes, UdpPeers, UdpGeneric!TypeOK, UdpGeneric!SocketTypeOK,
       UdpGeneric!NoPeer, UdpGeneric!Host, UdpGeneric!AllTtls, UdpGeneric!AssumedTtl
  <2>6. subject = "udp_proxy" => UdpProxy!TypeOK
    BY TransportAssumption, UdpProxyCountedTypes DEF UdpProxyRuns, UdpProxy!TypeOK, UdpProxy!SocketTypeOK, UdpProxy!Null, UdpProxy!ClientsAreNames
  <2>7. subject = "echo" => Echo!TypeOK
    BY DEF EchoRuns, EchoIInv, Echo!TypeOK, Echo!SocketTypeOK
  <2>8. subject = "chain" => Chain!TypeOK
    <3>1. ChainP!FiltersAreCounted /\ ChainP!Bounded
      BY TransportAssumption DEF ChainP!FiltersAreCounted, ChainP!Bounded
    <3>2. subject = "chain" => ChainP!TypeOK
      BY <3>1, ChainP!TypedTypes DEF ChainRuns
    <3> QED BY <3>2, Zenon DEF Chain!TypeOK, ChainP!TypeOK, ChainP!Listeners,
       Chain!Listeners, ChainP!Application, Chain!Application, ChainP!Filters, Chain!Filters
  <2> QED BY <2>1, <2>2, <2>3, <2>4, <2>5, <2>6, <2>7, <2>8 DEF TypeOK
<1> HIDE DEF Runs
<1> QED BY <1>1, <1>2, <1>3, PTL DEF Spec
=============================================================================
