-------------------------- MODULE FilterChain_proofs --------------------------
(***************************************************************************)
(* What TLAPS proves of the chain of filters, for any number of filters,     *)
(* with and without error boxes, however deep calls nest: what is written to *)
(* the socket has been through the filters below its sender.                 *)
(***************************************************************************)
EXTENDS FilterChain, SequenceTheorems, TLAPS

(* The socket, the filters, the protocol, the application, and behind it.    *)
Stations == 0..(N + 3)

Records ==
  [kind: {"recv", "send", "status"}, at: Stations, what: BOOLEAN \cup Nat, origin: Nat, path: Seq(Int),
   box: BOOLEAN, boxed: BOOLEAN, spoke: BOOLEAN, again: BOOLEAN]

(* The filters a piece has passed on its way from its sender to where it is. *)
Passed(origin, at) == [k \in 1..(origin - 1 - at) |-> origin - k]

(* Every piece on its way down, at whatever depth of the stack it waits.     *)
OnItsWay(c) ==
  c.kind = "send" => /\ c.origin \in 1..(N + 1) /\ c.at \in 0..(c.origin - 1)
                     /\ c.path = Passed(c.origin, c.at)

(* A report carries a status.                                                *)
CarriesStatus(c) == c.kind = "status" => c.what \in BOOLEAN

Good == {c \in Records : OnItsWay(c) /\ CarriesStatus(c)}

IInv ==
  /\ calls \in Seq(Good) /\ received \in Nat /\ sent \in Nat
  /\ wire.origin \in 1..(N + 1) /\ PathIsChain

-----------------------------------------------------------------------------
(* The stack below its top, and with another top.                            *)
LEMMA Replaced ==
  ASSUME calls \in Seq(Good), ~Idle
  PROVE  Top \in Good /\ Rest \in Seq(Good) /\ \A c \in Good : Append(Rest, c) \in Seq(Good)
<1> DEFINE n == Len(calls) - 1
<1>1. n \in Nat /\ Len(calls) \in 1..Len(calls)
  BY EmptySeq, LenProperties DEF Idle
<1>2. \A k \in 1..Len(calls) : calls[k] \in Good
  BY LenProperties
<1>3. \A k \in 1..n : calls[k] \in Good
  BY <1>1, <1>2
<1>4. Rest = SubSeq(calls, 1, n)
  BY DEF Rest
<1> HIDE DEF n
<1>5. SubSeq(calls, 1, n) \in Seq(Good)
  BY <1>1, <1>3
<1>6. \A c \in Good : Append(Rest, c) \in Seq(Good)
  BY <1>4, <1>5, AppendProperties
<1> QED BY <1>1, <1>2, <1>4, <1>5, <1>6 DEF Top

LEMMA Pushed ==
  ASSUME NEW s \in Seq(Good), NEW c \in Good
  PROVE  Append(s, c) \in Seq(Good)
BY AppendProperties

(* A call that carries nothing down is good wherever it stands.              *)
LEMMA NewCall ==
  ASSUME FiltersAreCounted, NEW kind \in {"recv", "send", "status"}, NEW at \in Stations, NEW origin \in Nat,
         NEW what \in BOOLEAN \cup Nat,
         kind = "send" => origin \in 1..(N + 1) /\ at = origin - 1,
         kind = "status" => what \in BOOLEAN
  PROVE  Call(kind, at, what, origin) \in Good
<1>1. Call(kind, at, what, origin) \in Records
  BY DEF Call, Records, FiltersAreCounted
<1>2. kind = "send" => <<>> = Passed(origin, at)
  BY DEF Passed
<1> QED BY <1>1, <1>2 DEF Call, Good, CarriesStatus, OnItsWay, FiltersAreCounted

(* What does not go down may change its place and its marks.                 *)
LEMMA Further ==
  ASSUME NEW c \in Good, c.kind # "send", NEW at \in Stations, NEW b \in BOOLEAN
  PROVE  [c EXCEPT !.at = at, !.boxed = b] \in Good /\ [c EXCEPT !.at = at, !.spoke = b] \in Good
<1>1. c \in Records
  BY DEF Good
<1>2. /\ [c EXCEPT !.at = at, !.boxed = b] \in Records
      /\ [c EXCEPT !.at = at, !.boxed = b].kind = c.kind /\ [c EXCEPT !.at = at, !.boxed = b].what = c.what
  BY <1>1 DEF Records
<1>3. /\ [c EXCEPT !.at = at, !.spoke = b] \in Records
      /\ [c EXCEPT !.at = at, !.spoke = b].kind = c.kind /\ [c EXCEPT !.at = at, !.spoke = b].what = c.what
  BY <1>1 DEF Records
<1> QED BY <1>2, <1>3 DEF Good, CarriesStatus, OnItsWay

LEMMA Lengthened ==
  ASSUME NEW n \in Nat, NEW f, NEW s \in Seq(Int), NEW x \in Int, Len(s) = n,
         \A k \in 1..n : s[k] = f - k, x = f - (n + 1)
  PROVE  Append(s, x) \in Seq(Int) /\ Append(s, x) = [k \in 1..(n + 1) |-> f - k]
<1>1. /\ Append(s, x) \in Seq(Int) /\ Len(Append(s, x)) = n + 1
      /\ \A k \in 1..n : Append(s, x)[k] = s[k]
      /\ Append(s, x)[n + 1] = x
  BY AppendProperties
<1>2. \A k \in 1..(n + 1) : Append(s, x)[k] = f - k
  BY <1>1
<1>3. Append(s, x) = [k \in 1..(n + 1) |-> Append(s, x)[k]]
  BY <1>1
<1> QED BY <1>1, <1>2, <1>3

(* A filter hands a piece down and joins the filters it has passed.          *)
LEMMA HandedDown ==
  ASSUME FiltersAreCounted, NEW c \in Good, c.kind = "send", c.at \in Filters
  PROVE  [c EXCEPT !.at = @ - 1, !.path = Append(@, c.at)] \in Good
<1>1. /\ c \in Records /\ c.origin \in 1..(N + 1) /\ c.at \in 1..(c.origin - 1)
      /\ c.path = Passed(c.origin, c.at) /\ c.path \in Seq(Int)
  BY DEF Good, CarriesStatus, OnItsWay, Filters, Records, FiltersAreCounted
<1>2. Append(c.path, c.at) \in Seq(Int) /\ Append(c.path, c.at) = Passed(c.origin, c.at - 1)
  <2> DEFINE n == c.origin - 1 - c.at
  <2>1. n \in Nat /\ c.at = c.origin - (n + 1) /\ c.origin - 1 - (c.at - 1) = n + 1 /\ c.at \in Int
    BY <1>1
  <2>2. Len(c.path) = n /\ \A k \in 1..n : c.path[k] = c.origin - k
    BY <1>1, <2>1 DEF Passed
  <2> HIDE DEF n
  <2>3. /\ Append(c.path, c.at) \in Seq(Int)
        /\ Append(c.path, c.at) = [k \in 1..(n + 1) |-> c.origin - k]
    BY <1>1, <2>1, <2>2, Lengthened
  <2> QED BY <2>1, <2>3 DEF Passed
<1> DEFINE a == c.at - 1
           p == Append(c.path, c.at)
           d == [c EXCEPT !.at = a, !.path = p]
<1>3. a \in Stations /\ p \in Seq(Int)
  BY <1>1, <1>2 DEF Stations, FiltersAreCounted
<1> HIDE DEF a, p
<1>4. d \in Records /\ d.kind = c.kind /\ d.origin = c.origin /\ d.at = a /\ d.path = p
  BY <1>1, <1>3 DEF d, Records
<1> HIDE DEF d
<1>5. d \in Good
  BY <1>1, <1>2, <1>4 DEF Good, CarriesStatus, OnItsWay, a, p
<1> QED BY <1>5 DEF d, a, p

-----------------------------------------------------------------------------
LEMMA InitIInv == FiltersAreCounted /\ Init => IInv
<1> SUFFICES ASSUME FiltersAreCounted, Init PROVE IInv
  OBVIOUS
<1>1. calls = <<>> /\ received = 0 /\ sent = 0 /\ wire = [origin |-> 1, path |-> <<>>]
  BY DEF Init
<1>2. <<>> \in Seq(Good) /\ <<>> = [k \in 1..0 |-> 1 - k]
  OBVIOUS
<1> QED BY <1>1, <1>2 DEF IInv, PathIsChain, FiltersAreCounted

(* All but what ToSocket does leaves the wire alone.                         *)
LEMMA Elsewhere ==
  ASSUME IInv, calls' \in Seq(Good), received' \in Nat, sent' \in Nat, UNCHANGED wire
  PROVE  IInv'
BY DEF IInv, PathIsChain

LEMMA NextIInv == FiltersAreCounted /\ IInv /\ [Next]_vars => IInv'
<1> SUFFICES ASSUME FiltersAreCounted, IInv, [Next]_vars PROVE IInv'
  OBVIOUS
<1>a. calls \in Seq(Good) /\ received \in Nat /\ sent \in Nat
  BY DEF IInv
<1>0. 1 \in Stations
  BY DEF Stations, FiltersAreCounted
<1>b. ASSUME NEW what \in BOOLEAN PROVE Call("status", 1, what, 0) \in Good
  BY <1>0, NewCall
<1>c. ASSUME NEW what \in BOOLEAN PROVE [Call("status", 1, what, 0) EXCEPT !.again = TRUE] \in Good
  BY <1>b DEF Good, CarriesStatus, OnItsWay, Records, Call
<1>d. ASSUME NEW what \in BOOLEAN PROVE Report(what) \in Seq(Good)
  BY <1>a, <1>b, Pushed DEF Report
<1>e. ASSUME ~Idle PROVE Top \in Good /\ Rest \in Seq(Good) /\ \A c \in Good : Append(Rest, c) \in Seq(Good)
  BY <1>a, <1>e, Replaced
<1>1. CASE Start
  BY <1>1, <1>a, Elsewhere DEF Start, history
<1>2. CASE Stop
  <2>1. <<[Call("status", 1, FALSE, 0) EXCEPT !.again = TRUE]>> \in Seq(Good)
    <3> DEFINE c == [Call("status", 1, FALSE, 0) EXCEPT !.again = TRUE]
    <3>1. c \in Good
      BY <1>c
    <3> HIDE DEF c
    <3>2. <<c>> \in Seq(Good)
      BY <3>1
    <3> QED BY <3>2 DEF c
  <2>2. <<>> \in Seq(Good)
    OBVIOUS
  <2> QED BY <1>2, <1>a, <2>1, <2>2, Elsewhere DEF Stop, history
<1>3. CASE Connect
  BY <1>3, <1>a, <1>d, Elsewhere DEF Connect, history
<1>4. CASE Disconnect
  BY <1>4, <1>a, <1>d, Elsewhere DEF Disconnect, history
<1>5. CASE Lost
  BY <1>5, <1>a, <1>d, Elsewhere DEF Lost, history
<1>6. CASE Tell
  <2>1. ~Idle /\ Top.kind = "status" /\ Top \in Good
    BY <1>6, <1>e DEF Tell, InCall
  <2>2. [Top EXCEPT !.at = NextListener(@), !.boxed = ~Dialogs] \in Good
    <3>1. NextListener(Top.at) \in Stations /\ (~Dialogs) \in BOOLEAN
      BY <1>6 DEF Tell, NextListener, Listeners, Application, Stations, FiltersAreCounted
    <3> QED BY <2>1, <3>1, Further
  <2> QED BY <1>6, <1>a, <1>e, <2>1, <2>2, Elsewhere DEF Tell, history
<1>7. CASE Told
  <2>1. ~Idle /\ Top.kind = "status" /\ Top \in Good
    BY <1>7, <1>e DEF Told, InCall
  <2>2. Call("status", 1, Top.what, 0) \in Good
    BY <1>0, <2>1, NewCall DEF Good, CarriesStatus, Records
  <2> QED BY <1>7, <1>a, <1>e, <2>1, <2>2, Elsewhere DEF Told, history
<1>8. CASE SocketData
  <2>1. received' = received + 1 /\ received' \in Nat
    BY <1>8, <1>a DEF SocketData
  <2>2. Call("recv", 1, received', 0) \in Good
    BY <1>0, <2>1, NewCall
  <2> QED BY <1>8, <1>a, <2>1, <2>2, Pushed, Elsewhere DEF SocketData
<1>9. CASE RecvPass
  <2>1. ~Idle /\ Top.kind = "recv" /\ Top \in Good
    BY <1>9, <1>e DEF RecvPass, InCall
  <2>2. [Top EXCEPT !.at = @ + 1, !.spoke = FALSE] \in Good
    <3>1. Top.at + 1 \in Stations
      BY <1>9 DEF RecvPass, Filters, Stations, FiltersAreCounted
    <3> QED BY <2>1, <3>1, Further
  <2> QED BY <1>9, <1>a, <1>e, <2>1, <2>2, Elsewhere DEF RecvPass, history
<1>10. CASE Consume
  BY <1>10, <1>a, <1>e, Elsewhere DEF Consume, history
<1>11. CASE ToProtocol
  BY <1>11, <1>a, <1>e, Elsewhere DEF ToProtocol, InCall
<1>12. CASE ProtocolSends
  <2>1. sent' = sent + 1 /\ sent' \in Nat
    BY <1>12, <1>a DEF ProtocolSends
  <2>2. Call("send", N, sent', Protocol) \in Good
    BY <2>1, NewCall DEF Protocol, Stations, FiltersAreCounted
  <2> QED BY <1>12, <1>a, <2>1, <2>2, Pushed, Elsewhere DEF ProtocolSends
<1>13. CASE SendPass
  <2>1. ~Idle /\ Top.kind = "send" /\ Top \in Good /\ Top.at \in Filters
    BY <1>13, <1>e DEF SendPass, InCall
  <2>2. [Top EXCEPT !.at = @ - 1, !.path = Append(@, Top.at)] \in Good
    BY <2>1, HandedDown
  <2> QED BY <1>13, <1>a, <1>e, <2>1, <2>2, Elsewhere DEF SendPass, history
<1>14. CASE ToSocket
  <2>1. ~Idle /\ Top.kind = "send" /\ Top.at = 0 /\ Top \in Good
    BY <1>14, <1>e DEF ToSocket, InCall
  <2>2. Top.origin \in 1..(N + 1) /\ Top.path = [k \in 1..(Top.origin - 1) |-> Top.origin - k]
    BY <2>1 DEF Good, CarriesStatus, OnItsWay, Passed
  <2>3. wire'.origin \in 1..(N + 1) /\ PathIsChain'
    BY <1>14, <2>2 DEF ToSocket, IInv, PathIsChain
  <2>4. calls' \in Seq(Good) /\ received' = received /\ sent' = sent
    BY <1>14, <1>e, <2>1 DEF ToSocket
  <2> QED BY <1>a, <2>3, <2>4 DEF IInv
<1>15. CASE OpenBox
  <2>1. ~Idle /\ Top \in Good
    BY <1>15, <1>e DEF OpenBox
  <2>2. [Top EXCEPT !.box = TRUE, !.boxed = TRUE] \in Good
    BY <2>1 DEF Good, CarriesStatus, OnItsWay, Records
  <2> QED BY <1>15, <1>a, <1>e, <2>1, <2>2, Elsewhere DEF OpenBox, history
<1>16. CASE CloseBox
  <2>1. ~Idle /\ Top \in Good
    BY <1>16, <1>e DEF CloseBox
  <2>2. [Top EXCEPT !.box = FALSE] \in Good
    BY <2>1 DEF Good, CarriesStatus, OnItsWay, Records
  <2> QED BY <1>16, <1>a, <1>e, <2>1, <2>2, Elsewhere DEF CloseBox, history
<1>17. ASSUME NEW i \in Filters, FilterSends(i) PROVE IInv'
  <2>1. sent' = sent + 1 /\ sent' \in Nat
    BY <1>17, <1>a DEF FilterSends
  <2>2. Below(i) = i - 1 /\ Below(i) \in Stations /\ i \in 1..(N + 1) /\ i \in Nat
    BY DEF Below, Filters, Stations, FiltersAreCounted
  <2>3. Call("send", Below(i), sent', i) \in Good
    BY <2>1, <2>2, NewCall
  <2>4. CASE InCall("recv")
    <3>1. ~Idle /\ Top \in Good
      BY <2>4, <1>e DEF InCall
    <3>2. [Top EXCEPT !.spoke = TRUE] \in Good
      BY <3>1 DEF Good, CarriesStatus, OnItsWay, Records
    <3>3. Append(Rest, [Top EXCEPT !.spoke = TRUE]) \in Seq(Good)
      BY <1>e, <3>1, <3>2
    <3>4. calls' \in Seq(Good)
      BY <1>17, <2>3, <2>4, <3>3, Pushed DEF FilterSends
    <3> QED BY <1>17, <1>a, <2>1, <3>4, Elsewhere DEF FilterSends
  <2>5. CASE ~InCall("recv")
    <3>1. calls' \in Seq(Good)
      BY <1>17, <1>a, <2>3, <2>5, Pushed DEF FilterSends
    <3> QED BY <1>17, <1>a, <2>1, <3>1, Elsewhere DEF FilterSends
  <2> QED BY <2>4, <2>5
<1>18. CASE UNCHANGED vars
  BY <1>18, <1>a, Elsewhere DEF vars, history
<1> QED
  BY <1>1, <1>2, <1>3, <1>4, <1>5, <1>6, <1>7, <1>8, <1>9, <1>10, <1>11, <1>12, <1>13, <1>14, <1>15,
     <1>16, <1>17, <1>18 DEF Next

-----------------------------------------------------------------------------
(* Types, and the bounds of the stack and of the pieces.                     *)
Bounded == MaxPieces \in Nat /\ MaxDepth \in Nat \ {0}

Typed ==
  /\ mgr \in BOOLEAN /\ socket \in [running: BOOLEAN, connected: BOOLEAN]
  /\ started \subseteq Filters /\ told \in [Listeners -> BOOLEAN]
  /\ Len(calls) <= MaxDepth /\ received <= MaxPieces /\ sent <= MaxPieces

(* What the stack looks like when a call is made, replaced or left.          *)
LEMMA Stack ==
  ASSUME calls \in Seq(Good)
  PROVE  /\ Len(calls) \in Nat
         /\ \A c \in Good : /\ Len(Append(calls, c)) = Len(calls) + 1
                            /\ Append(calls, c)[Len(calls) + 1] = c
                            /\ \A k \in 1..Len(calls) : Append(calls, c)[k] = calls[k]
         /\ ~Idle =>
              /\ Len(calls) > 0 /\ Rest \in Seq(Good) /\ Len(Rest) = Len(calls) - 1
              /\ \A k \in 1..(Len(calls) - 1) : Rest[k] = calls[k]
              /\ \A c \in Good : /\ Len(Append(Rest, c)) = Len(calls)
                                 /\ Append(Rest, c)[Len(calls)] = c
                                 /\ \A k \in 1..(Len(calls) - 1) : Append(Rest, c)[k] = calls[k]
<1>1. Len(calls) \in Nat
  OBVIOUS
<1>2. ASSUME NEW c \in Good
      PROVE  /\ Len(Append(calls, c)) = Len(calls) + 1
             /\ Append(calls, c)[Len(calls) + 1] = c
             /\ \A k \in 1..Len(calls) : Append(calls, c)[k] = calls[k]
  BY AppendProperties
<1>3. ASSUME ~Idle
      PROVE  /\ Len(calls) > 0 /\ Rest \in Seq(Good) /\ Len(Rest) = Len(calls) - 1
             /\ \A k \in 1..(Len(calls) - 1) : Rest[k] = calls[k]
  <2>1. Len(calls) > 0 /\ Rest \in Seq(Good)
    BY <1>3, EmptySeq, Replaced, LenProperties DEF Idle
  <2> DEFINE n == Len(calls) - 1
  <2>2. n \in Nat /\ n <= Len(calls) /\ Rest = SubSeq(calls, 1, n)
    BY <2>1, <1>1 DEF Rest
  <2> HIDE DEF n
  <2>3. Len(Rest) = n /\ \A k \in 1..n : Rest[k] = calls[k]
    BY <2>1, <2>2
  <2> QED BY <2>1, <2>3 DEF n
<1>4. ASSUME ~Idle, NEW c \in Good
      PROVE  /\ Len(Append(Rest, c)) = Len(calls)
             /\ Append(Rest, c)[Len(calls)] = c
             /\ \A k \in 1..(Len(calls) - 1) : Append(Rest, c)[k] = calls[k]
  <2>1. /\ Len(Append(Rest, c)) = Len(Rest) + 1
        /\ Append(Rest, c)[Len(Rest) + 1] = c
        /\ \A k \in 1..Len(Rest) : Append(Rest, c)[k] = Rest[k]
    BY <1>3, <1>4, AppendProperties
  <2>2. Len(Rest) = Len(calls) - 1 /\ Len(Rest) + 1 = Len(calls)
    BY <1>1, <1>3, <1>4
  <2> QED BY <1>3, <1>4, <2>1, <2>2
<1> QED BY <1>1, <1>2, <1>3, <1>4

LEMMA InitTyped == FiltersAreCounted /\ Bounded /\ Init => Typed
<1> SUFFICES ASSUME Bounded, Init PROVE Typed
  OBVIOUS
<1>1. calls = <<>> /\ Len(<<>>) = 0 /\ received = 0 /\ sent = 0
  BY DEF Init
<1>2. Len(calls) <= MaxDepth /\ received <= MaxPieces /\ sent <= MaxPieces
  BY <1>1 DEF Bounded
<1> QED BY <1>2 DEF Init, Typed

(* A step makes a call at most one deeper, and only below the bound.         *)
LEMMA NextTyped == FiltersAreCounted /\ Bounded /\ IInv /\ Typed /\ [Next]_vars => Typed'
<1> SUFFICES ASSUME FiltersAreCounted, Bounded, IInv, Typed, [Next]_vars PROVE Typed'
  OBVIOUS
<1>1. /\ calls \in Seq(Good) /\ received \in Nat /\ sent \in Nat /\ Len(calls) \in Nat
      /\ Len(<<>>) = 0 /\ 1 <= MaxDepth /\ MaxDepth \in Nat /\ MaxPieces \in Nat
  BY DEF IInv, Bounded
<1>2. ASSUME NEW c PROVE Len(Append(calls, c)) = Len(calls) + 1 /\ (Idle => Len(calls) = 0) /\ Len(<<c>>) = 1
  BY <1>1 DEF Idle
<1>3. ASSUME ~Idle, NEW c PROVE Len(Append(Rest, c)) = Len(calls) /\ Len(Rest) <= Len(calls)
  <2>1. Rest \in Seq(Good) /\ Len(Rest) = Len(calls) - 1
    BY <1>1, <1>3, Stack
  <2> QED BY <1>1, <2>1
<1>4. ASSUME NEW b PROVE Len(Report(b)) = Len(calls) + 1
  BY <1>2 DEF Report
<1>5. ASSUME NEW b \in BOOLEAN PROVE [socket EXCEPT !.connected = b] \in [running: BOOLEAN, connected: BOOLEAN]
  BY DEF Typed
<1>6. Len(calls) <= MaxDepth /\ received <= MaxPieces /\ sent <= MaxPieces
  BY DEF Typed
<1>7. CASE Start
  BY <1>7, <1>6 DEF Start, history, Typed
<1>8. CASE Stop
  <2>1. Len(calls') <= MaxDepth
    BY <1>8, <1>1, <1>2 DEF Stop
  <2> QED BY <1>8, <2>1 DEF Stop, history, Typed
<1>9. CASE Connect \/ Disconnect
  <2>1. Len(calls') <= MaxDepth
    <3>1. Len(calls) = 0 /\ \E b \in BOOLEAN : calls' = Report(b)
      BY <1>9, <1>2 DEF Connect, Disconnect
    <3> QED BY <1>1, <1>4, <3>1
  <2> QED BY <1>9, <1>5, <2>1 DEF Connect, Disconnect, history, Typed
<1>10. CASE Lost
  <2>1. Len(calls') <= MaxDepth
    <3>1. Len(calls) < MaxDepth
      BY <1>10 DEF Lost, EventLoop
    <3>2. Len(calls') = Len(calls) + 1
      BY <1>10, <1>2 DEF Lost, Report
    <3> QED BY <1>1, <3>1, <3>2
  <2> QED BY <1>10, <1>5, <2>1 DEF Lost, history, Typed
<1>11. CASE Tell
  <2>1. Len(calls') <= MaxDepth
    BY <1>11, <1>1, <1>3, <1>6 DEF Tell, InCall
  <2>2. ~Idle /\ Top.kind = "status" /\ Top \in Good
    BY <1>11, <1>1, Replaced DEF Tell, InCall
  <2>3. told' \in [Listeners -> BOOLEAN]
    BY <1>11, <2>2 DEF Tell, Typed, Good, CarriesStatus, Records
  <2> QED BY <1>11, <2>1, <2>3 DEF Tell, history, chainVars, Typed
<1>12. CASE Told
  <2>1. Len(calls') <= MaxDepth
    BY <1>12, <1>1, <1>3, <1>6 DEF Told, InCall
  <2> QED BY <1>12, <2>1 DEF Told, history, chainVars, Typed
<1>13. CASE SocketData
  <2>1. Len(calls') <= MaxDepth
    BY <1>13, <1>1, <1>2 DEF SocketData, EventLoop
  <2> QED BY <1>13, <1>1, <2>1 DEF SocketData, chainVars, Typed
<1>14. CASE RecvPass \/ Consume \/ ToProtocol \/ SendPass \/ ToSocket \/ OpenBox \/ CloseBox
  <2>1. Len(calls') <= MaxDepth
    BY <1>14, <1>1, <1>3, <1>6 DEF RecvPass, Consume, ToProtocol, SendPass, ToSocket, OpenBox, CloseBox, InCall
  <2> QED BY <1>14, <2>1 DEF RecvPass, Consume, ToProtocol, SendPass, ToSocket, OpenBox, CloseBox, history, chainVars, Typed
<1>15. CASE ProtocolSends
  <2>1. Len(calls') <= MaxDepth
    BY <1>15, <1>1, <1>2 DEF ProtocolSends, EventLoop
  <2> QED BY <1>15, <1>1, <2>1 DEF ProtocolSends, chainVars, Typed
<1>16. ASSUME NEW i \in Filters, FilterSends(i) PROVE Typed'
  <2>1. Len(calls') <= MaxDepth
    <3>1. CASE InCall("recv")
      <4>1. ~Idle /\ Len(Append(Rest, [Top EXCEPT !.spoke = TRUE])) = Len(calls)
        BY <1>3, <3>1 DEF InCall
      <4>2. Top \in Good /\ [Top EXCEPT !.spoke = TRUE] \in Good
        BY <1>1, <4>1, Replaced DEF Good, CarriesStatus, OnItsWay, Records
      <4>3. Append(Rest, [Top EXCEPT !.spoke = TRUE]) \in Seq(Good)
        BY <1>1, <4>1, <4>2, Replaced
      <4>4. ASSUME NEW c PROVE Len(Append(Append(Rest, [Top EXCEPT !.spoke = TRUE]), c)) = Len(calls) + 1
        BY <4>1, <4>3
      <4> QED BY <1>16, <1>1, <3>1, <4>4 DEF FilterSends
    <3>2. CASE ~InCall("recv")
      BY <1>16, <1>1, <1>2, <3>2 DEF FilterSends
    <3> QED BY <3>1, <3>2
  <2> QED BY <1>16, <1>1, <2>1 DEF FilterSends, chainVars, Typed
<1>17. CASE UNCHANGED vars
  BY <1>17 DEF vars, history, chainVars, Typed
<1> QED
  BY <1>7, <1>8, <1>9, <1>10, <1>11, <1>12, <1>13, <1>14, <1>15, <1>16, <1>17 DEF Next

(* Every call of the stack is of a kind and at a station.                    *)
LEMMA TypedTypes == FiltersAreCounted /\ Bounded /\ IInv /\ Typed => TypeOK
<1> SUFFICES ASSUME FiltersAreCounted, Bounded, IInv, Typed PROVE TypeOK
  OBVIOUS
<1>1. ASSUME NEW k \in DOMAIN calls
      PROVE  calls[k].kind \in {"recv", "send", "status"} /\ calls[k].at \in 0..(Application + 1)
  <2>1. calls[k] \in Good
    BY DEF IInv
  <2> QED BY <2>1 DEF Good, Records, Stations, Application, FiltersAreCounted
<1> QED BY <1>1 DEF TypeOK, Typed, IInv, Bounded

-----------------------------------------------------------------------------
(* Without error boxes nothing comes in between the steps of a call: at most *)
(* one is under way, and a filter's own data in the middle of it.            *)
Plain ==
  /\ Len(calls) \in 0..2
  /\ \A k \in 1..Len(calls) : ~calls[k].box /\ calls[k].boxed
  /\ Len(calls) = 2 => calls[1].kind = "recv" /\ calls[2].kind = "send"

Reading == Len(calls) > 0 /\ calls[1].kind = "recv"
Telling == Len(calls) > 0 /\ calls[1].kind = "status"

(* The piece on its way up is the last received, and newer than any that the *)
(* protocol has.                                                             *)
NewestComes ==
  /\ protocolGot \in Seq(Nat) /\ DataInOrder
  /\ \A k \in DOMAIN protocolGot : protocolGot[k] <= received
  /\ Reading => calls[1].what = received /\ \A k \in DOMAIN protocolGot : protocolGot[k] < received

(* Whom the report has not reached is yet to be told.                        *)
ToldSoFar ==
  /\ Telling => /\ calls[1].what = socket.connected
                /\ \A l \in Listeners : l < calls[1].at => told[l] = socket.connected
  /\ ~Telling => \A l \in Listeners : told[l] = socket.connected

LEMMA Shallow ==
  ASSUME calls \in Seq(Good), Plain, ~Idle
  PROVE  /\ ~Top.box /\ Top.boxed /\ Top \in Good /\ ~EventLoop
         /\ \/ Len(calls) = 1 /\ Top = calls[1] /\ Len(Rest) = 0
            \/ /\ Len(calls) = 2 /\ Top = calls[2] /\ Top.kind = "send" /\ calls[1].kind = "recv"
               /\ Len(Rest) = 1 /\ Rest[1] = calls[1]
<1>1. Len(calls) > 0 /\ Len(calls) \in 0..2 /\ Len(Rest) = Len(calls) - 1 /\ Top \in Good
  BY Stack, Replaced DEF Plain
<1>2. \A k \in 1..(Len(calls) - 1) : Rest[k] = calls[k]
  BY Stack
<1>3. ~Top.box /\ Top.boxed
  BY <1>1 DEF Plain, Top
<1>4. CASE Len(calls) = 1
  BY <1>1, <1>3, <1>4 DEF Top, EventLoop
<1>5. CASE Len(calls) = 2
  BY <1>1, <1>2, <1>3, <1>5 DEF Top, EventLoop, Plain
<1> QED BY <1>1, <1>4, <1>5

(* A call out of the event loop, ...                                         *)
LEMMA Entered ==
  ASSUME calls \in Seq(Good), Idle, NEW c \in Good, ~c.box, c.boxed,
         calls' = Append(calls, c) \/ calls' = <<c>>
  PROVE  Plain' /\ Len(calls') = 1 /\ calls'[1] = c
<1>1. Len(calls) = 0
  BY DEF Idle
<1>2. Len(calls') = 1 /\ calls'[1] = c
  BY <1>1, Stack
<1> QED BY <1>2 DEF Plain

(* ... one that goes on, ...                                                 *)
LEMMA GoesOn ==
  ASSUME calls \in Seq(Good), Plain, ~Idle, NEW c \in Good, ~c.box, c.boxed, calls' = Append(Rest, c),
         Top.kind = "send" => c.kind = "send"
  PROVE  /\ Plain' /\ Len(calls') = Len(calls)
         /\ Top.kind # "send" => Len(calls) = 1 /\ Top = calls[1] /\ calls'[1] = c
         /\ Top.kind = "send" => (Reading' <=> Reading) /\ ~Telling /\ ~Telling' /\ (Reading => calls'[1] = calls[1])
<1>1. /\ Len(calls') = Len(calls) /\ calls'[Len(calls)] = c
      /\ \A k \in 1..(Len(calls) - 1) : calls'[k] = calls[k]
  BY Stack
<1>2. CASE Len(calls) = 1 /\ Top = calls[1]
  <2>1. Plain'
    BY <1>1, <1>2 DEF Plain
  <2> QED BY <1>1, <1>2, <2>1 DEF Reading, Telling
<1>3. CASE Len(calls) = 2 /\ Top = calls[2] /\ Top.kind = "send" /\ calls[1].kind = "recv"
  <2>1. calls'[1] = calls[1] /\ calls'[2] = c /\ c.kind = "send"
    BY <1>1, <1>3
  <2>2. Plain'
    BY <1>1, <1>3, <2>1 DEF Plain
  <2> QED BY <1>1, <1>3, <2>1, <2>2 DEF Reading, Telling
<1> QED BY <1>2, <1>3, Shallow

(* ... and one that is over.                                                 *)
LEMMA Over ==
  ASSUME calls \in Seq(Good), Plain, ~Idle, calls' = Rest
  PROVE  /\ Plain' /\ ~Telling'
         /\ Top.kind # "send" => Len(calls) = 1 /\ Top = calls[1] /\ ~Reading'
         /\ Top.kind = "send" => ~Telling /\ (Reading' <=> Reading) /\ (Reading => calls'[1] = calls[1])
<1>1. CASE Len(calls) = 1 /\ Top = calls[1] /\ Len(Rest) = 0
  BY <1>1 DEF Plain, Reading, Telling
<1>2. CASE /\ Len(calls) = 2 /\ Top = calls[2] /\ Top.kind = "send" /\ calls[1].kind = "recv"
           /\ Len(Rest) = 1 /\ Rest[1] = calls[1]
  <2>1. Plain'
    BY <1>2 DEF Plain
  <2> QED BY <1>2, <2>1 DEF Reading, Telling
<1> QED BY <1>1, <1>2, Shallow

PlainInv == Plain /\ NewestComes /\ ToldSoFar

LEMMA InitPlain == FiltersAreCounted /\ Init => PlainInv
<1> SUFFICES ASSUME FiltersAreCounted, Init PROVE PlainInv
  OBVIOUS
<1>1. /\ calls = <<>> /\ Len(calls) = 0 /\ protocolGot = <<>> /\ protocolGot \in Seq(Nat)
      /\ DOMAIN protocolGot = {}
  BY DEF Init
<1>2. \A l \in Listeners : told[l] = socket.connected
  BY DEF Init
<1> QED BY <1>1, <1>2 DEF PlainInv, Plain, NewestComes, DataInOrder, ToldSoFar, Reading, Telling

(* Steps that leave the protocol and the count of received pieces alone.     *)
LEMMA SameData ==
  ASSUME NewestComes, UNCHANGED <<received, protocolGot>>,
         Reading' => Reading /\ calls'[1].what = calls[1].what
  PROVE  NewestComes'
BY DEF NewestComes, DataInOrder

LEMMA SameStatus ==
  ASSUME ToldSoFar, UNCHANGED <<socket, told>>, ~Telling, ~Telling'
  PROVE  ToldSoFar'
BY DEF ToldSoFar

LEMMA Changed == ASSUME NEW b \in BOOLEAN, Typed PROVE [socket EXCEPT !.connected = b].connected = b
BY DEF Typed

(* A report begins.                                                          *)
LEMMA Begins ==
  ASSUME calls \in Seq(Good), FiltersAreCounted, NewestComes, Idle, NEW c \in Good, ~c.box, c.boxed, c.kind = "status", c.at = 1,
         c.what = socket'.connected, calls' = Append(calls, c) \/ calls' = <<c>>,
         UNCHANGED <<received, protocolGot>>
  PROVE  PlainInv'
<1>1. Plain' /\ Len(calls') = 1 /\ calls'[1] = c
  BY Entered
<1>2. Telling' /\ ~Reading'
  BY <1>1 DEF Telling, Reading
<1>3. NewestComes'
  BY <1>2, SameData
<1>4. \A l \in Listeners : ~(l < c.at)
  BY DEF Listeners, Application, FiltersAreCounted
<1>5. ToldSoFar'
  BY <1>1, <1>2, <1>4 DEF ToldSoFar
<1> QED BY <1>1, <1>3, <1>5 DEF PlainInv

LEMMA NextPlain ==
  FiltersAreCounted /\ ~Dialogs /\ IInv /\ Typed /\ PlainInv /\ [Next]_vars => PlainInv'
<1> SUFFICES ASSUME FiltersAreCounted, ~Dialogs, IInv, Typed, PlainInv, [Next]_vars PROVE PlainInv'
  OBVIOUS
<1>1. calls \in Seq(Good) /\ received \in Nat /\ Plain /\ NewestComes /\ ToldSoFar
  BY DEF IInv, PlainInv
<1>2. EventLoop => Idle
  BY <1>1, Shallow
<1>3. ~Idle => Top \in Good /\ ~Top.box /\ Top.boxed
  BY <1>1, Shallow
<1>4. Idle => ~Telling /\ ~Reading
  BY DEF Idle, Telling, Reading
<1>5. ASSUME NEW kind, NEW at, NEW what, NEW origin
      PROVE  /\ ~Call(kind, at, what, origin).box /\ Call(kind, at, what, origin).boxed
             /\ Call(kind, at, what, origin).kind = kind /\ Call(kind, at, what, origin).at = at
             /\ Call(kind, at, what, origin).what = what
  BY DEF Call
<1>6. ASSUME NEW b \in BOOLEAN PROVE Call("status", 1, b, 0) \in Good
  BY NewCall DEF Stations, FiltersAreCounted
<1>7. CASE Start
  <2>1. Idle /\ UNCHANGED <<told, calls, received, protocolGot>> /\ socket' = [socket EXCEPT !.running = TRUE]
    BY <1>7 DEF Start, history
  <2>2. socket'.connected = socket.connected
    BY <2>1 DEF Typed
  <2>3. NewestComes'
    BY <1>1, <2>1 DEF NewestComes, DataInOrder, Reading
  <2>4. ToldSoFar'
    BY <1>1, <2>1, <2>2 DEF ToldSoFar, Telling
  <2>5. Plain'
    BY <1>1, <2>1 DEF Plain
  <2> QED BY <2>3, <2>4, <2>5 DEF PlainInv
<1>8. CASE Stop
  <2>1. Idle /\ UNCHANGED <<told, received, protocolGot>> /\ socket' = [running |-> FALSE, connected |-> FALSE]
    BY <1>8 DEF Stop, history
  <2>2. CASE socket.connected
    <3> DEFINE c == [Call("status", 1, FALSE, 0) EXCEPT !.again = TRUE]
    <3>1. c \in Good /\ ~c.box /\ c.boxed /\ c.kind = "status" /\ c.at = 1 /\ c.what = FALSE
      BY <1>6 DEF Good, CarriesStatus, OnItsWay, Records, Call
    <3>2. calls' = <<c>>
      BY <1>8, <2>2 DEF Stop
    <3>3. c.what = socket'.connected
      BY <2>1, <3>1
    <3> HIDE DEF c
    <3> QED BY <1>1, <2>1, <3>1, <3>2, <3>3, Begins
  <2>3. CASE ~socket.connected
    <3>1. calls' = calls
      BY <1>8, <2>1, <2>3 DEF Stop, Idle
    <3>2. socket'.connected = socket.connected
      BY <2>1, <2>3 DEF Typed
    <3>3. NewestComes'
      BY <1>1, <2>1, <3>1 DEF NewestComes, DataInOrder, Reading
    <3>4. ToldSoFar'
      BY <1>1, <2>1, <3>1, <3>2 DEF ToldSoFar, Telling
    <3>5. Plain'
      BY <1>1, <3>1 DEF Plain
    <3> QED BY <3>3, <3>4, <3>5 DEF PlainInv
  <2> QED BY <2>2, <2>3
<1>9. CASE Connect \/ Disconnect \/ Lost
  <2>1. Idle /\ UNCHANGED <<told, received, protocolGot>>
    BY <1>9, <1>2 DEF Connect, Disconnect, Lost, history
  <2>2. \E b \in BOOLEAN : socket' = [socket EXCEPT !.connected = b] /\ calls' = Report(b)
    BY <1>9 DEF Connect, Disconnect, Lost
  <2>3. PICK b \in BOOLEAN : socket' = [socket EXCEPT !.connected = b] /\ calls' = Report(b)
    BY <2>2
  <2> DEFINE c == Call("status", 1, b, 0)
  <2>4. /\ c \in Good /\ ~c.box /\ c.boxed /\ c.kind = "status" /\ c.at = 1 /\ c.what = b
        /\ calls' = Append(calls, c)
    BY <1>5, <1>6, <2>3 DEF Report
  <2>5. socket'.connected = b
    BY <2>3, Changed
  <2> HIDE DEF c
  <2>6. c.what = socket'.connected
    BY <2>4, <2>5
  <2> QED BY <1>1, <2>1, <2>4, <2>6, Begins
<1>10. CASE Tell
  <2> DEFINE c == [Top EXCEPT !.at = NextListener(@), !.boxed = ~Dialogs]
  <2>1. /\ ~Idle /\ Top.kind = "status" /\ Top \in Good /\ Top.at \in Listeners
        /\ told' = [told EXCEPT ![Top.at] = Top.what] /\ calls' = Append(Rest, c)
        /\ UNCHANGED <<socket, received, protocolGot>>
    BY <1>10, <1>3 DEF Tell, InCall, history, chainVars
  <2>2. /\ c \in Good /\ ~c.box /\ c.boxed /\ c.kind = "status" /\ c.at = Top.at + 1 /\ c.what = Top.what
    <3>1. Top.at + 1 \in Stations
      BY <2>1 DEF Listeners, Application, Stations, FiltersAreCounted
    <3> DEFINE at == Top.at + 1
    <3> HIDE DEF at
    <3>2. c = [Top EXCEPT !.at = at, !.boxed = TRUE]
      BY DEF at, NextListener
    <3>3. c \in Good
      BY <2>1, <3>1, <3>2, Further DEF at
    <3>4. ~c.box /\ c.boxed /\ c.kind = "status" /\ c.at = at /\ c.what = Top.what
      BY <1>3, <2>1, <3>2 DEF Good, Records
    <3> QED BY <3>3, <3>4 DEF at
  <2> HIDE DEF c
  <2>3. Plain' /\ Len(calls') = Len(calls) /\ Len(calls) = 1 /\ Top = calls[1] /\ calls'[1] = c
    BY <1>1, <2>1, <2>2, GoesOn
  <2>4. Telling /\ Telling' /\ ~Reading'
    BY <2>1, <2>2, <2>3 DEF Telling, Reading
  <2>5. NewestComes'
    BY <1>1, <2>1, <2>4, SameData
  <2>6. ASSUME NEW l \in Listeners, l < Top.at + 1 PROVE told'[l] = socket.connected
    <3>1. Top.what = socket.connected /\ (l < Top.at => told[l] = socket.connected)
      BY <1>1, <2>3, <2>4 DEF ToldSoFar
    <3>2. CASE l = Top.at
      BY <2>1, <3>1, <3>2 DEF Typed
    <3>3. CASE l # Top.at
      <4>1. l < Top.at
        BY <2>1, <2>6, <3>3 DEF Listeners, Application, FiltersAreCounted
      <4> QED BY <2>1, <3>1, <3>3, <4>1 DEF Typed
    <3> QED BY <3>2, <3>3
  <2>7. ToldSoFar'
    <3>1. c.what = socket.connected
      BY <1>1, <2>2, <2>3, <2>4 DEF ToldSoFar
    <3> QED BY <2>1, <2>2, <2>3, <2>4, <2>6, <3>1 DEF ToldSoFar
  <2> QED BY <2>3, <2>5, <2>7 DEF PlainInv
<1>11. CASE Told
  <2>1. /\ ~Idle /\ Top.kind = "status" /\ Top \in Good /\ Top.at > Application
        /\ calls' = (IF Top.again THEN Append(Rest, Call("status", 1, Top.what, 0)) ELSE Rest)
        /\ UNCHANGED <<socket, told, received, protocolGot>>
    BY <1>11, <1>3 DEF Told, InCall, history, chainVars
  <2>2. Len(calls) = 1 /\ Top = calls[1] /\ Telling
    BY <1>1, <2>1, Shallow DEF Telling
  <2>3. Top.what = socket.connected /\ \A l \in Listeners : told[l] = socket.connected
    <3>1. \A l \in Listeners : l < Top.at
      BY <2>1 DEF Listeners, Application, Good, Records, Stations, FiltersAreCounted
    <3> QED BY <1>1, <2>2, <3>1 DEF ToldSoFar
  <2>4. CASE Top.again
    <3> DEFINE c == Call("status", 1, Top.what, 0)
    <3>1. c \in Good /\ ~c.box /\ c.boxed /\ c.kind = "status" /\ c.what = Top.what
      <4>1. Top.what \in BOOLEAN
        BY <2>1 DEF Good, CarriesStatus
      <4> QED BY <1>5, <1>6, <4>1
    <3>2. calls' = Append(Rest, c)
      BY <2>1, <2>4
    <3> HIDE DEF c
    <3>3. Plain' /\ Len(calls') = 1 /\ calls'[1] = c
      BY <1>1, <2>1, <2>2, <3>1, <3>2, GoesOn
    <3>4. Telling' /\ ~Reading'
      BY <3>1, <3>3 DEF Telling, Reading
    <3>5. NewestComes'
      BY <1>1, <2>1, <3>4, SameData
    <3>6. ToldSoFar'
      BY <2>1, <2>3, <3>1, <3>3, <3>4 DEF ToldSoFar
    <3> QED BY <3>3, <3>5, <3>6 DEF PlainInv
  <2>5. CASE ~Top.again
    <3>1. Plain' /\ ~Telling' /\ ~Reading'
      BY <1>1, <2>1, <2>5, Over
    <3>2. NewestComes'
      BY <1>1, <2>1, <3>1, SameData
    <3>3. ToldSoFar'
      BY <2>1, <2>3, <3>1 DEF ToldSoFar
    <3> QED BY <3>1, <3>2, <3>3 DEF PlainInv
  <2> QED BY <2>4, <2>5
<1>12. CASE SocketData
  <2> DEFINE c == Call("recv", 1, received', 0)
  <2>1. /\ Idle /\ received' = received + 1 /\ calls' = Append(calls, c)
        /\ UNCHANGED <<socket, told, protocolGot>>
    BY <1>12, <1>2 DEF SocketData, chainVars
  <2>2. c \in Good /\ ~c.box /\ c.boxed /\ c.kind = "recv" /\ c.what = received'
    <3>1. received' \in BOOLEAN \cup Nat /\ 1 \in Stations
      BY <1>1, <2>1 DEF Stations, FiltersAreCounted
    <3> QED BY <1>5, <3>1, NewCall
  <2> HIDE DEF c
  <2>3. Plain' /\ Len(calls') = 1 /\ calls'[1] = c
    BY <1>1, <2>1, <2>2, Entered
  <2>4. Reading' /\ ~Telling'
    BY <2>2, <2>3 DEF Reading, Telling
  <2>5. ToldSoFar'
    BY <1>1, <1>4, <2>1, <2>4, SameStatus
  <2>6. /\ protocolGot' \in Seq(Nat) /\ DataInOrder'
        /\ \A k \in DOMAIN protocolGot' : protocolGot'[k] < received' /\ protocolGot'[k] <= received'
    BY <1>1, <2>1 DEF NewestComes, DataInOrder
  <2>7. NewestComes'
    BY <2>2, <2>3, <2>6 DEF NewestComes
  <2> QED BY <2>3, <2>5, <2>7 DEF PlainInv
<1>13. CASE RecvPass
  <2> DEFINE c == [Top EXCEPT !.at = @ + 1, !.spoke = FALSE]
  <2>1. /\ ~Idle /\ Top.kind = "recv" /\ Top \in Good /\ Top.at + 1 \in Stations /\ calls' = Append(Rest, c)
        /\ UNCHANGED <<socket, told, received, protocolGot>>
    BY <1>13, <1>3 DEF RecvPass, InCall, history, chainVars, Filters, Stations, FiltersAreCounted
  <2>2. c \in Good /\ ~c.box /\ c.boxed /\ c.kind = "recv" /\ c.what = Top.what
    BY <1>3, <2>1, Further DEF Good, Records
  <2> HIDE DEF c
  <2>3. Plain' /\ Len(calls') = Len(calls) /\ Len(calls) = 1 /\ Top = calls[1] /\ calls'[1] = c
    BY <1>1, <2>1, <2>2, GoesOn
  <2>4. Reading /\ Reading' /\ ~Telling /\ ~Telling' /\ calls'[1].what = calls[1].what
    BY <2>1, <2>2, <2>3 DEF Reading, Telling
  <2> QED BY <1>1, <2>1, <2>3, <2>4, SameData, SameStatus DEF PlainInv
<1>14. CASE Consume
  <2>1. /\ ~Idle /\ Top.kind \in {"recv", "send"} /\ calls' = Rest
        /\ UNCHANGED <<socket, told, received, protocolGot>>
    BY <1>14 DEF Consume, history, chainVars
  <2>2. /\ Plain' /\ ~Telling' /\ ~Telling
        /\ Reading' => Reading /\ calls'[1].what = calls[1].what
    BY <1>1, <2>1, Over DEF Telling
  <2> QED BY <1>1, <2>1, <2>2, SameData, SameStatus DEF PlainInv
<1>15. CASE ToProtocol
  <2>1. /\ ~Idle /\ Top.kind = "recv" /\ calls' = Rest /\ protocolGot' = Append(protocolGot, Top.what)
        /\ UNCHANGED <<socket, told, received>>
    BY <1>15 DEF ToProtocol, InCall, chainVars
  <2>2. Plain' /\ ~Telling' /\ ~Telling /\ ~Reading' /\ Reading /\ Top = calls[1]
    <3>1. Plain' /\ ~Telling' /\ ~Reading' /\ Len(calls) = 1 /\ Top = calls[1]
      BY <1>1, <2>1, Over
    <3> QED BY <2>1, <3>1 DEF Telling, Reading
  <2> DEFINE n == Len(protocolGot)
             g == protocolGot'
  <2>3. /\ Top.what = received /\ protocolGot \in Seq(Nat)
        /\ \A k \in 1..n : protocolGot[k] \in Nat /\ protocolGot[k] < received
        /\ \A j, k \in 1..n : j < k => protocolGot[j] < protocolGot[k]
    BY <1>1, <2>2 DEF NewestComes, DataInOrder
  <2>4. /\ n \in Nat /\ g \in Seq(Nat) /\ Len(g) = n + 1 /\ g[n + 1] = received
        /\ \A k \in 1..n : g[k] = protocolGot[k]
    <3>1. protocolGot' = Append(protocolGot, received) /\ received \in Nat
      BY <1>1, <2>1, <2>3
    <3> QED BY <2>3, <3>1, AppendProperties
  <2>5. DOMAIN g = 1..(n + 1)
    BY <2>4
  <2> HIDE DEF n, g
  <2>6. ASSUME NEW k \in 1..(n + 1) PROVE g[k] <= received
    <3>1. received \in Nat
      BY <1>1, <2>1, <2>3
    <3>2. CASE k = n + 1
      BY <2>4, <3>1, <3>2
    <3>3. CASE k # n + 1
      <4>1. k \in 1..n
        BY <2>4, <3>3
      <4>2. g[k] = protocolGot[k] /\ protocolGot[k] \in Nat /\ protocolGot[k] < received
        BY <2>3, <2>4, <4>1
      <4> QED BY <3>1, <4>2
    <3> QED BY <3>2, <3>3
  <2>7. ASSUME NEW j \in 1..(n + 1), NEW k \in 1..(n + 1), j < k PROVE g[j] < g[k]
    <3>1. j \in 1..n
      BY <2>4, <2>7
    <3>2. CASE k = n + 1
      BY <2>3, <2>4, <3>1, <3>2
    <3>3. CASE k # n + 1
      BY <2>3, <2>4, <2>7, <3>1, <3>3
    <3> QED BY <3>2, <3>3
  <2>8. NewestComes'
    BY <2>1, <2>2, <2>4, <2>5, <2>6, <2>7 DEF NewestComes, DataInOrder, g
  <2> QED BY <1>1, <2>1, <2>2, <2>8, SameStatus DEF PlainInv
<1>16. CASE ProtocolSends
  <2> DEFINE c == Call("send", N, sent', Protocol)
  <2>1. Idle /\ calls' = Append(calls, c) /\ sent' = sent + 1 /\ UNCHANGED <<socket, told, received, protocolGot>>
    BY <1>16, <1>2 DEF ProtocolSends, chainVars
  <2>2. c \in Good /\ ~c.box /\ c.boxed /\ c.kind = "send"
    <3>1. /\ sent' \in BOOLEAN \cup Nat /\ N \in Stations /\ Protocol \in Nat
          /\ Protocol \in 1..(N + 1) /\ N = Protocol - 1
      BY <2>1 DEF IInv, Protocol, Stations, FiltersAreCounted
    <3>2. c \in Good
      BY <3>1, NewCall
    <3> QED BY <1>5, <3>2
  <2> HIDE DEF c
  <2>3. Plain' /\ ~Telling' /\ ~Reading'
    BY <1>1, <2>1, <2>2, Entered DEF Telling, Reading
  <2> QED BY <1>1, <1>4, <2>1, <2>3, SameData, SameStatus DEF PlainInv
<1>17. CASE SendPass
  <2> DEFINE c == [Top EXCEPT !.at = @ - 1, !.path = Append(@, Top.at)]
  <2>1. /\ ~Idle /\ Top.kind = "send" /\ Top \in Good /\ Top.at \in Filters /\ calls' = Append(Rest, c)
        /\ UNCHANGED <<socket, told, received, protocolGot>>
    BY <1>17, <1>3 DEF SendPass, InCall, history, chainVars
  <2>2. c \in Good /\ ~c.box /\ c.boxed /\ c.kind = "send"
    <3>1. c \in Good
      BY <2>1, HandedDown
    <3>2. c.box = Top.box /\ c.boxed = Top.boxed /\ c.kind = Top.kind
      BY <2>1 DEF Good, Records
    <3> QED BY <1>3, <2>1, <3>1, <3>2
  <2> HIDE DEF c
  <2>3. Plain' /\ ~Telling /\ ~Telling' /\ (Reading' => Reading /\ calls'[1] = calls[1])
    BY <1>1, <2>1, <2>2, GoesOn
  <2> QED BY <1>1, <2>1, <2>3, SameData, SameStatus DEF PlainInv
<1>18. CASE ToSocket
  <2>1. /\ ~Idle /\ Top.kind = "send" /\ calls' = Rest /\ UNCHANGED <<socket, told, received, protocolGot>>
    BY <1>18 DEF ToSocket, InCall, chainVars
  <2>2. /\ Plain' /\ ~Telling' /\ ~Telling
        /\ Reading' => Reading /\ calls'[1] = calls[1]
    BY <1>1, <2>1, Over
  <2> QED BY <1>1, <2>1, <2>2, SameData, SameStatus DEF PlainInv
<1>19. CASE OpenBox \/ CloseBox
  BY <1>3, <1>19 DEF OpenBox, CloseBox
<1>20. ASSUME NEW i \in Filters, FilterSends(i) PROVE PlainInv'
  <2> DEFINE c == Call("send", Below(i), sent', i)
  <2>1. sent' = sent + 1 /\ sent' \in Nat /\ UNCHANGED <<socket, told, received, protocolGot>>
    BY <1>20 DEF FilterSends, chainVars, IInv
  <2>2. c \in Good /\ ~c.box /\ c.boxed /\ c.kind = "send"
    <3>1. Below(i) = i - 1 /\ Below(i) \in Stations /\ i \in 1..(N + 1) /\ i \in Nat
      BY DEF Below, Filters, Stations, FiltersAreCounted
    <3> QED BY <1>5, <2>1, <3>1, NewCall
  <2>3. CASE InCall("recv")
    <3> DEFINE d == [Top EXCEPT !.spoke = TRUE]
    <3>1. ~Idle /\ Top.kind = "recv" /\ calls' = Append(Append(Rest, d), c)
      BY <1>20, <2>3 DEF FilterSends, InCall
    <3>2. d \in Good /\ ~d.box /\ d.boxed /\ d.kind = "recv" /\ d.what = Top.what
      BY <1>3, <3>1 DEF Good, CarriesStatus, OnItsWay, Records
    <3>3. Len(calls) = 1 /\ Top = calls[1] /\ Len(Rest) = 0 /\ Rest \in Seq(Good)
      BY <1>1, <3>1, Shallow, Replaced
    <3> HIDE DEF c, d
    <3>4. Append(Rest, d) \in Seq(Good) /\ Len(Append(Rest, d)) = 1 /\ Append(Rest, d)[1] = d
      BY <3>2, <3>3, AppendProperties
    <3>5. Len(calls') = 2 /\ calls'[1] = d /\ calls'[2] = c
      BY <2>2, <3>1, <3>4, AppendProperties
    <3>6. Plain'
      BY <2>2, <3>2, <3>5 DEF Plain
    <3>7. ~Telling /\ ~Telling' /\ Reading /\ calls'[1].what = calls[1].what
      BY <3>1, <3>2, <3>3, <3>5 DEF Telling, Reading
    <3> QED BY <1>1, <2>1, <3>6, <3>7, SameData, SameStatus DEF PlainInv
  <2>4. CASE ~InCall("recv")
    <3>1. Idle /\ calls' = Append(calls, c)
      BY <1>2, <1>20, <2>4 DEF FilterSends
    <3> HIDE DEF c
    <3>2. Plain' /\ ~Telling' /\ ~Reading'
      BY <1>1, <2>2, <3>1, Entered DEF Telling, Reading
    <3> QED BY <1>1, <1>4, <2>1, <3>1, <3>2, SameData, SameStatus DEF PlainInv
  <2> QED BY <2>3, <2>4
<1>21. CASE UNCHANGED vars
  BY <1>21 DEF vars, history, chainVars, PlainInv, Plain, NewestComes, DataInOrder, ToldSoFar, Reading, Telling
<1> QED
  BY <1>7, <1>8, <1>9, <1>10, <1>11, <1>12, <1>13, <1>14, <1>15, <1>16, <1>17, <1>18, <1>19, <1>20,
     <1>21 DEF Next

LEMMA PlainAgrees == PlainInv => DataInOrder /\ StatusAgrees
BY DEF PlainInv, NewestComes, ToldSoFar, StatusAgrees, Idle, Telling

-----------------------------------------------------------------------------
(* What reaches the socket has been through all the filters below its sender, *)
(* each once and from the top to the bottom, in whatever call or box it was  *)
(* sent (sendMsgs(), filterDataToSendReport(), ToolsMsgMgrImpl.cpp).         *)
THEOREM ThroughTheChain == FiltersAreCounted => (Spec => []PathIsChain)
<1>1. CASE FiltersAreCounted
  <2>1. Init => IInv
    BY <1>1, InitIInv
  <2>2. IInv /\ [Next]_vars => IInv'
    BY <1>1, NextIInv
  <2>3. IInv => PathIsChain
    BY DEF IInv
  <2> QED BY <2>1, <2>2, <2>3, PTL DEF Spec
<1> QED BY <1>1

(* The chain keeps its types, and its stack of calls its bound, with and     *)
(* without error boxes (ToolsMsgMgrImpl.cpp).                                *)
THEOREM TypeCorrect == FiltersAreCounted /\ Bounded => (Spec => []TypeOK)
<1>1. CASE FiltersAreCounted /\ Bounded
  <2>1. Init => IInv /\ Typed
    BY <1>1, InitIInv, InitTyped
  <2>2. IInv /\ Typed /\ [Next]_vars => IInv' /\ Typed'
    BY <1>1, NextIInv, NextTyped
  <2>3. IInv /\ Typed => TypeOK
    BY <1>1, TypedTypes
  <2> QED BY <2>1, <2>2, <2>3, PTL DEF Spec
<1> QED BY <1>1

(* For any number of filters, without error boxes: the protocol is given the *)
(* pieces in the order they came from the socket, and when no call is under  *)
(* way filters, protocol and buttons have the status of the socket           *)
(* (socketDataReceived(), socketConnectionReport(), ToolsMsgMgrImpl.cpp).    *)
THEOREM AgreesWithoutBoxes ==
  FiltersAreCounted /\ Bounded /\ ~Dialogs => (Spec => [](DataInOrder /\ StatusAgrees))
<1> DEFINE All == IInv /\ Typed /\ PlainInv
<1>1. CASE FiltersAreCounted /\ Bounded /\ ~Dialogs
  <2>1. Init => All
    BY <1>1, InitIInv, InitTyped, InitPlain
  <2>2. All /\ [Next]_vars => All'
    BY <1>1, NextIInv, NextTyped, NextPlain
  <2>3. All => DataInOrder /\ StatusAgrees
    BY PlainAgrees
  <2> QED BY <2>1, <2>2, <2>3, PTL DEF Spec
<1> QED BY <1>1
==============================================================================
