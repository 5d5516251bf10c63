-------------------------- MODULE TtyInflux_proofs --------------------------
(***************************************************************************)
(* What the forwarder promises for every size of messages, requests and    *)
(* buffers: what TtyInflux takes off the publisher's stream, and what      *)
(* InfluxForwarder gives to InfluxDB.                                      *)
(***************************************************************************)
EXTENDS TtyInflux, FeedLemmas

LEMMA Constants ==
    /\ Fds \subseteq Nat /\ -1 \notin Fds
    /\ Units \in Nat \ {0} /\ SockCap \in Nat \ {0} /\ MaxReqs \in Nat
  BY ForwarderAssumption

-----------------------------------------------------------------------------
(* The forwarder's invariant.                                              *)

\* What poll said is only used on the socket it was said of, and connect_isck
\* only changes the socket when none was polled.
PolledInv ==
    pc \in {"connect", "recv", "msg", "in", "out"} /\ polled # -1 => polled = isck

\* A connection starts with an empty queue.
QueueInv == isck = -1 /\ pc \in {"poll", "connect"} => queue = <<>>

\* What this connection was given is what Feed promises, and the queue is
\* what it still lacks.  At the very end main frees the queue.
StreamInv ==
    /\ IsText(Units, joinAt, stream)
    /\ isck # -1 /\ pc # "exit" => Lags(Units, joinAt, published, stream, queue)

FInv == TypeOK /\ PolledInv /\ QueueInv /\ StreamInv

LEMMA FInvInit == Init => FInv
  <1> SUFFICES ASSUME Init PROVE FInv
    OBVIOUS
  <1>1. published \in 0 .. MaxReqs /\ joinAt \in 0 .. MaxReqs /\ inflight \in 0 .. SockCap
    BY Constants DEF Init
  <1>2. TypeOK
    <2>1. queue \in Seq([msg : Nat, sent : 0 .. Units - 1]) /\ stream \in Seq(Nat \X Nat)
      BY DEF Init
    <2>2. isck = -1 /\ polled = -1 /\ link = "none" /\ pc = "poll" /\ revents = {}
      BY DEF Init
    <2>3. connecting \in BOOLEAN /\ ~connecting /\ answer \in BOOLEAN
      BY DEF Init
    <2> QED
      BY <1>1, <2>1, <2>2, <2>3 DEF TypeOK
  <1>3. StreamInv
    <2>1. IsText(Units, 0, <<>>)
      BY DEF IsText
    <2> QED
      BY <2>1 DEF StreamInv, Init
  <1> QED
    BY <1>2, <1>3 DEF FInv, Init, PolledInv, QueueInv

\* The queue as FeedLemmas has it.
LEMMA QueueType == TypeOK => queue \in Seq(Item(Units))
  BY DEF TypeOK, Item

\* What a send of n pieces does.
LEMMA OutEffect ==
    ASSUME FInv, IsckOut
    PROVE  /\ queue # <<>> /\ isck # -1 /\ pc = "out" /\ pc' = "end"
           /\ Lags(Units, joinAt, published, stream, queue)
           /\ \E n \in 1 .. Units - Head(queue).sent :
                /\ queue' = Unsent(Units, queue, n)
                /\ stream' = Sent(stream, queue, n)
                /\ inflight' = (IF link = "up" THEN inflight + n ELSE inflight)
                /\ link = "up" => n <= SockCap - inflight
  <1>1. queue # <<>> /\ pc = "out" /\ pc' = "end" /\ isck # -1
    BY DEF IsckOut, CanSend, FInv, PolledInv
  <1>2. Lags(Units, joinAt, published, stream, queue)
    BY <1>1 DEF FInv, StreamInv
  <1>3. PICK n \in 1 .. Units - Head(queue).sent :
          /\ n <= (IF link = "up" THEN SockCap - inflight ELSE Units)
          /\ queue' = (IF Head(queue).sent + n = Units THEN Tail(queue)
                       ELSE <<[Head(queue) EXCEPT !.sent = @ + n]>> \o Tail(queue))
          /\ stream' = stream \o
                 [k \in 1 .. n |-> <<Head(queue).msg, Head(queue).sent + k - 1>>]
          /\ inflight' = IF link = "up" THEN inflight + n ELSE inflight
    BY DEF IsckOut
  <1>4. Head(queue).sent + n = Units <=> Head(queue).sent + n >= Units
    <2>1. Head(queue) \in Item(Units)
      BY <1>1, QueueType DEF FInv
    <2>2. Head(queue).sent \in Nat
      BY <2>1 DEF Item
    <2> QED
      BY <2>2, Constants
  <1>5. queue' = Unsent(Units, queue, n)
    BY <1>3, <1>4 DEF Unsent
  <1>6. stream' = Sent(stream, queue, n)
    BY <1>3 DEF Sent
  <1> QED
    BY <1>1, <1>2, <1>3, <1>5, <1>6

LEMMA FTypeStep == FInv /\ [Next]_vars => TypeOK'
  <1> SUFFICES ASSUME FInv, [Next]_vars PROVE TypeOK'
    OBVIOUS
  <1> USE Constants
  <1> TypeOK /\ PolledInv
    BY DEF FInv
  <1>1. CASE PollCsck \/ PollIsck \/ PollHup \/ PollTerm
    <2>1. PICK next \in {"connect", "in", "final"} : PollReturns(next)
      BY <1>1 DEF PollCsck, PollIsck, PollHup, PollTerm
    <2>2. Returned \subseteq {"IN", "OUT"}
      BY DEF Returned, Wants
    <2> QED
      BY <2>1, <2>2 DEF PollReturns, TypeOK, local, server, history
  <1>2. CASE ConnectOk
    <2>1. /\ isck' \in Fds /\ connecting' = TRUE /\ link' \in {"syn", "up"}
          /\ answer' = FALSE /\ UNCHANGED <<queue, table, published>> /\ pc' = "recv"
          /\ inflight' = 0 /\ joinAt' = published /\ stream' = <<>>
      BY <1>2 DEF ConnectOk
    <2>2. inflight' \in 0 .. SockCap /\ joinAt' \in 0 .. MaxReqs
          /\ published' \in 0 .. MaxReqs
      BY <2>1 DEF TypeOK
    <2>3. isck' # -1 /\ link' # "none" /\ isck' \in Fds \cup {-1}
          /\ link' \in {"none", "syn", "up", "gone"}
      BY <2>1
    <2>4. queue' \in Seq([msg : Nat, sent : 0 .. Units - 1]) /\ stream' \in Seq(Nat \X Nat)
      BY <2>1 DEF TypeOK
    <2>5. polled' \in Fds \cup {-1} /\ revents' \subseteq {"IN", "OUT"}
      BY <2>1 DEF TypeOK, table
    <2>6. connecting' \in BOOLEAN /\ answer' \in BOOLEAN
      BY <2>1
    <2> QED
      BY <2>1, <2>2, <2>3, <2>4, <2>5, <2>6 DEF TypeOK
  <1>3. CASE MakeRequest
    <2>1. published \in Nat /\ published' = published + 1 /\ published' \in 0 .. MaxReqs
      BY <1>3 DEF MakeRequest, TypeOK
    <2>2. [msg |-> published', sent |-> 0] \in [msg : Nat, sent : 0 .. Units - 1]
      BY <2>1
    <2>3. queue' \in Seq([msg : Nat, sent : 0 .. Units - 1])
      <3> DEFINE m == [msg |-> published', sent |-> 0]
      <3> HIDE DEF m
      <3>1. queue' = Append(queue, m)
        BY <1>3 DEF MakeRequest, m
      <3> QED
        BY <2>2, <3>1 DEF TypeOK, m
    <2>4. UNCHANGED <<pc, isck, connecting, table, server, joinAt, stream>>
      BY <1>3 DEF MakeRequest
    <2> QED
      BY <2>1, <2>3, <2>4 DEF TypeOK, table, server
  <1>4. CASE IsckIn
    BY <1>4 DEF IsckIn, TypeOK, local, table, history
  <1>5. CASE IsckInFail
    <2>1. inflight' \in 0 .. SockCap
      BY <1>5 DEF IsckInFail, Closed
    <2> QED
      BY <1>5, <2>1 DEF IsckInFail, Closed, Forget, TypeOK, history
  <1>6. CASE IsckOut
    <2>1. PICK n \in 1 .. Units - Head(queue).sent :
                /\ queue' = Unsent(Units, queue, n)
                /\ stream' = Sent(stream, queue, n)
                /\ inflight' = (IF link = "up" THEN inflight + n ELSE inflight)
                /\ link = "up" => n <= SockCap - inflight
      BY <1>6, OutEffect
    <2>2. /\ queue \in Seq(Item(Units)) /\ queue # <<>> /\ Head(queue) \in Item(Units)
          /\ Lags(Units, joinAt, published, stream, queue)
          /\ IsText(Units, joinAt, stream) /\ stream \in Seq(Nat \X Nat)
          /\ joinAt \in Nat /\ published \in Nat
      BY <1>6, OutEffect, QueueType, SMTT(30) DEF FInv, StreamInv, TypeOK
    <2>3. queue' \in Seq([msg : Nat, sent : 0 .. Units - 1])
      BY <2>1, <2>2, UnsentType DEF Item
    <2>4. stream' \in Seq(Nat \X Nat)
      BY <2>1, <2>2, LagsSend, Zenon
    <2>5. n \in Nat \ {0} /\ inflight \in 0 .. SockCap
      BY <2>2 DEF Item, TypeOK
    <2>6. inflight' \in 0 .. SockCap
      BY <2>1, <2>5
    <2>7. /\ pc' = "end" /\ connecting' = FALSE
          /\ UNCHANGED <<isck, table, link, answer, published, joinAt>>
      BY <1>6 DEF IsckOut
    <2> QED
      BY <2>3, <2>4, <2>6, <2>7 DEF TypeOK, table
  <1>7. CASE IsckOutFail
    <2>1. inflight' \in 0 .. SockCap
      BY <1>7 DEF IsckOutFail, Closed
    <2> QED
      BY <1>7, <2>1 DEF IsckOutFail, Closed, TypeOK, table, history
  <1>8. CASE IsckOutNothing
    BY <1>8 DEF IsckOutNothing, TypeOK, table, server, history
  <1>9. CASE LoopEnd \/ Final
    <2>1. queue' \in Seq([msg : Nat, sent : 0 .. Units - 1])
      <3>1. queue' = queue \/ queue' = <<>>
        BY <1>9 DEF LoopEnd, Final
      <3>2. queue \in Seq([msg : Nat, sent : 0 .. Units - 1])
        BY DEF TypeOK
      <3>3. \A S : <<>> \in Seq(S)
        OBVIOUS
      <3> QED
        BY <3>1, <3>2, <3>3, Zenon
    <2>2. /\ pc' \in {"poll", "exit"}
          /\ UNCHANGED <<isck, connecting, table, server, history>>
      BY <1>9 DEF LoopEnd, Final
    <2> QED
      BY <2>1, <2>2 DEF TypeOK, table, server, history
  <1>10. CASE Resolve \/ Lost \/ Answer
    BY <1>10 DEF Resolve, Lost, Answer, TypeOK, local, table, history
  <1>11. CASE Take
    <2>1. inflight' \in 0 .. SockCap
      BY <1>11 DEF Take, TypeOK
    <2> QED
      BY <1>11, <2>1 DEF Take, TypeOK, local, table, history
  <1>12. CASE /\ pc' \in {"recv", "in", "msg", "final", "out", "end"}
              /\ UNCHANGED <<local, table, server, history>>
    BY <1>12 DEF TypeOK, local, table, server, history
  <1>13. CASE UNCHANGED vars
    BY <1>13 DEF TypeOK, vars, local, table, server, history
  <1>14. CASE Connected \/ ConnectFail \/ RecvPart \/ RecvMsg \/ RecvFail \/ MsgDone
              \/ MsgBad \/ IsckNoIn \/ IsckNoOut
    BY <1>12, <1>14 DEF Connected, ConnectFail, RecvPart, RecvMsg, RecvFail,
                        MsgDone, MsgBad, IsckNoIn, IsckNoOut
  <1> QED
    BY <1>1, <1>2, <1>3, <1>4, <1>5, <1>6, <1>7, <1>8, <1>9, <1>10, <1>11,
       <1>13, <1>14 DEF Next, CsckCanRecv, Isck, World, Stopped

\* The socket and the queue, step by step.
LEMMA FPolledStep == FInv /\ [Next]_vars => PolledInv' /\ QueueInv'
  <1> SUFFICES ASSUME FInv, [Next]_vars PROVE PolledInv' /\ QueueInv'
    OBVIOUS
  <1> USE DEF PolledInv, QueueInv
  <1> TypeOK /\ PolledInv /\ QueueInv
    BY DEF FInv
  <1>1. CASE PollCsck \/ PollIsck \/ PollHup \/ PollTerm
    BY <1>1 DEF PollCsck, PollIsck, PollHup, PollTerm, PollReturns, local
  <1>2. CASE CsckCanRecv
    BY <1>2 DEF CsckCanRecv, Connected, ConnectOk, ConnectFail, RecvPart, RecvMsg,
                RecvFail, MakeRequest, MsgDone, MsgBad, local, table
  <1>3. CASE IsckIn \/ IsckInFail \/ IsckNoIn
    BY <1>3 DEF IsckIn, IsckInFail, IsckNoIn, Forget, CanRecv, local, table
  <1>4. CASE IsckOut \/ IsckOutFail \/ IsckOutNothing \/ IsckNoOut
    BY <1>4 DEF IsckOut, IsckOutFail, IsckOutNothing, IsckNoOut
  <1>5. CASE LoopEnd \/ Final
    BY <1>5 DEF LoopEnd, Final
  <1>6. CASE World \/ UNCHANGED vars
    BY <1>6 DEF World, Resolve, Lost, Take, Answer, vars, local, table
  <1> QED
    BY <1>1, <1>2, <1>3, <1>5, <1>6, <1>4 DEF Next, Isck, Stopped

\* What InfluxDB has been given, step by step.
LEMMA FStreamStep == FInv /\ [Next]_vars => StreamInv'
  <1> SUFFICES ASSUME FInv, [Next]_vars PROVE StreamInv'
    OBVIOUS
  <1> USE Constants
  <1> TypeOK /\ PolledInv /\ QueueInv /\ StreamInv
    BY DEF FInv
  <1>1. CASE /\ UNCHANGED <<queue, published, joinAt, stream>>
             /\ isck' \in {isck, -1} /\ (pc = "exit" => pc' = "exit")
    BY <1>1 DEF StreamInv
  <1>2. CASE ConnectOk
    <2>1. /\ queue' = <<>> /\ joinAt' = published /\ stream' = <<>>
          /\ published' = published
      BY <1>2 DEF ConnectOk, QueueInv
    <2> QED
      BY <2>1, LagsJoin DEF StreamInv, TypeOK
  <1>3. CASE MakeRequest
    <2>1. /\ published' = published + 1 /\ UNCHANGED <<isck, joinAt, stream>>
          /\ queue' = Append(queue, [msg |-> published + 1, sent |-> 0])
          /\ pc = "msg" /\ pc' = "msg"
      BY <1>3 DEF MakeRequest
    <2>2. joinAt \in Nat /\ published \in Nat /\ queue \in Seq(Item(Units))
      BY QueueType DEF TypeOK
    <2>3. isck # -1 => Lags(Units, joinAt, published + 1, stream,
                            Append(queue, [msg |-> published + 1, sent |-> 0]))
      BY <2>1, <2>2, LagsPublish DEF StreamInv
    <2> QED
      BY <2>1, <2>3 DEF StreamInv
  <1>4. CASE IsckOut
    <2>1. PICK n \in 1 .. Units - Head(queue).sent :
                queue' = Unsent(Units, queue, n) /\ stream' = Sent(stream, queue, n)
      BY <1>4, OutEffect
    <2>2. /\ queue \in Seq(Item(Units)) /\ queue # <<>>
          /\ Lags(Units, joinAt, published, stream, queue)
          /\ IsText(Units, joinAt, stream) /\ stream \in Seq(Nat \X Nat)
          /\ joinAt \in Nat /\ published \in Nat
      BY <1>4, OutEffect, QueueType DEF StreamInv, TypeOK
    <2>3. /\ Lags(Units, joinAt, published, Sent(stream, queue, n), Unsent(Units, queue, n))
          /\ IsText(Units, joinAt, Sent(stream, queue, n))
      BY <2>2, LagsSend
    <2>4. UNCHANGED <<published, joinAt>>
      BY <1>4 DEF IsckOut
    <2> QED
      BY <2>1, <2>3, <2>4 DEF StreamInv
  <1>5. CASE LoopEnd
    BY <1>5 DEF LoopEnd, StreamInv, history
  <1>6. CASE Final
    BY <1>6 DEF Final, StreamInv, history
  <1>7. CASE PollCsck \/ PollIsck \/ PollHup \/ PollTerm
    BY <1>1, <1>7 DEF PollCsck, PollIsck, PollHup, PollTerm, PollReturns, local, history
  <1>8. CASE Connected \/ ConnectFail \/ RecvPart \/ RecvMsg \/ RecvFail \/ MsgDone
              \/ MsgBad
    BY <1>1, <1>8 DEF Connected, ConnectFail, RecvPart, RecvMsg, RecvFail,
                      MsgDone, MsgBad, local, history
  <1>9. CASE IsckNoIn \/ IsckNoOut \/ IsckIn
    BY <1>1, <1>9 DEF IsckNoIn, IsckNoOut, IsckIn, CanRecv, local, history
  <1>10. CASE IsckInFail \/ IsckOutFail \/ IsckOutNothing
    <2>1. isck' \in {isck, -1} /\ pc # "exit"
      BY <1>10 DEF IsckInFail, IsckOutFail, IsckOutNothing, Closed, CanRecv, CanSend
    <2>2. UNCHANGED <<queue, published, joinAt, stream>>
      BY <1>10 DEF IsckInFail, IsckOutFail, IsckOutNothing, history
    <2> QED
      BY <1>1, <2>1, <2>2
  <1>11. CASE World \/ UNCHANGED vars
    BY <1>1, <1>11 DEF World, Resolve, Lost, Take, Answer, vars, local, history
  <1> QED
    BY <1>2, <1>3, <1>4, <1>5, <1>6, <1>7, <1>8, <1>10, <1>11, <1>9
    DEF Next, CsckCanRecv, Isck, Stopped

LEMMA FInvStep == FInv /\ [Next]_vars => FInv'
  BY FTypeStep, FPolledStep, FStreamStep DEF FInv

-----------------------------------------------------------------------------
(* The refinement.  Here the only client of Feed is InfluxDB.               *)

\* A function with one argument, updated.
LEMMA OneClient ==
    ASSUME NEW a, NEW b
    PROVE  [[c \in {"influxdb"} |-> a] EXCEPT !["influxdb"] = b]
             = [c \in {"influxdb"} |-> b]
  OBVIOUS

LEMMA PromiseInit == Init => Promise!Init
  BY DEF Init, Promise!Init

\* A connection is made: InfluxDB joins.
LEMMA ConnectJoins == FInv /\ ConnectOk => Promise!Join("influxdb")
  <1> SUFFICES ASSUME FInv, ConnectOk PROVE Promise!Join("influxdb")
    OBVIOUS
  <1>1. isck = -1 /\ isck' # -1 /\ joinAt' = published /\ stream' = <<>>
        /\ published' = published
    BY Constants DEF ConnectOk
  <1>2. [c \in {"influxdb"} |-> joinAt']
          = [[c \in {"influxdb"} |-> joinAt] EXCEPT !["influxdb"] = published]
    BY <1>1, OneClient
  <1>3. [c \in {"influxdb"} |-> stream']
          = [[c \in {"influxdb"} |-> stream] EXCEPT !["influxdb"] = <<>>]
    BY <1>1, OneClient
  <1> QED
    BY <1>1, <1>2, <1>3 DEF Promise!Join

\* Pieces of the head are sent: InfluxDB gets the next pieces it is due.
LEMMA OutDelivers == FInv /\ IsckOut => Promise!Deliver("influxdb")
  <1> SUFFICES ASSUME FInv, IsckOut PROVE Promise!Deliver("influxdb")
    OBVIOUS
  <1> USE Constants
  <1>1. PICK n \in 1 .. Units - Head(queue).sent : stream' = Sent(stream, queue, n)
    BY OutEffect
  <1>2. /\ queue \in Seq(Item(Units)) /\ queue # <<>> /\ isck # -1
        /\ Lags(Units, joinAt, published, stream, queue)
        /\ IsText(Units, joinAt, stream) /\ stream \in Seq(Nat \X Nat)
        /\ joinAt \in Nat /\ published \in Nat
    BY OutEffect, QueueType DEF FInv, StreamInv, TypeOK
  <1>3. UNCHANGED <<isck, published, joinAt>>
    BY DEF IsckOut
  <1> DEFINE more == Sent(stream, queue, n)
             due == Units * (published - joinAt)
  <1>4. Units \in Nat \ {0} /\ n \in 1 .. Units - Head(queue).sent
    OBVIOUS
  <1> HIDE DEF more, due
  <1>5. more \in Seq(Nat \X Nat)
    BY <1>2, <1>4, LagsSend, Zenon DEF more
  <1>6. Len(more) = Len(stream) + n
    BY <1>2, <1>4, LagsSend DEF more
  <1>7. IsText(Units, joinAt, more)
    BY <1>2, <1>4, LagsSend DEF more
  <1>8. n \in 1 .. due - Len(stream)
    <2>1. n \in 1 .. Units * (published - joinAt) - Len(stream)
      BY <1>2, <1>4, LagsSend
    <2> QED
      BY <2>1 DEF due
  <1>9. due \in Nat
    <2>1. published - joinAt \in Nat
      BY <1>2 DEF Lags
    <2> QED
      BY <2>1, MulFacts DEF due
  <1>10. more = SubSeq(Promise!Text(joinAt, published), 1, Len(stream) + n)
    <2>1. Promise!Text(joinAt, published)
            = [m \in 1 .. due |-> <<joinAt + 1 + (m - 1) \div Units, (m - 1) % Units>>]
      BY DEF Promise!Text, due
    <2>2. Len(more) <= due
      BY <1>2, <1>6, <1>8, <1>9
    <2>3. more = SubSeq([m \in 1 .. due |->
                <<joinAt + 1 + (m - 1) \div Units, (m - 1) % Units>>], 1, Len(more))
      BY <1>2, <1>5, <1>7, <1>9, <2>2, TextPrefix
    <2> QED
      BY <1>6, <2>1, <2>3
  <1> DEFINE s == [c \in {"influxdb"} |-> stream]
             a == [c \in {"influxdb"} |-> joinAt]
  <1>11. s["influxdb"] = stream /\ a["influxdb"] = joinAt
    OBVIOUS
  <1>12. [c \in {"influxdb"} |-> stream'] = [s EXCEPT !["influxdb"] = more]
    BY <1>1, OneClient DEF more
  <1>13. n \in 1 .. Promise!Behind("influxdb")
    BY <1>8, <1>11 DEF Promise!Behind, due
  <1>14. [c \in {"influxdb"} |-> stream'] = [s EXCEPT !["influxdb"] =
            SubSeq(Promise!Text(a["influxdb"], published), 1, Len(@) + n)]
    BY <1>10, <1>11, <1>12
  <1> QED
    BY <1>2, <1>3, <1>13, <1>14 DEF Promise!Deliver

\* Everything else is a request made, InfluxDB leaving, or nothing to Feed.
LEMMA PromiseStep == FInv /\ [Next]_vars => [Promise!Next]_(Promise!vars)
  <1> SUFFICES ASSUME FInv, [Next]_vars PROVE Promise!Next \/ UNCHANGED Promise!vars
    OBVIOUS
  <1>1. CASE /\ UNCHANGED <<published, joinAt, stream>>
             /\ isck' \in {isck, -1}
    <2>1. CASE isck' = isck
      BY <1>1, <2>1 DEF Promise!vars
    <2>2. CASE isck' # isck
      <3>1. isck' = -1 /\ isck # -1
        BY <1>1, <2>2
      <3>2. Promise!Leave({"influxdb"})
        BY <1>1, <3>1 DEF Promise!Leave
      <3> QED
        BY <3>1, <3>2 DEF Promise!Next
    <2> QED
      BY <2>1, <2>2
  <1>2. CASE ConnectOk
    BY <1>2, ConnectJoins DEF Promise!Next
  <1>3. CASE MakeRequest
    BY <1>3 DEF MakeRequest, Promise!Publish, Promise!Next
  <1>4. CASE IsckOut
    BY <1>4, OutDelivers DEF Promise!Next
  <1>5. CASE LoopEnd \/ Final
    BY <1>1, <1>5 DEF LoopEnd, Final, history
  <1>6. CASE PollCsck \/ PollIsck \/ PollHup \/ PollTerm
    BY <1>1, <1>6 DEF PollCsck, PollIsck, PollHup, PollTerm, PollReturns, local, history
  <1>7. CASE Connected \/ ConnectFail \/ RecvPart \/ RecvMsg \/ RecvFail \/ MsgDone
              \/ MsgBad
    BY <1>1, <1>7 DEF Connected, ConnectFail, RecvPart, RecvMsg, RecvFail,
                      MsgDone, MsgBad, local, history
  <1>8. CASE IsckNoIn \/ IsckNoOut \/ IsckIn
    BY <1>1, <1>8 DEF IsckNoIn, IsckNoOut, IsckIn, local, history
  <1>9. CASE IsckInFail \/ IsckOutFail \/ IsckOutNothing
    BY <1>1, <1>9 DEF IsckInFail, IsckOutFail, IsckOutNothing, Closed, history
  <1>10. CASE World \/ UNCHANGED vars
    BY <1>1, <1>10 DEF World, Resolve, Lost, Take, Answer, vars, local, history
  <1> QED
    BY <1>2, <1>3, <1>4, <1>5, <1>6, <1>7, <1>8, <1>9, <1>10
    DEF Next, CsckCanRecv, Isck, Stopped

-----------------------------------------------------------------------------
(* The forwarder in the program: each step of TtyInflux is one of the       *)
(* forwarder, or leaves it alone.                                           *)

\* A step of the reader and the forwarder is a step of the forwarder, or none.
LEMMA TtyStep == [TtyNext]_all => [Next]_vars
  BY DEF TtyNext, TtyPollCsck, TtyPollHup, Receive, TtyRecvPart, TtyRecvMsg,
         TtyRecvFail, Rest, Next, CsckCanRecv, all

LEMMA TtyRefines == TtySpec => Spec
  <1>1. TtyInit => Init
    BY DEF TtyInit
  <1> QED
    BY <1>1, TtyStep, PTL DEF TtySpec, Spec

LEMMA FInvariant == TtySpec => []FInv
  BY TtyRefines, FInvInit, FInvStep, PTL DEF Spec

\* The forwarder's variables keep their types; above all, no more pieces are in
\* the kernel's buffer than it holds, and only the part of a request that is
\* still to be sent is ever queued (tty_reader_influx.zig, send_head).
THEOREM ForwarderTypes == TtySpec => []TypeOK
  BY FInvariant, PTL DEF FInv

\* When isck_can_recv or isck_can_send looks at what poll said, isck is the
\* socket it was said of: although connect_isck runs in between, and
\* isck_can_recv may close it (main_loop, isck_index).
THEOREM PolledCurrent == TtySpec => []PolledIsCurrent
  <1>1. FInv => PolledIsCurrent
    BY DEF FInv, PolledInv, PolledIsCurrent
  <1> QED
    BY <1>1, FInvariant, PTL

\* The refinement, for every number of pieces and requests: on each connection
\* InfluxDB is sent the requests made since it was there, whole, in order, each
\* once, whatever was half sent when the connection before it went.
THEOREM ForwarderImplementsFeed == TtySpec => RequestsSpec
  <1>1. Spec => Promise!Init /\ [][Promise!Next]_(Promise!vars)
    BY FInvInit, FInvStep, PromiseInit, PromiseStep, PTL DEF Spec
  <1> QED
    BY <1>1, TtyRefines DEF RequestsSpec, Promise!Spec

-----------------------------------------------------------------------------
(* The bytes the reader may receive.                                        *)

\* BytesAfter, whose equation has a solution: each prefix of it is built from
\* the one before.
More(n, s) ==
    Append(s, Reader!NextByte(IF n = 1 THEN <<lastMsg, lastByte>> ELSE s[n - 1]))

\* BytesAfter is the function its recursive definition describes.
LEMMA BytesAfterDef ==
    /\ Reader!BytesAfter[0] = <<>>
    /\ \A n \in Nat : Reader!BytesAfter[n + 1] = More(n + 1, Reader!BytesAfter[n])
  <1> DEFINE value(n, f) == IF n = 0 THEN <<>> ELSE More(n, f[n - 1])
             Upto(n, f) == f = [k \in 0 .. n |-> value(k, f)]
  <1>1. ASSUME NEW n \in Nat, NEW f, NEW g, Upto(n, f), NEW m \in Nat, n <= m, Upto(m, g)
        PROVE  \A k \in 0 .. n : f[k] = g[k]
    <2> DEFINE T == {k \in 0 .. n : f[k] # g[k]}
    <2> SUFFICES ASSUME T # {} PROVE FALSE
      OBVIOUS
    <2>1. T \subseteq Nat
      OBVIOUS
    <2>2. PICK k \in T : \A j \in T : k <= j
      <3> HIDE DEF T
      <3> QED
        BY <2>1, NatLeast
    <2>3. /\ f[k] = IF k = 0 THEN <<>> ELSE More(k, f[k - 1])
          /\ g[k] = IF k = 0 THEN <<>> ELSE More(k, g[k - 1])
      <3>1. k \in 0 .. n /\ k \in 0 .. m
        BY <1>1
      <3>2. f = [j \in 0 .. n |-> value(j, f)] /\ g = [j \in 0 .. m |-> value(j, g)]
        BY <1>1
      <3> QED
        BY <3>1, <3>2
    <2>4. k # 0 => f[k - 1] = g[k - 1]
      BY <2>2
    <2> QED
      BY <2>2, <2>3, <2>4
  <1>2. \A n \in Nat : \E f : Upto(n, f)
    <2> DEFINE T == {n \in Nat : ~ \E f : Upto(n, f)}
    <2> SUFFICES ASSUME T # {} PROVE FALSE
      OBVIOUS
    <2>1. PICK n \in T : \A j \in T : n <= j
      BY NatLeast
    <2>2. CASE n = 0
      <3>1. Upto(0, [k \in 0 .. 0 |-> <<>>])
        OBVIOUS
      <3> QED
        BY <2>1, <2>2, <3>1
    <2>3. CASE n # 0
      <3>1. n \in Nat /\ n - 1 \in Nat /\ n - 1 \notin T
        <4>1. n \in Nat /\ n - 1 \in Nat
          BY <2>1, <2>3
        <4> HIDE DEF T
        <4> QED
          BY <2>1, <4>1
      <3>2. PICK f : Upto(n - 1, f)
        BY <3>1
      <3> DEFINE g == [k \in 0 .. n |-> IF k = n THEN More(n, f[n - 1]) ELSE f[k]]
      <3>3. \A k \in 0 .. n - 1 : f[k] = value(k, f) /\ g[k] = f[k]
        <4>1. f = [k \in 0 .. n - 1 |-> value(k, f)]
          BY <3>2
        <4> HIDE DEF value
        <4> QED
          BY <3>1, <4>1, SMTT(30)
      <3>4. \A k \in 0 .. n : g[k] = value(k, g)
        <4> TAKE k \in 0 .. n
        <4>1. CASE k = 0
          <5>1. 0 \in 0 .. n - 1 /\ 0 \in 0 .. n /\ 0 # n
            BY <2>3, <3>1
          <5>2. g[0] = f[0] /\ f[0] = <<>>
            BY <3>3, <5>1
          <5> QED
            BY <4>1, <5>2
        <4>2. CASE k \in 1 .. n - 1
          <5>1. k \in 0 .. n - 1 /\ k - 1 \in 0 .. n - 1 /\ k # 0
            BY <3>1, <4>2
          <5>2. g[k] = More(k, f[k - 1]) /\ g[k - 1] = f[k - 1]
            BY <3>3, <5>1
          <5> QED
            BY <5>1, <5>2
        <4>3. CASE k = n
          <5>1. n - 1 \in 0 .. n - 1 /\ n \in 0 .. n
            BY <3>1
          <5>2. g[n] = More(n, f[n - 1]) /\ g[n - 1] = f[n - 1]
            BY <3>3, <5>1
          <5> QED
            BY <2>3, <4>3, <5>2
        <4> QED
          BY <3>1, <4>1, <4>2, <4>3
      <3>5. Upto(n, g)
        <4>1. g = [k \in 0 .. n |-> g[k]]
          OBVIOUS
        <4> HIDE DEF g, value
        <4> QED
          BY <3>4, <4>1
      <3> QED
        BY <2>1, <3>5
    <2> QED
      BY <2>2, <2>3
  <1> DEFINE best(n) == CHOOSE f : Upto(n, f)
             part(n) == best(n)[n]
             whole == [n \in Nat |-> part(n)]
  <1>3. \A n \in Nat : Upto(n, best(n))
    BY <1>2
  <1>4. ASSUME NEW n \in Nat
        PROVE  whole[n] = value(n, whole)
    <2>1. best(n) = [k \in 0 .. n |-> value(k, best(n))]
      BY <1>3
    <2> HIDE DEF best
    <2>2. best(n)[n] = IF n = 0 THEN <<>> ELSE More(n, best(n)[n - 1])
      <3>1. n \in 0 .. n
        OBVIOUS
      <3> QED
        BY <2>1, <3>1
    <2>3. ASSUME n # 0 PROVE best(n)[n - 1] = best(n - 1)[n - 1]
      <3>1. n - 1 \in Nat /\ n - 1 <= n /\ n - 1 \in 0 .. n - 1
        BY <2>3
      <3> HIDE DEF Upto
      <3>2. Upto(n, best(n)) /\ Upto(n - 1, best(n - 1))
        BY <1>3, <3>1
      <3> QED
        BY <1>1, <3>1, <3>2
    <2>4. whole[n] = best(n)[n] /\ (n # 0 => whole[n - 1] = best(n - 1)[n - 1])
      OBVIOUS
    <2> HIDE DEF whole
    <2> QED
      BY <2>2, <2>3, <2>4
  <1>5. whole = [n \in Nat |-> value(n, whole)]
    <2>1. whole = [n \in Nat |-> whole[n]]
      OBVIOUS
    <2> HIDE DEF whole, value
    <2> QED
      BY <1>4, <2>1
  <1> HIDE DEF whole
  <1>6. Reader!BytesAfter = [n \in Nat |-> IF n = 0 THEN <<>>
                                           ELSE More(n, Reader!BytesAfter[n - 1])]
    BY <1>5 DEF Reader!BytesAfter, More
  <1>7. \A n \in Nat : n + 1 \in Nat /\ n + 1 # 0 /\ (n + 1) - 1 = n
    OBVIOUS
  <1> QED
    BY <1>6, <1>7

\* The bytes that come next when NextByte counts on from each of b to the next.
LEMMA BytesCount ==
    ASSUME NEW b \in Seq(Nat \X Nat), b # <<>>,
           Reader!NextByte(<<lastMsg, lastByte>>) = b[1],
           \A k \in 1 .. Len(b) - 1 : Reader!NextByte(b[k]) = b[k + 1]
    PROVE  \A n \in 0 .. Len(b) : Reader!BytesAfter[n] = SubSeq(b, 1, n)
  <1> DEFINE T == {n \in 0 .. Len(b) : Reader!BytesAfter[n] # SubSeq(b, 1, n)}
  <1> SUFFICES ASSUME T # {} PROVE FALSE
    OBVIOUS
  <1>1. T \subseteq Nat
    OBVIOUS
  <1>2. PICK m \in T : \A j \in T : m <= j
    <2> HIDE DEF T
    <2> QED
      BY <1>1, NatLeast
  <1>3. m # 0
    <2>1. SubSeq(b, 1, 0) = <<>>
      OBVIOUS
    <2> QED
      BY <1>2, <2>1, BytesAfterDef
  <1>4. PICK n \in Nat : n + 1 = m /\ m \in 1 .. Len(b) /\ n \in 0 .. Len(b) /\ n \notin T
    <2>1. m \in 0 .. Len(b) /\ Len(b) \in Nat
      BY <1>2
    <2>2. m - 1 \in Nat /\ m \in 1 .. Len(b) /\ m - 1 \in 0 .. Len(b) /\ (m - 1) + 1 = m
      BY <1>3, <2>1
    <2>3. m - 1 \notin T
      <3> HIDE DEF T
      <3> QED
        BY <1>2, <2>2
    <2> HIDE DEF T
    <2> QED
      BY <2>2, <2>3
  <1> DEFINE s == SubSeq(b, 1, n)
  <1>5. Reader!BytesAfter[n] = s
    BY <1>4
  <1> HIDE DEF T
  <1>6. Reader!NextByte(IF m = 1 THEN <<lastMsg, lastByte>> ELSE s[m - 1]) = b[m]
    <2>1. CASE m = 1
      BY <2>1
    <2>2. CASE m # 1
      <3>1. n \in 1 .. Len(b) - 1 /\ m - 1 = n
        BY <1>4, <2>2
      <3>2. s[n] = b[n]
        BY <3>1
      <3> QED
        BY <1>4, <2>2, <3>1, <3>2
    <2> QED
      BY <2>1, <2>2
  <1>7. Reader!BytesAfter[m] = Append(s, b[m])
    <2>1. Reader!BytesAfter[n + 1] = More(n + 1, Reader!BytesAfter[n])
      BY <1>4, BytesAfterDef
    <2> QED
      BY <1>4, <1>5, <1>6, <2>1 DEF More
  <1>8. Append(s, b[m]) = SubSeq(b, 1, m)
    BY <1>4, SMTT(30)
  <1> QED
    BY <1>2, <1>7, <1>8 DEF T
-----------------------------------------------------------------------------
(* The reader's invariant.                                                  *)

LEMMA Sizes ==
    /\ Len(SizeOf) \in Nat /\ Reader!Messages = 1 .. Len(SizeOf)
    /\ \A m \in Reader!Messages : SizeOf[m] \in Nat /\ SizeOf[m] > 4
  <1>1. SizeOf \in Seq({n \in Nat : n > 4})
    BY TtyAssumption
  <1>2. \A m \in 1 .. Len(SizeOf) : SizeOf[m] \in {n \in Nat : n > 4}
    BY <1>1
  <1> QED
    BY <1>1, <1>2 DEF Reader!Messages

\* The first k bytes of message m.
Part(m, k) == [j \in 1 .. k |-> <<m, j>>]

LEMMA PartFacts ==
    ASSUME NEW m \in Reader!Messages
    PROVE  /\ Reader!Whole(m) = Part(m, SizeOf[m])
           /\ \A k \in 0 .. SizeOf[m] : SubSeq(Reader!Whole(m), 1, k) = Part(m, k)
           /\ \A k \in 0 .. SizeOf[m] :
                Len(Part(m, k)) = k /\ Part(m, k) \in Seq(Nat \X Nat)
  <1>1. SizeOf[m] \in Nat /\ m \in Nat
    BY Sizes
  <1>2. Reader!Whole(m) = Part(m, SizeOf[m])
    BY DEF Reader!Whole, Part
  <1>3. ASSUME NEW k \in 0 .. SizeOf[m]
        PROVE  /\ SubSeq(Part(m, SizeOf[m]), 1, k) = Part(m, k)
               /\ Len(Part(m, k)) = k /\ Part(m, k) \in Seq(Nat \X Nat)
    BY <1>1 DEF Part
  <1> QED
    BY <1>2, <1>3

\* In the middle of message m, or before it, the next bytes are the next of m.
LEMMA NextOfMessage ==
    ASSUME NEW m \in Reader!Messages, NEW o \in 0 .. SizeOf[m] - 1,
           NEW n \in 1 .. SizeOf[m] - o,
           \/ o > 0 /\ lastMsg = m /\ lastByte = o
           \/ o = 0 /\ lastMsg = 0 /\ lastByte = 0 /\ m = 1
           \/ /\ o = 0 /\ lastMsg \in Reader!Messages /\ lastByte = SizeOf[lastMsg]
              /\ m = lastMsg + 1
    PROVE  /\ Part(m, o) \o Reader!BytesAfter[n] = Part(m, o + n)
           /\ Reader!BytesAfter[n][n] = <<m, o + n>>
  <1> DEFINE b == [k \in 1 .. SizeOf[m] - o |-> <<m, o + k>>]
  <1>1. SizeOf[m] \in Nat /\ m \in Nat /\ o \in Nat /\ n \in Nat \ {0}
    BY Sizes
  <1>2. b \in Seq(Nat \X Nat) /\ Len(b) = SizeOf[m] - o /\ b # <<>>
        /\ \A k \in 1 .. SizeOf[m] - o : b[k] = <<m, o + k>>
    <2> DEFINE len == SizeOf[m] - o
    <2>1. len \in Nat \ {0}
      BY <1>1
    <2>2. \A k \in 1 .. len : <<m, o + k>> \in Nat \X Nat
      BY <1>1, <2>1
    <2>3. b = [k \in 1 .. len |-> <<m, o + k>>]
      OBVIOUS
    <2> HIDE DEF len, b
    <2>4. \A k \in 1 .. len : b[k] = <<m, o + k>>
      BY <2>3, Zenon
    <2>5. b \in [1 .. len -> Nat \X Nat]
      BY <2>2, <2>3, Zenon
    <2>6. b \in Seq(Nat \X Nat) /\ Len(b) = len /\ b # <<>>
      BY <2>1, <2>5, FunIsSeq
    <2> QED
      BY <2>4, <2>6 DEF len
  <1> HIDE DEF b
  <1>3. Reader!NextByte(<<lastMsg, lastByte>>) = b[1]
    <2>1. b[1] = <<m, o + 1>>
      BY <1>1, <1>2, SMTT(30)
    <2>2. 0 \notin Reader!Messages
      BY Sizes
    <2>3. CASE o > 0 /\ lastMsg = m /\ lastByte = o
      BY <1>1, <2>1, <2>3 DEF Reader!NextByte
    <2>4. CASE o = 0 /\ lastMsg = 0 /\ lastByte = 0 /\ m = 1
      BY <2>1, <2>2, <2>4 DEF Reader!NextByte
    <2>5. CASE /\ o = 0 /\ lastMsg \in Reader!Messages /\ lastByte = SizeOf[lastMsg]
               /\ m = lastMsg + 1
      BY <2>1, <2>5, Sizes DEF Reader!NextByte
    <2> QED
      BY <2>3, <2>4, <2>5
  <1>4. \A k \in 1 .. Len(b) - 1 : Reader!NextByte(b[k]) = b[k + 1]
    <2> TAKE k \in 1 .. Len(b) - 1
    <2>1. k \in Nat /\ k <= SizeOf[m] - o - 1 /\ k >= 1
      BY <1>1, <1>2
    <2>2. k \in 1 .. SizeOf[m] - o /\ k + 1 \in 1 .. SizeOf[m] - o /\ o + k < SizeOf[m]
          /\ o + (k + 1) = o + k + 1
      BY <1>1, <2>1
    <2>3. b[k] = <<m, o + k>> /\ b[k + 1] = <<m, o + k + 1>>
      BY <1>2, <2>2, Zenon
    <2> QED
      BY <2>2, <2>3 DEF Reader!NextByte
  <1>5. n \in 0 .. Len(b)
    BY <1>1, <1>2
  <1>6. Reader!BytesAfter[n] = SubSeq(b, 1, n)
    <2> QED
      BY <1>2, <1>3, <1>4, <1>5, BytesCount
  <1>7. SubSeq(b, 1, n) = [k \in 1 .. n |-> <<m, o + k>>]
    <2>1. \A k \in 1 .. n : k \in 1 .. SizeOf[m] - o
      BY <1>1
    <2>2. n <= Len(b)
      BY <1>1, <1>2
    <2>3. SubSeq(b, 1, n) = [k \in 1 .. n |-> b[k]]
      BY <1>1, <1>2, <2>2
    <2> QED
      BY <1>2, <2>1, <2>3
  <1>8. Part(m, o) \o [k \in 1 .. n |-> <<m, o + k>>] = Part(m, o + n)
    BY <1>1 DEF Part
  <1>9. [k \in 1 .. n |-> <<m, o + k>>][n] = <<m, o + n>>
    BY <1>1
  <1> QED
    BY <1>6, <1>7, <1>8, <1>9

\* After the last message no byte of a message comes.
LEMMA NextBeyond ==
    ASSUME NEW n \in Nat \ {0},
           \/ lastMsg = 0 /\ lastByte = 0 /\ Len(SizeOf) = 0
           \/ /\ lastMsg \in Reader!Messages /\ lastByte = SizeOf[lastMsg]
              /\ lastMsg = Len(SizeOf)
    PROVE  Reader!BytesAfter[n][n][1] \notin Reader!Messages
  <1> DEFINE b == [k \in 1 .. n |-> <<Len(SizeOf) + k, 1>>]
  <1>1. b \in Seq(Nat \X Nat) /\ Len(b) = n /\ b # <<>>
    BY Sizes
  <1>2. Reader!NextByte(<<lastMsg, lastByte>>) = b[1]
    <2>1. b[1] = <<Len(SizeOf) + 1, 1>>
      BY Sizes
    <2>2. 0 \notin Reader!Messages
      BY Sizes
    <2> HIDE DEF b
    <2> QED
      BY <2>1, <2>2, Sizes DEF Reader!NextByte
  <1>3. \A k \in 1 .. Len(b) - 1 : Reader!NextByte(b[k]) = b[k + 1]
    <2> TAKE k \in 1 .. Len(b) - 1
    <2>1. k \in 1 .. n /\ k + 1 \in 1 .. n /\ Len(SizeOf) + (k + 1) = Len(SizeOf) + k + 1
          /\ k \in Nat /\ k > 0
      BY <1>1, Sizes
    <2>2. b[k] = <<Len(SizeOf) + k, 1>> /\ b[k + 1] = <<Len(SizeOf) + k + 1, 1>>
      BY <2>1
    <2>3. Len(SizeOf) + k \notin Reader!Messages
      BY <2>1, Sizes
    <2> HIDE DEF b
    <2> QED
      BY <2>2, <2>3 DEF Reader!NextByte
  <1>4. Reader!BytesAfter[n] = SubSeq(b, 1, n)
    <2>1. n \in 0 .. Len(b)
      BY <1>1
    <2> HIDE DEF b
    <2> QED
      BY <1>1, <1>2, <1>3, <2>1, BytesCount
  <1>5. SubSeq(b, 1, n)[n] = <<Len(SizeOf) + n, 1>>
    OBVIOUS
  <1> QED
    BY <1>4, <1>5, Sizes

\* While the program runs, the reader is in step with the publisher: between
\* two messages, or with the part of one in buffer that the connection has
\* delivered, and with what its header says from the fourth byte on.
Between ==
    /\ buffer = <<>> /\ to_read = 4 /\ lastMsg = Len(processed)
    /\ \/ lastMsg = 0 /\ lastByte = 0
       \/ lastMsg \in Reader!Messages /\ lastByte = SizeOf[lastMsg]

Within ==
    /\ lastMsg \in Reader!Messages /\ lastMsg = Len(processed) + 1
    /\ lastByte \in 1 .. SizeOf[lastMsg] - 1
    /\ buffer = Part(lastMsg, lastByte)
    /\ to_read = IF lastByte < 4 THEN 4 ELSE SizeOf[lastMsg]
    /\ lastByte >= 4 => code = 0

Handed(k) == [i \in 1 .. k |-> <<0, Reader!Whole(i)>>]

RInv == /\ \E k \in 0 .. Len(SizeOf) : processed = Handed(k)
        /\ Running => Between \/ Within

LEMMA RInvInit == TtyInit => RInv
  <1> SUFFICES ASSUME TtyInit PROVE RInv
    OBVIOUS
  <1>1. processed = Handed(0) /\ 0 \in 0 .. Len(SizeOf)
    BY Sizes DEF TtyInit, Reader!Init, Handed
  <1>2. Between
    BY DEF TtyInit, Reader!Init, Between, Reader!Header
  <1> QED
    BY <1>1, <1>2 DEF RInv

\* What is received is the next part of a message.
LEMMA Receives ==
    ASSUME Between \/ Within, Len(processed) \in Nat,
           NEW n \in 1 .. Reader!Wanted, Reader!Received(n)
    PROVE  \E m \in Reader!Messages : \E o \in 0 .. SizeOf[m] - 1 :
              /\ m = Len(processed) + 1 /\ n \in 1 .. SizeOf[m] - o
              /\ to_read = IF o < 4 THEN 4 ELSE SizeOf[m]
              /\ o >= 4 => code = 0
              /\ Len(buffer) = o /\ n <= to_read - o
              /\ buffer \o Reader!BytesAfter[n] = Part(m, o + n)
              /\ lastMsg' = m /\ lastByte' = o + n
  <1> USE DEF Reader!Wanted, Reader!readed
  <1>1. /\ Reader!BytesAfter[n][n][1] \in Reader!Messages
        /\ lastMsg' = Reader!BytesAfter[n][n][1] /\ lastByte' = Reader!BytesAfter[n][n][2]
    BY DEF Reader!Received
  <1>2. CASE Between
    <2>1. buffer = <<>> /\ to_read = 4 /\ Len(buffer) = 0 /\ n \in 1 .. 4
          /\ lastMsg = Len(processed)
          /\ \/ lastMsg = 0 /\ lastByte = 0
             \/ lastMsg \in Reader!Messages /\ lastByte = SizeOf[lastMsg]
      BY <1>2 DEF Between
    <2>2. lastMsg + 1 \in Reader!Messages
      <3> SUFFICES ASSUME lastMsg + 1 \notin Reader!Messages PROVE FALSE
        OBVIOUS
      <3>1. lastMsg = Len(SizeOf)
        BY <2>1, Sizes
      <3> QED
        BY <1>1, <2>1, <3>1, NextBeyond
    <2> DEFINE m == lastMsg + 1
    <2>3. /\ SizeOf[m] \in Nat /\ SizeOf[m] > 4 /\ 0 \in 0 .. SizeOf[m] - 1
          /\ n \in 1 .. SizeOf[m] - 0
      BY <2>1, <2>2, Sizes
    <2>4. Part(m, 0) \o Reader!BytesAfter[n] = Part(m, 0 + n)
          /\ Reader!BytesAfter[n][n] = <<m, 0 + n>>
      <3>1. \/ 0 = 0 /\ lastMsg = 0 /\ lastByte = 0 /\ m = 1
            \/ /\ 0 = 0 /\ lastMsg \in Reader!Messages /\ lastByte = SizeOf[lastMsg]
               /\ m = lastMsg + 1
        BY <2>1
      <3> HIDE DEF m
      <3>2. m \in Reader!Messages
        BY <2>2 DEF m
      <3> QED
        BY <2>3, <3>1, <3>2, NextOfMessage
    <2>5. Part(m, 0) = buffer
      BY <2>1 DEF Part
    <2> HIDE DEF m
    <2>6. lastMsg' = m /\ lastByte' = 0 + n
      BY <1>1, <2>4
    <2> QED
      <3>1. /\ m \in Reader!Messages /\ 0 \in 0 .. SizeOf[m] - 1
            /\ m = Len(processed) + 1 /\ n \in 1 .. SizeOf[m] - 0
        BY <2>1, <2>2, <2>3 DEF m
      <3>2. /\ to_read = IF 0 < 4 THEN 4 ELSE SizeOf[m]
            /\ 0 >= 4 => code = 0
            /\ Len(buffer) = 0 /\ n <= to_read - 0
        BY <2>1
      <3>3. /\ buffer \o Reader!BytesAfter[n] = Part(m, 0 + n)
            /\ lastMsg' = m /\ lastByte' = 0 + n
        BY <2>4, <2>5, <2>6
      <3> QED
        BY <3>1, <3>2, <3>3
  <1>3. CASE Within
    <2>1. /\ lastMsg \in Reader!Messages /\ lastMsg = Len(processed) + 1
          /\ lastByte \in 1 .. SizeOf[lastMsg] - 1 /\ buffer = Part(lastMsg, lastByte)
          /\ to_read = (IF lastByte < 4 THEN 4 ELSE SizeOf[lastMsg])
          /\ (lastByte >= 4 => code = 0)
          /\ SizeOf[lastMsg] \in Nat /\ SizeOf[lastMsg] > 4
      BY <1>3, Sizes DEF Within
    <2>2. Len(buffer) = lastByte
      <3>1. lastByte \in 0 .. SizeOf[lastMsg]
        BY <2>1
      <3> QED
        BY <2>1, <3>1, PartFacts
    <2>3. n \in 1 .. SizeOf[lastMsg] - lastByte /\ n <= to_read - lastByte
          /\ lastByte \in 0 .. SizeOf[lastMsg] - 1 /\ lastByte > 0
      BY <2>1, <2>2
    <2>4. Part(lastMsg, lastByte) \o Reader!BytesAfter[n] = Part(lastMsg, lastByte + n)
          /\ Reader!BytesAfter[n][n] = <<lastMsg, lastByte + n>>
      BY <2>1, <2>3, NextOfMessage
    <2>5. lastMsg' = lastMsg /\ lastByte' = lastByte + n
      BY <1>1, <2>4
    <2> QED
      BY <2>1, <2>2, <2>3, <2>4, <2>5
  <1> QED
    BY <1>2, <1>3

\* One more message is handed on.
LEMMA HandedNext ==
    ASSUME NEW k \in Nat
    PROVE  Append(Handed(k), <<0, Reader!Whole(k + 1)>>) = Handed(k + 1)
           /\ Len(Handed(k)) = k
  BY DEF Handed

LEMMA RRecvStep == FInv /\ RInv /\ Running /\ Reader!Recv => RInv'
  <1> SUFFICES ASSUME FInv, RInv, Running, Reader!Recv PROVE RInv'
    OBVIOUS
  <1> USE DEF Reader!Header, Reader!readed
  <1>1. PICK n \in 1 .. Reader!Wanted : Reader!RecvHeader(n) \/ Reader!RecvBody(n)
    BY DEF Reader!Recv
  <1>2. Reader!Received(n)
    BY <1>1 DEF Reader!RecvHeader, Reader!RecvBody
  <1>3. PICK k \in 0 .. Len(SizeOf) : processed = Handed(k)
    BY DEF RInv
  <1>4. k \in Nat /\ Len(processed) = k
    BY <1>3, HandedNext, Sizes
  <1>5. PICK m \in Reader!Messages : \E o \in 0 .. SizeOf[m] - 1 :
              /\ m = Len(processed) + 1 /\ n \in 1 .. SizeOf[m] - o
              /\ to_read = IF o < 4 THEN 4 ELSE SizeOf[m]
              /\ o >= 4 => code = 0
              /\ Len(buffer) = o /\ n <= to_read - o
              /\ buffer \o Reader!BytesAfter[n] = Part(m, o + n)
              /\ lastMsg' = m /\ lastByte' = o + n
    BY <1>2, <1>4, Receives DEF RInv
  <1>6. PICK o \in 0 .. SizeOf[m] - 1 :
              /\ m = Len(processed) + 1 /\ n \in 1 .. SizeOf[m] - o
              /\ to_read = IF o < 4 THEN 4 ELSE SizeOf[m]
              /\ o >= 4 => code = 0
              /\ Len(buffer) = o /\ n <= to_read - o
              /\ buffer \o Reader!BytesAfter[n] = Part(m, o + n)
              /\ lastMsg' = m /\ lastByte' = o + n
    BY <1>5
  <1> DEFINE bytes == Part(m, o + n)
  <1>7. /\ SizeOf[m] \in Nat /\ SizeOf[m] > 4 /\ o \in Nat /\ n \in Nat \ {0}
        /\ o + n \in 0 .. SizeOf[m] /\ Len(bytes) = o + n /\ m \in Nat
        /\ Reader!Complete(bytes) <=> o + n = to_read
    <2>1. SizeOf[m] \in Nat /\ SizeOf[m] > 4 /\ o \in Nat /\ n \in Nat \ {0} /\ m \in Nat
      BY <1>6, Sizes
    <2>2. o + n \in 0 .. SizeOf[m] /\ o + n <= to_read /\ to_read \in Nat
      BY <1>6, <2>1
    <2>3. Len(bytes) = o + n
      BY <2>2, PartFacts
    <2> HIDE DEF bytes
    <2> QED
      BY <2>1, <2>2, <2>3 DEF Reader!Complete
  <1> HIDE DEF bytes
  <1>8. buffer \o Reader!BytesAfter[n] = bytes
    BY <1>6 DEF bytes
  <1>9. CASE processed' = processed /\ buffer' = bytes /\ o + n < SizeOf[m]
             /\ to_read' = (IF o + n < 4 THEN 4 ELSE SizeOf[m])
             /\ (o + n >= 4 => code' = 0)
    <2>1. Within'
      BY <1>6, <1>7, <1>9 DEF Within, bytes
    <2> QED
      BY <1>3, <1>9, <2>1 DEF RInv
  <1>10. CASE Reader!RecvHeader(n)
    <2>1. to_read = 4 /\ processed' = processed /\ o < 4
      BY <1>6, <1>7, <1>10 DEF Reader!RecvHeader
    <2>2. CASE ~Reader!Complete(bytes)
      <3>1. buffer' = bytes /\ to_read' = to_read /\ code' = code
        BY <1>8, <1>10, <2>2 DEF Reader!RecvHeader
      <3>2. o + n < 4
        BY <1>6, <1>7, <2>1, <2>2
      <3> QED
        BY <1>7, <1>9, <2>1, <3>1, <3>2
    <2>3. CASE Reader!Complete(bytes)
      <3>1. o + n = 4
        BY <1>7, <2>1, <2>3
      <3>2. bytes = SubSeq(Reader!Whole(m), 1, 4) /\ bytes[1] = <<m, 1>>
        <4>1. 4 \in 0 .. SizeOf[m]
          BY <1>7
        <4>2. bytes[1] = <<m, 1>>
          BY <3>1 DEF bytes, Part
        <4> QED
          BY <3>1, <4>1, <4>2, PartFacts DEF bytes
      <3>3. Reader!HeaderShows(bytes) = {<<0, SizeOf[m]>>}
        BY <3>2 DEF Reader!HeaderShows, Reader!IsHeader
      <3>4. PICK shown \in Reader!HeaderShows(bytes) :
               /\ code' = shown[1] /\ buffer' = bytes
               /\ ~(shown[2] <= 4) => to_read' = shown[2]
        BY <1>8, <1>10, <2>3 DEF Reader!RecvHeader
      <3>5. code' = 0 /\ buffer' = bytes /\ to_read' = SizeOf[m]
        BY <1>7, <3>3, <3>4
      <3> QED
        BY <1>7, <1>9, <2>1, <3>1, <3>5
    <2> QED
      BY <2>2, <2>3
  <1>11. CASE Reader!RecvBody(n)
    <2>1. to_read # 4 /\ code' = code /\ o >= 4 /\ to_read = SizeOf[m] /\ code = 0
      BY <1>6, <1>7, <1>11 DEF Reader!RecvBody
    <2>2. CASE ~Reader!Complete(bytes)
      <3>1. buffer' = bytes /\ to_read' = to_read /\ processed' = processed
        BY <1>8, <1>11, <2>2 DEF Reader!RecvBody
      <3>2. o + n < SizeOf[m] /\ o + n >= 4
        BY <1>7, <2>1, <2>2
      <3> QED
        BY <1>9, <2>1, <3>1, <3>2
    <2>3. CASE Reader!Complete(bytes)
      <3>1. /\ buffer' = <<>> /\ to_read' = 4
            /\ processed' = Append(processed, <<code, bytes>>)
        BY <1>8, <1>11, <2>3 DEF Reader!RecvBody, Reader!Rewind
      <3>2. o + n = SizeOf[m]
        BY <1>7, <2>1, <2>3
      <3>3. bytes = Reader!Whole(m)
        BY <3>2, PartFacts DEF bytes
      <3>4. m = k + 1 /\ m \in 0 .. Len(SizeOf)
        BY <1>4, <1>6, Sizes
      <3>5. processed' = Handed(m) /\ Len(processed') = m
        <4>1. processed' = Append(Handed(k), <<0, Reader!Whole(k + 1)>>)
          BY <1>3, <2>1, <3>1, <3>3, <3>4
        <4>2. m \in Nat
          BY <1>7
        <4> QED
          BY <1>4, <3>4, <4>1, <4>2, HandedNext
      <3>6. Between'
        BY <1>6, <3>1, <3>2, <3>5 DEF Between
      <3> QED
        BY <3>4, <3>5, <3>6 DEF RInv
    <2> QED
      BY <2>2, <2>3
  <1> QED
    BY <1>1, <1>10, <1>11

\* Steps that receive nothing.
LEMMA RIdle ==
    ASSUME RInv, UNCHANGED <<code, to_read, buffer, lastMsg, lastByte, processed>>,
           Running' => Running
    PROVE  RInv'
  <1>1. (\E k \in 0 .. Len(SizeOf) : processed = Handed(k))'
    BY DEF RInv
  <1>2. Between => Between'
    BY DEF Between
  <1>3. Within => Within'
    BY DEF Within
  <1> QED
    BY <1>1, <1>2, <1>3 DEF RInv

\* Nothing leaves the end of main_loop but the end of main.
LEMMA Ends == [Next]_vars /\ pc \in {"final", "exit"} => pc' \in {"final", "exit"}
  <1> SUFFICES ASSUME [Next]_vars, pc \in {"final", "exit"}
               PROVE  pc' \in {"final", "exit"}
    OBVIOUS
  <1>1. pc \notin {"poll", "connect", "recv", "msg", "in", "out", "end"}
    OBVIOUS
  <1>2. ~(PollCsck \/ PollIsck \/ PollHup \/ PollTerm \/ LoopEnd)
    BY <1>1 DEF PollCsck, PollIsck, PollHup, PollTerm, PollReturns, LoopEnd
  <1>3. ~CsckCanRecv
    BY <1>1 DEF CsckCanRecv, Connected, ConnectOk, ConnectFail, RecvPart, RecvMsg,
                RecvFail, MakeRequest, MsgDone, MsgBad
  <1>4. ~Isck
    BY <1>1 DEF Isck, IsckIn, IsckInFail, IsckNoIn, IsckOut, IsckOutFail,
                IsckOutNothing, IsckNoOut, CanRecv, CanSend
  <1>5. World \/ Stopped \/ UNCHANGED vars => pc' = pc
    BY DEF World, Resolve, Lost, Take, Answer, Stopped, vars
  <1> QED
    BY <1>2, <1>3, <1>4, <1>5 DEF Next, Final

\* The reader is where the stream says it is.
LEMMA RInvStep == FInv /\ RInv /\ [TtyNext]_all => RInv'
  <1> SUFFICES ASSUME FInv, RInv, [TtyNext]_all PROVE RInv'
    OBVIOUS
  <1>1. CASE TtyRecvPart \/ TtyRecvMsg
    <2>1. Running /\ Reader!Recv
      BY <1>1 DEF TtyRecvPart, TtyRecvMsg, RecvPart, RecvMsg, Running
    <2> QED
      BY <2>1, RRecvStep
  <1>2. CASE TtyRecvFail
    BY <1>2, RIdle DEF TtyRecvFail, Reader!RecvFail, Reader!frame
  <1>3. CASE TtyPollHup
    BY <1>3, RIdle DEF TtyPollHup, Reader!Hup, Reader!frame
  <1>4. CASE UNCHANGED reader
    <2>1. Running' => Running
      <3> QED
        BY Ends, TtyStep DEF Running
    <2> QED
      BY <1>4, <2>1, RIdle DEF reader
  <1> QED
    BY <1>1, <1>2, <1>3, <1>4
    DEF TtyNext, TtyPollCsck, Receive, Rest, all

LEMMA RInvariant == TtySpec => []RInv
  <1>1. TtySpec => []FInv
    BY FInvariant
  <1>2. FInv /\ RInv /\ [TtyNext]_all => RInv'
    BY RInvStep
  <1> QED
    BY <1>1, <1>2, RInvInit, PTL DEF TtySpec

\* A step of the program is a step of the reader, which knows of the rest only
\* whether it runs, or leaves it alone.
LEMMA ReaderStep == [TtyNext]_all => [Reader!Next]_(Reader!vars)
  <1> SUFFICES ASSUME [TtyNext]_all PROVE [Reader!Next]_(Reader!vars)
    OBVIOUS
  <1>1. CASE TtyRecvPart \/ TtyRecvMsg
    BY <1>1 DEF TtyRecvPart, TtyRecvMsg, Reader!Next
  <1>2. CASE TtyRecvFail
    BY <1>2 DEF TtyRecvFail, Reader!Next
  <1>3. CASE TtyPollHup
    BY <1>3 DEF TtyPollHup, Reader!Next
  <1>4. CASE UNCHANGED reader
    <2>1. Running' => Running
      BY Ends, TtyStep DEF Running
    <2>2. CASE Running' <=> Running
      BY <1>4, <2>2 DEF reader, Reader!vars, Reader!frame, Running
    <2>3. CASE Running /\ ~Running'
      <3>1. Reader!RecvFail
        BY <1>4, <2>3 DEF reader, Reader!RecvFail, Reader!frame, Running
      <3> QED
        BY <3>1 DEF Reader!Next
    <2> QED
      BY <2>1, <2>2, <2>3
  <1> QED
    BY <1>1, <1>2, <1>3, <1>4
    DEF TtyNext, TtyPollCsck, Receive, Rest, all

\* The forwarder and the frame reader are components of one program: what it
\* does is a behaviour of each, so that none of its steps, a reload or an
\* error in the midst of a message among them, is one the other does not know.
THEOREM ComponentsImplemented == TtySpec => Spec /\ Reader!Spec
  <1>1. TtyInit => Reader!Init
    BY DEF TtyInit
  <1>2. TtySpec => Reader!Init /\ [][Reader!Next]_(Reader!vars)
    BY <1>1, ReaderStep, PTL DEF TtySpec
  <1> QED
    BY <1>2, TtyRefines DEF Reader!Spec

\* A reader in step has room for a byte, and keeps to the messages there are.
LEMMA InStep ==
    ASSUME Between \/ Within
    PROVE  /\ to_read >= 4 /\ Len(buffer) < to_read /\ lastMsg \in 0 .. Len(SizeOf)
  <1>1. CASE Between
    BY <1>1, Sizes DEF Between
  <1>2. CASE Within
    <2>1. /\ lastMsg \in Reader!Messages /\ lastByte \in 1 .. SizeOf[lastMsg] - 1
          /\ buffer = Part(lastMsg, lastByte)
          /\ to_read = IF lastByte < 4 THEN 4 ELSE SizeOf[lastMsg]
          /\ SizeOf[lastMsg] \in Nat /\ SizeOf[lastMsg] > 4
      BY <1>2, Sizes DEF Within
    <2>2. lastByte \in 0 .. SizeOf[lastMsg]
      BY <2>1
    <2>3. Len(buffer) = lastByte
      BY <2>1, <2>2, PartFacts
    <2> QED
      BY <2>1, <2>3, Sizes
  <1> QED
    BY <1>1, <1>2

\* What a header shows is a code and a size.
LEMMA Shown ==
    ASSUME NEW bytes, NEW shown \in Reader!HeaderShows(bytes)
    PROVE  shown[1] \in {0, 1} /\ shown[2] \in Nat
  <1>1. CASE Reader!IsHeader(bytes)
    <2>1. PICK m \in Reader!Messages : bytes = SubSeq(Reader!Whole(m), 1, 4)
      BY <1>1 DEF Reader!IsHeader, Reader!Header
    <2>2. 4 \in 0 .. SizeOf[m] /\ m \in Nat
      BY Sizes
    <2>3. bytes[1][1] = m
      <3>1. bytes = Part(m, 4)
        BY <2>1, <2>2, PartFacts
      <3> QED
        BY <3>1 DEF Part
    <2> QED
      BY <1>1, <2>3, Sizes DEF Reader!HeaderShows
  <1>2. CASE ~Reader!IsHeader(bytes)
    BY <1>2, TtyAssumption DEF Reader!HeaderShows
  <1> QED
    BY <1>1, <1>2

\* While main_loop runs, recv is asked for at least one byte: for none it would
\* return 0, which process_csck_in takes for the end of the connection.  And the
\* buffer never holds more than was to be read.
THEOREM ReaderTypes == TtySpec => []Reader!TypeOK
  <1> DEFINE Fields == code \in {0, 1} /\ size \in Nat /\ hups \in 0 .. MaxHups
             Counts == /\ to_read >= 4 /\ Len(buffer) <= to_read
                       /\ lastMsg \in 0 .. Len(SizeOf)
  <1>1. RInv /\ Running => Counts /\ Len(buffer) < to_read
    <2>1. /\ RInv /\ Running => Between \/ Within
          /\ Between => Len(buffer) \in Nat /\ to_read \in Nat
      BY DEF RInv, Between
    <2>2. Within => Len(buffer) \in Nat /\ to_read \in Nat
      <3> SUFFICES ASSUME Within PROVE Len(buffer) \in Nat /\ to_read \in Nat
        OBVIOUS
      <3>1. /\ lastMsg \in Reader!Messages /\ lastByte \in 0 .. SizeOf[lastMsg]
            /\ buffer = Part(lastMsg, lastByte) /\ SizeOf[lastMsg] \in Nat
        BY Sizes DEF Within
      <3>2. Len(buffer) = lastByte
        BY <3>1, PartFacts
      <3> QED
        BY <3>1, <3>2 DEF Within
    <2> QED
      BY <2>1, <2>2, InStep
  <1>2. TtyInit => Fields /\ Counts
    BY <1>1, RInvInit, Sizes, TtyAssumption
    DEF TtyInit, Init, Running, Reader!Init, Reader!Header
  <1>3. RInv' /\ Fields /\ Counts /\ RInv /\ FInv /\ [TtyNext]_all => Fields' /\ Counts'
    <2> SUFFICES ASSUME RInv', Fields, Counts, [TtyNext]_all
                 PROVE  Fields' /\ Counts'
      OBVIOUS
    <2>1. CASE TtyRecvPart \/ TtyRecvMsg
      <3>1. Running' /\ Reader!Recv
        BY <2>1 DEF TtyRecvPart, TtyRecvMsg, RecvPart, RecvMsg, Running
      <3>2. Counts'
        BY <1>1, <3>1, PTL
      <3>3. Fields'
        <4>1. PICK n : Reader!RecvHeader(n) \/ Reader!RecvBody(n)
          BY <3>1 DEF Reader!Recv
        <4>2. CASE Reader!RecvBody(n)
          BY <4>2 DEF Reader!RecvBody
        <4>3. CASE Reader!RecvHeader(n) /\ UNCHANGED <<code, size>>
          BY <4>3 DEF Reader!RecvHeader
        <4>4. CASE Reader!RecvHeader(n) /\ ~UNCHANGED <<code, size>>
          <5>1. /\ hups' = hups
                /\ \E shown \in Reader!HeaderShows(buffer \o Reader!BytesAfter[n]) :
                      code' = shown[1] /\ size' = shown[2]
            BY <4>4 DEF Reader!RecvHeader
          <5> QED
            BY <5>1, Shown
        <4> QED
          BY <4>1, <4>2, <4>3, <4>4
      <3> QED
        BY <3>2, <3>3
    <2>2. CASE TtyRecvFail \/ UNCHANGED reader
      BY <2>2 DEF TtyRecvFail, Reader!RecvFail, Reader!frame, reader
    <2>3. CASE TtyPollHup
      BY <2>3, TtyAssumption DEF TtyPollHup, Reader!Hup, Reader!frame
    <2> QED
      BY <2>1, <2>2, <2>3 DEF TtyNext, TtyPollCsck, Receive, Rest, all
  <1>4. RInv /\ Fields /\ Counts => Reader!TypeOK
    BY <1>1 DEF Reader!TypeOK, Reader!Header, Reader!readed, Running
  <1> HIDE DEF Fields, Counts
  <1> QED
    BY <1>2, <1>3, <1>4, RInvariant, FInvariant, PTL DEF TtySpec

\* Whatever pieces the stream comes in, what is handed to process_msg_table is
\* the publisher's messages, whole and in order (process_csck_in).
THEOREM ReaderWhole == TtySpec => []OnlyWholeMessages
  <1>1. RInv => OnlyWholeMessages
    <2> SUFFICES ASSUME RInv, NEW i \in 1 .. Len(processed)
                 PROVE  \E m \in Reader!Messages :
                          /\ processed[i] = <<0, Reader!Whole(m)>>
                          /\ i > 1 => \E k \in Reader!Messages :
                                k < m /\ processed[i - 1] = <<0, Reader!Whole(k)>>
      BY DEF OnlyWholeMessages, Reader!OnlyWholeMessages
    <2>1. PICK k \in 0 .. Len(SizeOf) : processed = Handed(k)
      BY DEF RInv
    <2>2. k \in Nat /\ Len(processed) = k
      BY <2>1, HandedNext, Sizes
    <2>3. \A j \in 1 .. k : processed[j] = <<0, Reader!Whole(j)>> /\ j \in Reader!Messages
      BY <2>1, Sizes DEF Handed
    <2>4. i > 1 => i - 1 \in 1 .. k
      BY <2>2
    <2> QED
      BY <2>2, <2>3, <2>4
  <1> QED
    BY <1>1, RInvariant, PTL

\* On the one connection there is the reader never falls out of step: while the
\* program runs, no message is skipped, and what buffer holds is the beginning
\* of the next one.
THEOREM ReaderInStep == TtySpec => []NothingSkipped
  <1>1. RInv => NothingSkipped
    <2> SUFFICES ASSUME RInv, Running
                 PROVE  /\ processed = [i \in 1 .. Len(processed) |-> <<0, Reader!Whole(i)>>]
                        /\ IF buffer = <<>> THEN Len(processed) = lastMsg
                           ELSE /\ Len(processed) = lastMsg - 1
                                /\ buffer = SubSeq(Reader!Whole(lastMsg), 1, lastByte)
      BY DEF NothingSkipped, Reader!NothingSkipped
    <2>1. PICK k \in 0 .. Len(SizeOf) : processed = Handed(k)
      BY DEF RInv
    <2>2. k \in Nat /\ Len(processed) = k
      BY <2>1, HandedNext, Sizes
    <2>3. processed = [i \in 1 .. Len(processed) |-> <<0, Reader!Whole(i)>>]
      BY <2>1, <2>2 DEF Handed
    <2>4. CASE Between
      BY <2>3, <2>4 DEF Between
    <2>5. CASE Within
      <3>1. /\ lastMsg \in Reader!Messages /\ lastMsg = Len(processed) + 1
            /\ lastByte \in 1 .. SizeOf[lastMsg] - 1 /\ buffer = Part(lastMsg, lastByte)
            /\ SizeOf[lastMsg] \in Nat
        BY <2>5, Sizes DEF Within
      <3>2. lastByte \in 0 .. SizeOf[lastMsg] /\ lastByte > 0
        BY <3>1
      <3>3. buffer = SubSeq(Reader!Whole(lastMsg), 1, lastByte) /\ Len(buffer) = lastByte
        BY <3>1, <3>2, PartFacts
      <3>4. buffer # <<>>
        BY <3>1, <3>3
      <3> QED
        BY <2>2, <2>3, <3>1, <3>3, <3>4
    <2> QED
      BY <2>4, <2>5 DEF RInv
  <1> QED
    BY <1>1, RInvariant, PTL
=============================================================================
