--------------------------- MODULE InfluxForwarder ---------------------------
(***************************************************************************)
(* The InfluxDB forwarder, src/tty_reader/tty_reader_influx.zig: every     *)
(* message of the publisher becomes some HTTP requests, queued for a       *)
(* non-blocking connection to InfluxDB that is made when a message comes,  *)
(* may never be, and may go at any moment.  What InfluxDB answers is read  *)
(* and thrown away.                                                        *)
(*                                                                         *)
(* How messages are taken off the publisher's stream is module             *)
(* FrameReader; TtyInflux is the two together.  SIGHUP changes only names  *)
(* that requests are made of, and here it is one more reason for poll to   *)
(* return.                                                                 *)
(***************************************************************************)
EXTENDS Integers, Sequences, SequencesExt

CONSTANTS
    Fds,      \* the descriptors socket may return
    Units,    \* the pieces a request may be sent in
    SockCap,  \* the pieces the kernel keeps for InfluxDB to read
    MaxReqs   \* bound: requests made

ASSUME ForwarderAssumption ==
    /\ Fds \subseteq Nat
    /\ Units \in Nat \ {0} /\ SockCap \in Nat \ {0} /\ MaxReqs \in Nat

VARIABLES
    pc,           \* poll, connect, recv, msg, in, out, end, final or exit
    isck, connecting,
    queue,        \* the list from send_head to send_tail: [msg, sent]
    polled,       \* what isck_index stands for: the polled isck, or -1
    revents,      \* of that entry of the poll table
    \* External: the connection, the pieces InfluxDB has not read, an answer.
    link, inflight, answer,
    \* History: the requests made so far, how many of them were before this
    \* connection, and the pieces given to it.
    published, joinAt, stream

local   == <<isck, connecting, queue>>
table   == <<polled, revents>>
server  == <<link, inflight, answer>>
history == <<published, joinAt, stream>>
vars    == <<pc, local, table, server, history>>

Init ==
    /\ pc = "poll"
    /\ isck = -1 /\ connecting = FALSE /\ queue = <<>>
    /\ polled = -1 /\ revents = {}
    /\ link = "none" /\ inflight = 0 /\ answer = FALSE
    /\ published = 0 /\ joinAt = 0 /\ stream = <<>>

-----------------------------------------------------------------------------
\* main_loop: the poll table and poll.

BugWants == {"IN"} \cup (IF connecting THEN {"OUT"} ELSE {})
Wants == {"IN"} \cup (IF queue # <<>> \/ connecting THEN {"OUT"} ELSE {})

Ready(event) ==
    CASE event = "IN"  -> answer \/ link = "gone"
      [] event = "OUT" -> link = "gone" \/ (link = "up" /\ inflight < SockCap)

Returned == IF isck = -1 THEN {} ELSE {e \in Wants : Ready(e)}

PollReturns(next) ==
    /\ pc = "poll" /\ pc' = next
    /\ polled' = isck /\ revents' = Returned
    /\ UNCHANGED <<local, server, history>>

\* Something came from the publisher, or it is gone.
PollCsck == PollReturns("connect")
PollIsck == Returned # {} /\ PollReturns("in")
PollHup  == PollReturns("in")
PollTerm == PollReturns("final")

-----------------------------------------------------------------------------
\* csck_can_recv: connect_isck, then process_csck_in.

Connected == pc = "connect" /\ isck # -1 /\ pc' = "recv"
             /\ UNCHANGED <<local, table, server, history>>

\* A descriptor, and a connection that is under way or already there.
ConnectOk ==
    /\ pc = "connect" /\ isck = -1 /\ pc' = "recv"
    /\ isck' \in Fds /\ connecting' = TRUE
    /\ link' \in {"syn", "up"} /\ inflight' = 0 /\ answer' = FALSE
    /\ joinAt' = published /\ stream' = <<>>
    /\ UNCHANGED <<queue, table, published>>

\* The name is not found, or connect fails at once and isck is closed.
ConnectFail ==
    /\ pc = "connect" /\ isck = -1 /\ pc' = "recv"
    /\ UNCHANGED <<local, table, server, history>>

\* A part of a message, or one with a code of its own.
RecvPart == pc = "recv" /\ pc' = "in"
            /\ UNCHANGED <<local, table, server, history>>

RecvMsg == pc = "recv" /\ pc' = "msg"
           /\ UNCHANGED <<local, table, server, history>>

\* The publisher is gone.
RecvFail == pc = "recv" /\ pc' = "final"
            /\ UNCHANGED <<local, table, server, history>>

\* process_msg_table, once for each value of the message.  The request is
\* queued whether or not there is a connection.
MakeRequest ==
    /\ pc = "msg" /\ published < MaxReqs
    /\ published' = published + 1
    /\ queue' = Append(queue, [msg |-> published', sent |-> 0])
    /\ UNCHANGED <<pc, isck, connecting, table, server, joinAt, stream>>

MsgDone == pc = "msg" /\ pc' = "in"
           /\ UNCHANGED <<local, table, server, history>>

\* The message is too short or a buffer is, and main_loop ends.
MsgBad == pc = "msg" /\ pc' = "final"
          /\ UNCHANGED <<local, table, server, history>>

-----------------------------------------------------------------------------
\* isck_can_recv and isck_can_send, if isck was polled.

Closed == isck' = -1 /\ link' = "none" /\ inflight' = 0 /\ answer' = FALSE

CanRecv == pc = "in" /\ polled # -1 /\ "IN" \in revents

IsckIn ==
    /\ CanRecv /\ answer /\ pc' = "out"
    /\ answer' = FALSE
    /\ UNCHANGED <<local, table, link, inflight, history>>

BugForget == UNCHANGED polled
Forget == polled' = -1

\* recv returns 0 or fails; isck_index is forgotten with the connection.
IsckInFail ==
    /\ CanRecv /\ link = "gone" /\ pc' = "out"
    /\ Closed /\ connecting' = FALSE /\ Forget
    /\ UNCHANGED <<queue, revents, history>>

IsckNoIn ==
    /\ pc = "in" /\ ~CanRecv /\ pc' = "out"
    /\ UNCHANGED <<local, table, server, history>>

CanSend == pc = "out" /\ polled # -1 /\ "OUT" \in revents

\* The kernel takes n pieces of the head, of a dead connection too.
IsckOut ==
    /\ CanSend /\ queue # <<>> /\ pc' = "end"
    /\ connecting' = FALSE
    /\ LET head == Head(queue)
           room == IF link = "up" THEN SockCap - inflight ELSE Units
       IN \E n \in 1 .. Units - head.sent :
             /\ n <= room
             /\ queue' = (IF head.sent + n = Units THEN Tail(queue)
                          ELSE <<[head EXCEPT !.sent = @ + n]>> \o Tail(queue))
             /\ stream' = stream \o [k \in 1 .. n |-> <<head.msg, head.sent + k - 1>>]
             /\ inflight' = IF link = "up" THEN inflight + n ELSE inflight
    /\ UNCHANGED <<isck, table, link, answer, published, joinAt>>

\* send fails: the part of the head that was sent cannot be taken back.
IsckOutFail ==
    /\ CanSend /\ queue # <<>> /\ link = "gone" /\ pc' = "end"
    /\ Closed /\ connecting' = FALSE
    /\ UNCHANGED <<queue, table, history>>

IsckOutNothing ==
    /\ CanSend /\ queue = <<>> /\ pc' = "end"
    /\ connecting' = FALSE
    /\ UNCHANGED <<isck, queue, table, server, history>>

IsckNoOut ==
    /\ pc = "out" /\ ~CanSend /\ pc' = "end"
    /\ UNCHANGED <<local, table, server, history>>

\* Without a connection the queue is thrown away.
BugLoopEnd ==
    /\ pc = "end" /\ pc' = "poll"
    /\ UNCHANGED <<local, table, server, history>>
LoopEnd ==
    /\ pc = "end" /\ pc' = "poll"
    /\ queue' = IF isck = -1 THEN <<>> ELSE queue
    /\ UNCHANGED <<isck, connecting, table, server, history>>

\* main, after main_loop.
Final ==
    /\ pc = "final" /\ pc' = "exit"
    /\ queue' = <<>>
    /\ UNCHANGED <<isck, connecting, table, server, history>>

-----------------------------------------------------------------------------
\* InfluxDB and the network.

Resolve == link = "syn" /\ link' \in {"up", "gone"}
           /\ UNCHANGED <<pc, local, table, inflight, answer, history>>

Lost == link = "up" /\ link' = "gone"
        /\ UNCHANGED <<pc, local, table, inflight, answer, history>>

Take == link = "up" /\ inflight > 0 /\ inflight' = inflight - 1
        /\ UNCHANGED <<pc, local, table, link, answer, history>>

Answer == link = "up" /\ answer' = TRUE
          /\ UNCHANGED <<pc, local, table, link, inflight, history>>

Stopped == pc = "exit" /\ UNCHANGED vars

-----------------------------------------------------------------------------
CsckCanRecv == \/ Connected \/ ConnectOk \/ ConnectFail
               \/ RecvPart \/ RecvMsg \/ RecvFail
               \/ MakeRequest \/ MsgDone \/ MsgBad
Isck == IsckIn \/ IsckInFail \/ IsckNoIn
        \/ IsckOut \/ IsckOutFail \/ IsckOutNothing \/ IsckNoOut
World == Resolve \/ Lost \/ Take \/ Answer

Next == PollCsck \/ PollIsck \/ PollHup \/ PollTerm \/ CsckCanRecv \/ Isck
        \/ LoopEnd \/ Final \/ World \/ Stopped

Spec == Init /\ [][Next]_vars

\* The forwarder's thread runs whenever it can.
Fairness == WF_vars(PollIsck) /\ WF_vars(CsckCanRecv \/ Isck \/ LoopEnd \/ Final)

-----------------------------------------------------------------------------
TypeOK ==
    /\ pc \in {"poll", "connect", "recv", "msg", "in", "out", "end", "final",
               "exit"}
    /\ isck \in Fds \cup {-1} /\ polled \in Fds \cup {-1}
    /\ connecting \in BOOLEAN /\ (connecting => isck # -1)
    /\ queue \in Seq([msg : Nat, sent : 0 .. Units - 1])
    /\ revents \subseteq {"IN", "OUT"}
    /\ link \in {"none", "syn", "up", "gone"} /\ (link = "none" <=> isck = -1)
    /\ inflight \in 0 .. SockCap /\ answer \in BOOLEAN
    /\ published \in 0 .. MaxReqs /\ joinAt \in 0 .. MaxReqs
    /\ stream \in Seq(Nat \X Nat)

\* connect_isck and isck_can_recv change isck between poll and the handlers
\* of what poll said; what it said is only used on the socket it was said of.
PolledIsCurrent == pc \in {"in", "out"} /\ polled # -1 => polled = isck

\* The refinement: InfluxDB is a client of the requests.  On each connection
\* it is sent the requests made from then on, whole, in order, each once,
\* whatever was left half sent on the connection before.
Promise == INSTANCE Feed WITH
    Clients <- {"influxdb"},
    members <- IF isck = -1 THEN {} ELSE {"influxdb"},
    joinAt  <- [c \in {"influxdb"} |-> joinAt],
    stream  <- [c \in {"influxdb"} |-> stream]

RequestsSpec == Promise!Spec
=============================================================================
