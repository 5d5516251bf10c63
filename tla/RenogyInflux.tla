---------------------------- MODULE RenogyInflux ----------------------------
(***************************************************************************)
(* src/renogy_influx/renogy_influx.c: once a minute a voltage is read over *)
(* Modbus and posted to InfluxDB.  Three nested loops open the bus         *)
(* (main_modbus), connect to InfluxDB (main_connect_loop) and read and     *)
(* post (main_modbus_loop with main_send_recv_loop); their return codes    *)
(* say which of them goes on, after a minute's sleep, or that the program  *)
(* ends.                                                                   *)
(*                                                                         *)
(* A round is one value.  Its request, and each answer, travel in pieces;  *)
(* what is under way on the connection is "cur" if it belongs to the       *)
(* present round and "old" if not.  InfluxDB is external: it answers when  *)
(* it has got the length of a request.                                     *)
(***************************************************************************)
EXTENDS Integers, Sequences, FiniteSets, SequencesExt

CONSTANTS
    Units,    \* the pieces of a request; an answer has two
    SockCap,  \* the pieces the kernel keeps for the other end
    BufCap,   \* the pieces buffer_in can hold
    Secs,     \* g_secs, the time of a round
    Sleep     \* the pause after an error

ASSUME RenogyAssumption ==
    /\ {Units, SockCap, BufCap, Secs, Sleep} \subseteq Nat \ {0}
    /\ Secs <= Sleep   \* both are a minute

VARIABLES
    pc,        \* open, connect, read, reading, top, select, in, out,
               \* sleepConnect, sleepModbus or exit
    rv,        \* what main returns in the end
    left,      \* time to the end of the round or the pause; -1: it is past
    term,      \* the terminate pipe is readable
    ready,     \* rfds and wfds after select
    sent, buffer,   \* buffer_out_sent and buffer_in
    \* External: the connection, what InfluxDB has yet to read, what it has
    \* of an unfinished request, and its answers on the way.
    conn, inbox, gathered, answers,
    \* History: time since the last Modbus read began, whether InfluxDB has
    \* stored the value of this round, and whether a round on this connection
    \* began with something of an earlier one still under way.
    since, stored, untidy

round   == <<sent, buffer, ready>>
link    == <<conn, inbox, gathered, answers>>
history == <<since, stored, untidy>>
vars    == <<pc, rv, left, term, round, link, history>>

Init ==
    /\ pc = "open" /\ rv = "none" /\ left = 0 /\ term = FALSE
    /\ ready = {} /\ sent = 0 /\ buffer = <<>>
    /\ conn = "none" /\ inbox = <<>> /\ gathered = <<>> /\ answers = <<>>
    /\ since = Secs /\ stored = FALSE /\ untidy = FALSE

\* Any code but these two leaves every loop.
Exit(code) == pc' = "exit" /\ rv' = code

Closed == conn' = "none" /\ inbox' = <<>> /\ gathered' = <<>> /\ answers' = <<>>

-----------------------------------------------------------------------------
\* main_modbus and main_connect_loop.

OpenOk == pc = "open" /\ pc' = "connect"
          /\ UNCHANGED <<rv, left, term, round, link, history>>

OpenFail == pc = "open" /\ Exit("FATAL")
            /\ UNCHANGED <<left, term, round, link, history>>

SocketFail == pc = "connect" /\ Exit("FATAL")
              /\ UNCHANGED <<left, term, round, link, history>>

\* gethostbyname or connect fails.
ConnectFail ==
    /\ pc = "connect" /\ pc' = "sleepConnect" /\ left' = Sleep
    /\ UNCHANGED <<rv, term, round, link, history>>

ConnectOk ==
    /\ pc = "connect" /\ pc' = "read" /\ conn' = "up"
    /\ untidy' = FALSE
    /\ UNCHANGED <<rv, left, term, round, inbox, gathered, answers, since,
                   stored>>

\* ERROR_CONNECT: only main_connect_loop starts again.
BugReconnectAtOnce == pc' = "connect" /\ Closed /\ UNCHANGED left
LoseConnection == pc' = "sleepConnect" /\ left' = Sleep /\ Closed

SleepDone ==
    /\ left <= 0
    /\ \/ pc = "sleepConnect" /\ pc' = "connect"
       \/ pc = "sleepModbus"  /\ pc' = "open"
    /\ UNCHANGED <<rv, left, term, round, link, history>>

-----------------------------------------------------------------------------
\* main_modbus_loop: a round begins, and its time counts from here.

BeginRead ==
    /\ pc = "read" /\ pc' = "reading"
    /\ left' = Secs /\ since' = 0
    /\ UNCHANGED <<rv, term, round, link, stored, untidy>>

BugBufferCleared == UNCHANGED buffer
BufferCleared == buffer' = <<>>

Older(s) == [i \in 1 .. Len(s) |-> "old"]

ReadOk ==
    /\ pc = "reading" /\ pc' = "top"
    /\ sent' = 0 /\ BufferCleared
    /\ inbox' = Older(inbox) /\ gathered' = Older(gathered)
    /\ stored' = FALSE
    /\ untidy' = (untidy \/ inbox # <<>> \/ gathered # <<>> \/ answers # <<>>)
    /\ UNCHANGED <<rv, left, term, ready, conn, answers, since>>

\* ERROR_MODBUS: the connection is closed and the bus opened again.
ReadFail ==
    /\ pc = "reading" /\ pc' = "sleepModbus" /\ left' = Sleep /\ Closed
    /\ UNCHANGED <<rv, term, round, history>>

-----------------------------------------------------------------------------
\* main_send_recv_loop.

OutOfTime ==
    /\ pc = "top" /\ left < 0 /\ Exit("FATAL") /\ Closed
    /\ UNCHANGED <<left, term, round, history>>

Top ==
    /\ pc = "top" /\ left >= 0 /\ pc' = "select"
    /\ UNCHANGED <<rv, left, term, round, link, history>>

ReadyFds ==
    (IF answers # <<>> \/ conn = "gone" THEN {"IN"} ELSE {})
    \cup (IF sent < Units /\ (Len(inbox) < SockCap \/ conn = "gone")
          THEN {"OUT"} ELSE {})

BugShutdown ==
    /\ pc = "select" /\ term /\ LoseConnection
    /\ UNCHANGED <<rv, term, round, history>>
Shutdown ==
    /\ pc = "select" /\ term /\ Exit("SHUTDOWN") /\ Closed
    /\ UNCHANGED <<left, term, round, history>>

Select ==
    /\ pc = "select" /\ ~term /\ ReadyFds # {}
    /\ ready' = ReadyFds /\ pc' = "in"
    /\ UNCHANGED <<rv, left, term, sent, buffer, link, history>>

\* "204 No Content" may be seen when both pieces of such an answer are there.
Shows204 ==
    \E i \in 1 .. Len(buffer) - 1 : buffer[i] = "204" /\ buffer[i + 1] = "rest"

TimedOut == pc = "select" /\ ~term /\ ReadyFds = {} /\ left <= 0

RoundOk ==
    /\ TimedOut /\ Shows204 /\ pc' = "read"
    /\ UNCHANGED <<rv, left, term, round, link, history>>

\* "no return, ok ?"
RoundUnanswered ==
    /\ TimedOut /\ buffer = <<>> /\ pc' = "read"
    /\ UNCHANGED <<rv, left, term, round, link, history>>

RoundBad ==
    /\ TimedOut /\ buffer # <<>> /\ ~Shows204 /\ Exit("FATAL") /\ Closed
    /\ UNCHANGED <<left, term, round, history>>

In ==
    /\ pc = "in" /\ "IN" \in ready
    /\ \/ /\ Len(buffer) >= BufCap /\ Exit("FATAL") /\ Closed
          /\ UNCHANGED <<left, buffer>>
       \/ /\ Len(buffer) < BufCap /\ answers # <<>> /\ pc' = "out"
          /\ buffer' = Append(buffer, Head(answers)) /\ answers' = Tail(answers)
          /\ UNCHANGED <<rv, left, conn, inbox, gathered>>
       \/ /\ Len(buffer) < BufCap /\ conn = "gone" /\ LoseConnection
          /\ UNCHANGED <<rv, buffer>>
    /\ UNCHANGED <<term, ready, sent, history>>

NoIn == pc = "in" /\ "IN" \notin ready /\ pc' = "out"
        /\ UNCHANGED <<rv, left, term, round, link, history>>

Out ==
    /\ pc = "out" /\ "OUT" \in ready
    /\ \/ \E n \in 1 .. Units - sent :
             /\ conn = "up" /\ Len(inbox) + n <= SockCap
             /\ sent' = sent + n
             /\ inbox' = inbox \o [k \in 1 .. n |-> "cur"]
             /\ pc' = "top"
             /\ UNCHANGED <<left, conn, gathered, answers>>
       \/ conn = "gone" /\ LoseConnection /\ UNCHANGED sent
    /\ UNCHANGED <<rv, term, ready, buffer, history>>

NoOut == pc = "out" /\ "OUT" \notin ready /\ pc' = "top"
         /\ UNCHANGED <<rv, left, term, round, link, history>>

-----------------------------------------------------------------------------
\* InfluxDB, time and SIGTERM.

\* One more piece; when the length of a request is there it is answered, and
\* stored if it is one request.
Take ==
    /\ conn = "up" /\ inbox # <<>> /\ inbox' = Tail(inbox)
    /\ LET got == Append(gathered, Head(inbox))
       IN IF Len(got) < Units
          THEN gathered' = got /\ UNCHANGED <<answers, stored>>
          ELSE /\ gathered' = <<>>
               /\ Len(answers) <= SockCap   \* or InfluxDB waits
               /\ \/ /\ Cardinality(ToSet(got)) = 1
                     /\ answers' = answers \o <<"204", "rest">>
                     /\ stored' = (stored \/ Head(got) = "cur")
                  \/ /\ answers' = answers \o <<"4xx", "rest">>
                     /\ UNCHANGED stored
    /\ UNCHANGED <<pc, rv, left, term, round, conn, since, untidy>>

Lost == conn = "up" /\ conn' = "gone"
        /\ UNCHANGED <<pc, rv, left, term, round, inbox, gathered, answers,
                       history>>

Tick ==
    /\ left' = (IF left >= 0 THEN left - 1 ELSE left)
    /\ since' = (IF since < Secs THEN since + 1 ELSE since)
    /\ <<left, since>>' # <<left, since>>
    /\ UNCHANGED <<pc, rv, term, round, link, stored, untidy>>

\* A signal that comes during usleep ends it.
SigTerm ==
    /\ ~term /\ term' = TRUE
    /\ left' = (IF pc \in {"sleepConnect", "sleepModbus"} THEN 0 ELSE left)
    /\ UNCHANGED <<pc, rv, round, link, history>>

Stopped == pc = "exit" /\ UNCHANGED vars

-----------------------------------------------------------------------------
Loop == \/ SleepDone \/ BeginRead \/ OutOfTime \/ Top \/ Shutdown \/ Select
        \/ RoundOk \/ RoundUnanswered \/ RoundBad
        \/ In \/ NoIn \/ Out \/ NoOut
Connect == ConnectOk \/ ConnectFail \/ SocketFail
Open    == OpenOk \/ OpenFail
Read    == ReadOk \/ ReadFail
World   == Take \/ Lost \/ Tick \/ SigTerm

Next == Open \/ Connect \/ Read \/ Loop \/ World \/ Stopped

Spec == Init /\ [][Next]_vars

\* The program's thread runs whenever it can, and time passes.  The strong
\* fairness is about the world: a bus that answers, and an InfluxDB that can
\* be reached, again and again.
Fairness == /\ WF_vars(Open) /\ WF_vars(Loop) /\ WF_vars(Tick)
            /\ SF_vars(ConnectOk) /\ SF_vars(ReadOk)

LiveSpec == Spec /\ Fairness

-----------------------------------------------------------------------------
Pieces == {"204", "4xx", "rest"}

TypeOK ==
    /\ pc \in {"open", "connect", "read", "reading", "top", "select", "in",
               "out", "sleepConnect", "sleepModbus", "exit"}
    /\ rv \in {"none", "FATAL", "SHUTDOWN"} /\ (rv = "none" <=> pc # "exit")
    /\ left \in -1 .. Sleep /\ term \in BOOLEAN /\ ready \subseteq {"IN", "OUT"}
    /\ sent \in 0 .. Units /\ buffer \in Seq(Pieces) /\ Len(buffer) <= BufCap
    /\ conn \in {"none", "up", "gone"}
    /\ (conn = "none" <=> pc \in {"open", "connect", "sleepConnect",
                                  "sleepModbus", "exit"})
    /\ inbox \in Seq({"cur", "old"}) /\ Len(inbox) <= SockCap
    /\ gathered \in Seq({"cur", "old"}) /\ Len(gathered) < Units
    /\ answers \in Seq(Pieces) /\ since \in 0 .. Secs
    /\ stored \in BOOLEAN /\ untidy \in BOOLEAN

\* Whatever fails, and whichever loop starts again after it, the bus is not
\* read more often than once in g_secs; SIGTERM, which cuts the sleep short,
\* is the exception.
ReadsPaced == [][BeginRead => since = Secs \/ term]_vars

\* A round that is logged as "ok" has stored its value.  The proviso is real:
\* an answer that comes after its round is taken for that of the next one.
OkMeansStored == [][RoundOk => stored \/ untidy]_vars

\* SIGTERM ends the program, though only select looks at the terminate pipe.
TermExits == term ~> pc = "exit"
=============================================================================
