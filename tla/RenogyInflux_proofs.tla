------------------------- MODULE RenogyInflux_proofs -------------------------
(***************************************************************************)
(* Proofs about renogy_influx: its types, that the bus is not read too     *)
(* often, and that a round logged as "ok" has stored its value, for every  *)
(* size of a request and of the buffers and for every length of a round.   *)
(***************************************************************************)
EXTENDS RenogyInflux, FeedLemmas

InRound == {"top", "select", "in", "out"}
Idle    == {"open", "connect", "read"}

\* What is left of a round or a pause and what has passed since the last read
\* began add up to a round; where nothing is left to wait for, a round is over.
Paced ==
    \/ term \/ pc = "exit" \/ since = Secs
    \/ pc \notin Idle /\ since + left >= Secs

AllCur(s) == \A i \in 1 .. Len(s) : s[i] = "cur"
Has204(s) == \E i \in 1 .. Len(s) : s[i] = "204"

\* In a round of a tidy connection, InfluxDB has only pieces of the present
\* request, and says 204 only of that one.
Tidy ==
    pc \in InRound /\ ~untidy =>
        /\ AllCur(inbox) /\ AllCur(gathered)
        /\ Has204(answers) \/ Has204(buffer) => stored

RInv == TypeOK /\ Paced /\ Tidy

\* TypeOK in two parts.
Flags ==
    /\ pc \in {"open", "connect", "read", "reading", "top", "select", "in",
               "out", "sleepConnect", "sleepModbus", "exit"}
    /\ rv \in {"none", "FATAL", "SHUTDOWN"} /\ (rv = "none" <=> pc # "exit")
    /\ term \in BOOLEAN /\ ready \subseteq {"IN", "OUT"}
    /\ conn \in {"none", "up", "gone"}
    /\ (conn = "none" <=> pc \in {"open", "connect", "sleepConnect",
                                  "sleepModbus", "exit"})
    /\ stored \in BOOLEAN /\ untidy \in BOOLEAN

Data ==
    /\ left \in -1 .. Sleep /\ sent \in 0 .. Units /\ since \in 0 .. Secs
    /\ buffer \in Seq(Pieces) /\ Len(buffer) <= BufCap
    /\ inbox \in Seq({"cur", "old"}) /\ Len(inbox) <= SockCap
    /\ gathered \in Seq({"cur", "old"}) /\ Len(gathered) < Units
    /\ answers \in Seq(Pieces)

LEMMA Parts == TypeOK <=> Flags /\ Data
  BY DEF TypeOK, Flags, Data

LEMMA Sizes ==
    /\ Units \in Nat \ {0} /\ SockCap \in Nat \ {0} /\ BufCap \in Nat \ {0}
    /\ Secs \in Nat \ {0} /\ Sleep \in Nat \ {0} /\ Secs <= Sleep
  BY RenogyAssumption

\* The empty sequence.
LEMMA Empty == ASSUME NEW S PROVE <<>> \in Seq(S) /\ Len(<<>>) = 0
  OBVIOUS

\* The sequences that the connection carries.
LEMMA Carried ==
    ASSUME NEW S, NEW s \in Seq(S)
    PROVE  /\ s # <<>> => /\ Head(s) \in S /\ Tail(s) \in Seq(S)
                          /\ Len(s) >= 1 /\ Len(Tail(s)) = Len(s) - 1
                          /\ Head(s) = s[1]
                          /\ \A i \in 1 .. Len(s) - 1 : Tail(s)[i] = s[i + 1]
           /\ \A e \in S : /\ Append(s, e) \in Seq(S)
                           /\ Len(Append(s, e)) = Len(s) + 1
                           /\ \A i \in 1 .. Len(s) : Append(s, e)[i] = s[i]
                           /\ Append(s, e)[Len(s) + 1] = e
  OBVIOUS

\* The elements of two sequences put together.
LEMMA ConcatAt ==
    ASSUME NEW S, NEW s \in Seq(S), NEW t \in Seq(S)
    PROVE  \A i \in 1 .. Len(s) + Len(t) :
              (s \o t)[i] = IF i <= Len(s) THEN s[i] ELSE t[i - Len(s)]
  OBVIOUS

\* What an answer of two pieces adds.
LEMMA Answered ==
    ASSUME NEW s \in Seq(Pieces), NEW x \in {"204", "4xx"}
    PROVE  /\ s \o <<x, "rest">> \in Seq(Pieces)
           /\ x = "4xx" /\ Has204(s \o <<x, "rest">>) => Has204(s)
  <1> DEFINE t == <<x, "rest">>
  <1>1. Len(s) \in Nat
    OBVIOUS
  <1>2. t \in Seq(Pieces) /\ Len(t) = 2 /\ t[1] = x /\ t[2] = "rest"
    BY DEF Pieces
  <1> HIDE DEF t
  <1>3. /\ s \o t \in Seq(Pieces) /\ Len(s \o t) = Len(s) + 2
        /\ \A i \in 1 .. Len(s) : (s \o t)[i] = s[i]
        /\ (s \o t)[Len(s) + 1] = x /\ (s \o t)[Len(s) + 2] = "rest"
    <2>1. s \o t \in Seq(Pieces) /\ Len(s \o t) = Len(s) + Len(t) /\ Len(s) \in Nat
      BY <1>1, <1>2, ConcatLen, Zenon
    <2>2. \A i \in 1 .. Len(s) + 2 : (s \o t)[i] = IF i <= Len(s) THEN s[i] ELSE t[i - Len(s)]
      BY <1>2, ConcatAt
    <2> QED
      BY <1>2, <2>1, <2>2
  <1>4. ASSUME x = "4xx", Has204(s \o t) PROVE Has204(s)
    <2>1. PICK i \in 1 .. Len(s) + 2 : (s \o t)[i] = "204"
      BY <1>3, <1>4 DEF Has204
    <2>2. i \in 1 .. Len(s)
      BY <1>3, <1>4, <2>1
    <2> QED
      BY <1>3, <2>1, <2>2 DEF Has204
  <1>5. (s \o t \in Seq(Pieces)) /\ (x = "4xx" /\ Has204(s \o t) => Has204(s))
    BY <1>3, <1>4
  <1> QED
    BY <1>5 DEF t

\* What a part of the request adds to what InfluxDB has yet to read.
LEMMA Sends ==
    ASSUME NEW s \in Seq({"cur", "old"}), NEW n \in Nat
    PROVE  LET t == s \o [k \in 1 .. n |-> "cur"]
           IN  /\ t \in Seq({"cur", "old"}) /\ Len(t) = Len(s) + n
               /\ AllCur(s) => AllCur(t)
  <1> DEFINE m == [k \in 1 .. n |-> "cur"]
  <1>1. m \in Seq({"cur", "old"}) /\ Len(m) = n /\ \A k \in 1 .. n : m[k] = "cur"
    BY FunIsSeq, m \in [1 .. n -> {"cur", "old"}]
  <1> HIDE DEF m
  <1>2. /\ s \o m \in Seq({"cur", "old"}) /\ Len(s \o m) = Len(s) + n
        /\ \A i \in 1 .. Len(s) + n : (s \o m)[i] = IF i <= Len(s) THEN s[i] ELSE m[i - Len(s)]
    BY <1>1
  <1>3. AllCur(s) => AllCur(s \o m)
    BY <1>1, <1>2 DEF AllCur
  <1>4. s \o m \in Seq({"cur", "old"}) /\ Len(s \o m) = Len(s) + n /\ (AllCur(s) => AllCur(s \o m))
    BY <1>2, <1>3
  <1> QED
    BY <1>4 DEF m

\* When a round begins, all that is under way becomes old.
LEMMA Ages ==
    ASSUME NEW s \in Seq({"cur", "old"})
    PROVE  Older(s) \in Seq({"cur", "old"}) /\ Len(Older(s)) = Len(s)
  <1>1. Older(s) \in [1 .. Len(s) -> {"cur", "old"}] /\ Len(s) \in Nat
    BY DEF Older
  <1> QED
    BY <1>1, FunIsSeq
-----------------------------------------------------------------------------
(* Types.                                                                   *)

LEMMA RInit == Init => RInv
  <1> SUFFICES ASSUME Init PROVE RInv
    OBVIOUS
  <1>1. \A S : <<>> \in Seq(S) /\ Len(<<>>) = 0
    BY Empty
  <1>2. Flags
    BY Zenon DEF Init, Flags
  <1>3. Data
    BY <1>1, Sizes DEF Init, Data
  <1>4. Paced /\ Tidy
    BY DEF Init, Paced, Tidy, InRound
  <1> QED
    BY <1>2, <1>3, <1>4, Parts DEF RInv

LEMMA FlagsStep == Flags /\ [Next]_vars => Flags'
  <1> SUFFICES ASSUME Flags, [Next]_vars PROVE Flags'
    OBVIOUS
  <1>1. CASE Open \/ Connect
    BY <1>1 DEF Flags, Open, OpenOk, OpenFail, Connect, ConnectOk, ConnectFail,
            SocketFail, Exit, round, link, history
  <1>2. CASE Read
    BY <1>2, Zenon DEF Flags, Read, ReadOk, ReadFail, Closed, round, history
  <1>3. CASE SleepDone \/ BeginRead \/ Top \/ RoundOk \/ RoundUnanswered \/ NoIn \/ NoOut
    BY <1>3 DEF Flags, SleepDone, BeginRead, Top, RoundOk, RoundUnanswered, TimedOut,
            NoIn, NoOut, round, link, history
  <1>4. CASE OutOfTime \/ Shutdown \/ RoundBad
    BY <1>4 DEF Flags, OutOfTime, Shutdown, RoundBad, TimedOut, Exit, Closed,
            round, history
  <1>5. CASE Select
    BY <1>5 DEF Flags, Select, ReadyFds, link, history
  <1>6. CASE In \/ Out
    BY <1>6 DEF Flags, In, Out, LoseConnection, Exit, Closed, history
  <1>7. CASE Take
    BY <1>7, Zenon DEF Flags, Take, round
  <1>8. CASE Lost \/ SigTerm \/ Tick
    BY <1>8 DEF Flags, Lost, SigTerm, Tick, round, link, history
  <1>9. CASE UNCHANGED vars
    BY <1>9 DEF Flags, vars, round, link, history
  <1> QED
    BY <1>1, <1>2, <1>3, <1>4, <1>5, <1>6, <1>7, <1>8, <1>9
       DEF Next, Loop, World, Stopped

LEMMA DataStep == Data /\ [Next]_vars => Data'
  <1> SUFFICES ASSUME Data, [Next]_vars PROVE Data'
    OBVIOUS
  <1>1. /\ <<>> \in Seq({"cur", "old"}) /\ <<>> \in Seq(Pieces) /\ Len(<<>>) = 0
    BY Empty
  <1> DEFINE lost == Closed => /\ inbox' \in Seq({"cur", "old"}) /\ Len(inbox') <= SockCap
                               /\ gathered' \in Seq({"cur", "old"}) /\ Len(gathered') < Units
                               /\ answers' \in Seq(Pieces)
  <1>2. lost
    BY <1>1, Sizes DEF Closed
  <1>3. CASE Open \/ Connect
    BY <1>3, Sizes, SMTT(30) DEF Data, Open, OpenOk, OpenFail, Connect, ConnectOk, ConnectFail,
            SocketFail, Exit, round, link, history
  <1>4. CASE ReadOk
    BY <1>1, <1>4, Ages, Sizes DEF Data, ReadOk, BufferCleared
  <1>5. CASE ReadFail
    BY <1>2, <1>5, Sizes DEF Data, ReadFail, round, history
  <1>6. CASE SleepDone \/ BeginRead \/ Top \/ RoundOk \/ RoundUnanswered \/ NoIn \/ NoOut
    BY <1>6, Sizes DEF Data, SleepDone, BeginRead, Top, RoundOk, RoundUnanswered,
            TimedOut, NoIn, NoOut, round, link, history
  <1>7. CASE OutOfTime \/ Shutdown \/ RoundBad
    BY <1>2, <1>7 DEF Data, OutOfTime, Shutdown, RoundBad, TimedOut, round, history
  <1>8. CASE Select
    BY <1>8 DEF Data, Select, link, history
  <1>9. CASE In
    <2>1. UNCHANGED <<sent, since>>
      BY <1>9 DEF In, history
    <2>2. CASE Closed /\ UNCHANGED buffer /\ (UNCHANGED left \/ left' = Sleep)
      BY <1>2, <2>1, <2>2, Sizes DEF Data
    <2>3. CASE /\ Len(buffer) < BufCap /\ answers # <<>>
               /\ buffer' = Append(buffer, Head(answers)) /\ answers' = Tail(answers)
               /\ UNCHANGED <<left, inbox, gathered>>
      <3>1. buffer' \in Seq(Pieces) /\ Len(buffer') <= BufCap /\ answers' \in Seq(Pieces)
        BY <2>3, Carried, Sizes DEF Data
      <3> QED
        BY <2>1, <2>3, <3>1 DEF Data
    <2> QED
      BY <1>9, <2>2, <2>3 DEF In, LoseConnection
  <1>10. CASE Out
    <2>1. UNCHANGED <<buffer, since>>
      BY <1>10 DEF Out, history
    <2>2. CASE LoseConnection /\ UNCHANGED sent
      BY <1>2, <2>1, <2>2, Sizes DEF Data, LoseConnection
    <2>3. CASE \E n \in 1 .. Units - sent :
                  /\ Len(inbox) + n <= SockCap
                  /\ sent' = sent + n
                  /\ inbox' = inbox \o [k \in 1 .. n |-> "cur"]
                  /\ UNCHANGED <<left, gathered, answers>>
      <3>1. PICK n \in 1 .. Units - sent :
               /\ Len(inbox) + n <= SockCap
               /\ sent' = sent + n
               /\ inbox' = inbox \o [k \in 1 .. n |-> "cur"]
               /\ UNCHANGED <<left, gathered, answers>>
        BY <2>3
      <3>2. inbox' \in Seq({"cur", "old"}) /\ Len(inbox') <= SockCap
        BY <3>1, Sends, Sizes DEF Data
      <3>3. sent' \in 0 .. Units
        BY <3>1, Sizes DEF Data
      <3> QED
        BY <2>1, <3>1, <3>2, <3>3 DEF Data
    <2> QED
      BY <1>10, <2>2, <2>3 DEF Out
  <1>11. CASE Take
    <2> DEFINE got == Append(gathered, Head(inbox))
    <2>1. /\ inbox # <<>> /\ inbox' = Tail(inbox)
          /\ UNCHANGED <<left, round, since>>
      BY <1>11 DEF Take
    <2>2. /\ inbox' \in Seq({"cur", "old"}) /\ Len(inbox') <= SockCap
          /\ got \in Seq({"cur", "old"})
      BY <2>1, Carried, Sizes DEF Data
    <2>3. CASE Len(got) < Units /\ gathered' = got /\ UNCHANGED answers
      BY <2>1, <2>2, <2>3 DEF Data, round
    <2>4. CASE gathered' = <<>> /\ \E x \in {"204", "4xx"} : answers' = answers \o <<x, "rest">>
      <3>1. answers' \in Seq(Pieces)
        BY <2>4, Answered DEF Data
      <3> QED
        BY <1>1, <2>1, <2>2, <2>4, <3>1, Sizes DEF Data, round
    <2> QED
      BY <1>11, <2>3, <2>4 DEF Take
  <1>12. CASE Lost \/ SigTerm
    BY <1>12, Sizes DEF Data, Lost, SigTerm, round, link, history
  <1>13. CASE Tick
    BY <1>13, Sizes DEF Data, Tick, round, link
  <1>14. CASE UNCHANGED vars
    BY <1>14 DEF Data, vars, round, link, history
  <1> QED
    BY <1>3, <1>4, <1>5, <1>6, <1>7, <1>8, <1>9, <1>10, <1>11, <1>12, <1>13, <1>14
       DEF Next, Read, Loop, World, Stopped

-----------------------------------------------------------------------------
(* The pace of the reads.                                                   *)

\* Reads begin a round apart, or what is left to wait makes up for it.
LEMMA PacedStep == TypeOK /\ Paced /\ [Next]_vars => Paced'
  <1> SUFFICES ASSUME TypeOK, Paced, [Next]_vars PROVE Paced'
    OBVIOUS
  <1>1. /\ left \in -1 .. Sleep /\ since \in 0 .. Secs /\ term \in BOOLEAN
        /\ Sleep \in Nat /\ Secs \in Nat /\ Secs <= Sleep
    BY Sizes, Zenon DEF TypeOK
  <1>2. CASE Open \/ Connect
    BY <1>1, <1>2 DEF Paced, Idle, Open, OpenOk, OpenFail, Connect, ConnectOk, ConnectFail,
            SocketFail, Exit, history
  <1>3. CASE Read
    BY <1>1, <1>3 DEF Paced, Idle, Read, ReadOk, ReadFail, history
  <1>4. CASE SleepDone
    BY <1>1, <1>4 DEF Paced, Idle, SleepDone, history
  <1>5. CASE BeginRead
    BY <1>1, <1>5 DEF Paced, Idle, BeginRead
  <1>6. CASE RoundOk \/ RoundUnanswered
    BY <1>1, <1>6 DEF Paced, Idle, RoundOk, RoundUnanswered, TimedOut, history
  <1>7. CASE Top \/ Select \/ NoIn \/ NoOut
    BY <1>7 DEF Paced, Idle, Top, Select, NoIn, NoOut, history
  <1>8. CASE OutOfTime \/ Shutdown \/ RoundBad
    BY <1>8 DEF Paced, OutOfTime, Shutdown, RoundBad, Exit
  <1>9. CASE In \/ Out
    <2>1. UNCHANGED <<since, term>> /\ pc' \notin Idle /\ pc \in {"in", "out"}
      BY <1>9 DEF In, Out, LoseConnection, Exit, history, Idle
    <2>2. UNCHANGED left \/ left' = Sleep
      BY <1>9 DEF In, Out, LoseConnection
    <2> QED
      BY <1>1, <2>1, <2>2 DEF Paced, Idle
  <1>10. CASE Take \/ Lost
    BY <1>10 DEF Paced, Take, Lost, history
  <1>11. CASE Tick
    BY <1>1, <1>11 DEF Paced, Tick
  <1>12. CASE SigTerm
    BY <1>12 DEF Paced, SigTerm
  <1>13. CASE UNCHANGED vars
    BY <1>13 DEF Paced, vars, history
  <1> QED
    BY <1>2, <1>3, <1>4, <1>5, <1>6, <1>7, <1>8, <1>9, <1>10, <1>11, <1>12, <1>13
       DEF Next, Loop, World, Stopped

-----------------------------------------------------------------------------
(* What a 204 is worth.                                                     *)

\* Nothing of another request gets among the pieces of this one.
LEMMA TidyStep == TypeOK /\ Tidy /\ [Next]_vars => Tidy'
  <1> SUFFICES ASSUME TypeOK, Tidy, [Next]_vars, pc' \in InRound, ~untidy'
               PROVE  /\ AllCur(inbox)' /\ AllCur(gathered)'
                      /\ Has204(answers)' \/ Has204(buffer)' => stored'
    BY DEF Tidy
  <1>1. Data
    BY Parts
  <1>2. CASE ReadOk
    <2>1. inbox = <<>> /\ gathered = <<>> /\ answers = <<>> /\ buffer' = <<>>
      BY <1>2 DEF ReadOk, BufferCleared
    <2>2. Len(inbox') = 0 /\ Len(gathered') = 0 /\ answers' = <<>>
      BY <1>1, <1>2, <2>1, Ages, Empty DEF ReadOk, Data
    <2> QED
      BY <2>1, <2>2, Empty DEF AllCur, Has204
  <1>3. CASE pc \in InRound /\ UNCHANGED <<buffer, inbox, gathered, answers, stored, untidy>>
    BY <1>3 DEF Tidy, AllCur, Has204
  <1>4. CASE In
    <2>1. /\ pc \in InRound /\ answers # <<>>
          /\ buffer' = Append(buffer, Head(answers)) /\ answers' = Tail(answers)
          /\ UNCHANGED <<inbox, gathered, stored, untidy>>
      BY <1>4 DEF In, InRound, Exit, LoseConnection, history
    <2>2. Has204(answers') \/ Has204(buffer') => Has204(answers) \/ Has204(buffer)
      BY <1>1, <2>1, Carried DEF Data, Has204
    <2> QED
      BY <2>1, <2>2 DEF Tidy, AllCur
  <1>5. CASE Out
    <2>1. PICK n \in 1 .. Units - sent : inbox' = inbox \o [k \in 1 .. n |-> "cur"]
      BY <1>5 DEF Out, InRound, LoseConnection
    <2>2. /\ pc \in InRound /\ UNCHANGED <<buffer, gathered, answers, stored, untidy>>
      BY <1>5 DEF Out, InRound, LoseConnection, history
    <2>3. AllCur(inbox) => AllCur(inbox')
      BY <1>1, <2>1, Sends DEF Data
    <2> QED
      BY <2>2, <2>3 DEF Tidy, AllCur, Has204
  <1>6. CASE Take
    <2> DEFINE got == Append(gathered, Head(inbox))
    <2>1. /\ pc \in InRound /\ ~untidy /\ inbox # <<>> /\ inbox' = Tail(inbox)
          /\ UNCHANGED buffer
      BY <1>6 DEF Take, round
    <2>2. AllCur(inbox) /\ AllCur(gathered) /\ (Has204(answers) \/ Has204(buffer) => stored)
      BY <2>1 DEF Tidy
    <2>3. AllCur(inbox') /\ AllCur(got) /\ Head(got) = "cur"
      BY <1>1, <2>1, <2>2, Carried DEF Data, AllCur
    <2>4. CASE gathered' = got /\ UNCHANGED <<answers, stored>>
      BY <2>1, <2>2, <2>3, <2>4
    <2>5. CASE gathered' = <<>> /\ stored'
      BY <2>3, <2>5, Empty DEF AllCur
    <2>6. CASE gathered' = <<>> /\ answers' = answers \o <<"4xx", "rest">> /\ UNCHANGED stored
      <3>1. Has204(answers') => Has204(answers)
        BY <1>1, <2>6, Answered DEF Data
      <3>2. AllCur(gathered')
        BY <2>6, Empty DEF AllCur
      <3> QED
        BY <2>1, <2>2, <2>3, <2>6, <3>1, <3>2
    <2> QED
      BY <1>6, <2>3, <2>4, <2>5, <2>6 DEF Take
  <1> QED
    BY <1>2, <1>3, <1>4, <1>5, <1>6
       DEF InRound, Next, Open, OpenOk, OpenFail, Connect, ConnectOk, ConnectFail, SocketFail,
           Exit, Read, ReadFail, Loop, SleepDone, BeginRead, OutOfTime, Top, Shutdown,
           Select, RoundOk, RoundUnanswered, RoundBad, TimedOut, NoIn, NoOut, World, Lost,
           Tick, SigTerm, Stopped, vars, round, link, history

-----------------------------------------------------------------------------

LEMMA RInvariant == Spec => []RInv
  <1>1. RInv /\ [Next]_vars => RInv'
    <2>1. Flags' /\ Data' => TypeOK'
      BY DEF TypeOK, Flags, Data
    <2> QED
      BY <2>1, Parts, FlagsStep, DataStep, PacedStep, TidyStep DEF RInv
  <1> QED
    BY RInit, <1>1, PTL DEF Spec

\* The variables keep to their types; in particular what is read never runs
\* over buffer_in, and the socket is open exactly in the loops that use it.
THEOREM RenogyTypes == Spec => []TypeOK
  <1>1. RInv => TypeOK
    BY DEF RInv
  <1> QED
    BY RInvariant, <1>1, PTL

\* Whatever fails, and whichever of the three loops goes on after it, the bus
\* is not read more often than once a round, unless SIGTERM has come.
THEOREM ReadsArePaced == Spec => ReadsPaced
  <1>1. RInv /\ BeginRead => since = Secs \/ term
    BY DEF RInv, Paced, BeginRead, Idle
  <1>2. RInv /\ [Next]_vars => [BeginRead => since = Secs \/ term]_vars
    BY <1>1
  <1> QED
    BY RInvariant, <1>2, PTL DEF Spec, ReadsPaced

\* A round that is logged as "ok" on a connection where no round has found
\* anything of an earlier one has had its value stored.
THEOREM OkIsStored == Spec => OkMeansStored
  <1>1. RInv /\ RoundOk => stored \/ untidy
    <2> SUFFICES ASSUME RInv, RoundOk PROVE stored \/ untidy
      OBVIOUS
    <2>1. pc \in InRound /\ Has204(buffer)
      <3>1. PICK i \in 1 .. Len(buffer) - 1 : buffer[i] = "204"
        BY DEF RoundOk, Shows204
      <3>2. i \in 1 .. Len(buffer)
        BY DEF RInv, TypeOK
      <3> QED
        BY <3>1, <3>2 DEF Has204, RoundOk, TimedOut, InRound
    <2> QED
      BY <2>1 DEF RInv, Tidy
  <1>2. RInv /\ [Next]_vars => [RoundOk => stored \/ untidy]_vars
    BY <1>1
  <1> QED
    BY RInvariant, <1>2, PTL DEF Spec, OkMeansStored
=============================================================================
