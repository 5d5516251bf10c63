---------------------------- MODULE Cm11a_proofs ----------------------------
(***************************************************************************)
(* What reaches the power line, for any number of garbled and unasked      *)
(* bytes: with test1 over libcm11a, and with the example x10_cm11.         *)
(*                                                                         *)
(* Each program has two invariants, one for a line that does not garble    *)
(* and one for an interface that sends nothing unasked: in the first the   *)
(* order of what is on the line is kept whatever is in between, in the     *)
(* second the two sides take turns.                                        *)
(***************************************************************************)
EXTENDS MCCm11a, TLAPS

\* Two different sums, which are nothing else the interface sends.
LEMMA SumFacts ==
    /\ Sum["address"] = "sum of address" /\ Sum["function"] = "sum of function"
    /\ Sums = {"sum of address", "sum of function"}
  <1>1. Sum["address"] = "sum of address" /\ Sum["function"] = "sum of function"
    BY DEF Sum, Commands
  <1>2. Sums = {Sum[w] : w \in {"address", "function"}}
    BY DEF Sums, Commands
  <1> QED
    BY <1>1, <1>2

-----------------------------------------------------------------------------
(* The serial line.  What counts on it are the commands and acks to the     *)
(* interface, and its sums and its "ready".                                 *)

DevMarks == Commands \cup {"ack"}
PcMarks  == Sums \cup {"ready"}

Quiet(q, S) == \A i \in 1 .. Len(q) : q[i] \notin S

\* Of S there is one element in q, and it is x.
Once(q, x, S) ==
    \E i \in 1 .. Len(q) :
        q[i] = x /\ \A j \in 1 .. Len(q) : j # i => q[j] \notin S

\* What arriving at the end of the line changes.
LEMMA LineAppend ==
    ASSUME NEW T, NEW q \in Seq(T), NEW x \in T, NEW S
    PROVE  /\ Quiet(q, S) /\ x \notin S => Quiet(Append(q, x), S)
           /\ Quiet(q, S) => Once(Append(q, x), x, S)
           /\ \A y : Once(q, y, S) /\ x \notin S => Once(Append(q, x), y, S)
  <1> DEFINE r == Append(q, x)
  <1>1. /\ Len(r) = Len(q) + 1 /\ Len(q) \in Nat /\ r[Len(q) + 1] = x
        /\ \A i \in 1 .. Len(q) : r[i] = q[i]
    OBVIOUS
  <1> HIDE DEF r
  <1>2. \A i \in 1 .. Len(r) : i \in 1 .. Len(q) \/ i = Len(q) + 1
    BY <1>1
  <1>3. Quiet(q, S) /\ x \notin S => Quiet(r, S)
    BY <1>1, <1>2 DEF Quiet
  <1>4. Quiet(q, S) => Once(r, x, S)
    <2> SUFFICES ASSUME Quiet(q, S) PROVE Once(r, x, S)
      OBVIOUS
    <2>1. Len(q) + 1 \in 1 .. Len(r)
      BY <1>1
    <2> QED
      BY <1>1, <1>2, <2>1 DEF Quiet, Once
  <1>5. ASSUME NEW y, Once(q, y, S), x \notin S PROVE Once(r, y, S)
    <2>1. PICK i \in 1 .. Len(q) :
             q[i] = y /\ \A j \in 1 .. Len(q) : j # i => q[j] \notin S
      BY <1>5 DEF Once
    <2>2. i \in 1 .. Len(r) /\ r[i] = y
      BY <1>1, <2>1
    <2>3. \A j \in 1 .. Len(r) : j # i => r[j] \notin S
      BY <1>1, <1>2, <1>5, <2>1
    <2> QED
      BY <2>2, <2>3 DEF Once
  <1> QED
    BY <1>3, <1>4, <1>5 DEF r

\* What leaving the head of the line changes.
LEMMA LineTail ==
    ASSUME NEW T, NEW q \in Seq(T), q # <<>>, NEW S
    PROVE  /\ Quiet(q, S) => Head(q) \notin S /\ Quiet(Tail(q), S)
           /\ \A y : Once(q, y, S) =>
                /\ Head(q) \in S => Head(q) = y /\ Quiet(Tail(q), S)
                /\ Head(q) \notin S /\ y \in S => Once(Tail(q), y, S)
  <1> DEFINE r == Tail(q)
  <1>1. /\ Len(q) \in Nat \ {0} /\ Len(r) = Len(q) - 1 /\ Head(q) = q[1]
        /\ \A i \in 1 .. Len(r) : i + 1 \in 1 .. Len(q) /\ r[i] = q[i + 1]
    OBVIOUS
  <1> HIDE DEF r
  <1>2. Quiet(q, S) => Head(q) \notin S /\ Quiet(r, S)
    BY <1>1 DEF Quiet
  <1>3. ASSUME NEW y, Once(q, y, S)
        PROVE  /\ Head(q) \in S => Head(q) = y /\ Quiet(r, S)
               /\ Head(q) \notin S /\ y \in S => Once(r, y, S)
    <2>1. PICK i \in 1 .. Len(q) :
             q[i] = y /\ \A j \in 1 .. Len(q) : j # i => q[j] \notin S
      BY <1>3 DEF Once
    <2>2. ASSUME Head(q) \in S PROVE Head(q) = y /\ Quiet(r, S)
      <3>1. i = 1
        BY <1>1, <2>1, <2>2
      <3> QED
        BY <1>1, <2>1, <3>1 DEF Quiet
    <2>3. ASSUME Head(q) \notin S, y \in S PROVE Once(r, y, S)
      <3>1. i # 1
        BY <1>1, <2>1, <2>3
      <3>2. i - 1 \in 1 .. Len(r) /\ r[i - 1] = y
        <4>1. i - 1 \in 1 .. Len(r) /\ (i - 1) + 1 = i
          BY <1>1, <3>1
        <4> QED
          BY <1>1, <2>1, <4>1
      <3>3. \A j \in 1 .. Len(r) : j # i - 1 => r[j] \notin S
        BY <1>1, <2>1
      <3> QED
        BY <3>2, <3>3 DEF Once
    <2> QED
      BY <2>2, <2>3
  <1> QED
    BY <1>2, <1>3 DEF r

-----------------------------------------------------------------------------
\* Which bytes count.
LEMMA Marks ==
    /\ DevMarks = {"address", "function", "ack"} /\ Commands = {"address", "function"}
    /\ Writes = DevMarks \cup {"clock", "pollAck"} /\ Sendable = DevMarks \cup {"clock"}
    /\ PcMarks = {"sum of address", "sum of function", "ready"}
    /\ Replies = PcMarks \cup {"poll", "timeRequest", "another"}
    /\ Sums \subseteq Replies
  BY SumFacts DEF DevMarks, PcMarks, Commands, Writes, Sendable, Replies, Unasked

\* The sum of each command counts, and is not that of the other.
LEMMA SumOf ==
    ASSUME NEW w \in Commands
    PROVE  /\ Sum[w] \in Sums /\ Sum[w] \in PcMarks /\ Sum[w] \in Replies
           /\ Sum[w] # "ready" /\ w \in DevMarks /\ w # "ack" /\ w # "none"
           /\ \A v \in Commands : Sum[v] = Sum[w] => v = w
  BY Marks, SumFacts

LEMMA Both == Append(<<"address">>, "function") = <<"address", "function">>
  <1>1. <<"address">> \in Seq({"address", "function"}) /\ Len(<<"address">>) = 1
    OBVIOUS
  <1> DEFINE s == <<"address">>
             t == Append(s, "function")
  <1>2. s \in Seq({"address", "function"}) /\ Len(s) = 1 /\ s[1] = "address"
    BY <1>1
  <1> HIDE DEF s
  <1>3. Len(t) = 2 /\ t[1] = "address" /\ t[2] = "function" /\ t \in Seq({"address", "function"})
    BY <1>2
  <1> HIDE DEF t
  <1>4. t = <<"address", "function">>
    BY <1>3
  <1> QED
    BY <1>4 DEF t, s

\* What may be executed.
Good == {<<>>, <<"address">>, <<"address", "function">>}

Before(w) == IF w = "address" THEN <<>> ELSE <<"address">>

LEMMA BeforeGood ==
    ASSUME NEW w \in Commands
    PROVE  Before(w) \in Good /\ Append(Before(w), w) \in Good
  <1>1. Append(<<>>, "address") = <<"address">>
    OBVIOUS
  <1>2. CASE w = "address"
    BY <1>1, <1>2 DEF Before, Good
  <1>3. CASE w = "function"
    BY <1>3, Both DEF Before, Good
  <1> QED
    BY <1>2, <1>3, Marks

\* The counters only grow, and what has gone wrong is not forgotten.
Counted == noise \in Nat /\ polls \in Nat

LEMMA Mishaps ==
    ASSUME Counted, Device \/ Noise \/ DevUnasked \/ UNCHANGED mishaps
    PROVE  /\ Counted' /\ \A kind : kind \in faults => kind \in faults'
           /\ (noise' = 0 => noise = 0 /\ ~Noise)
           /\ (polls' = 0 => polls = 0 /\ ~DevUnasked)
  <1> Counted
    OBVIOUS
  <1>1. CASE Device \/ UNCHANGED mishaps
    <2>1. UNCHANGED <<noise, polls, faults>>
      BY <1>1 DEF Device, DevIgnore, DevCommand, DevAck, DevPollAck, DevClock, DevReady,
                  mishaps
    <2>2. Noise => noise' = noise + 1
      BY DEF Noise, Garble, DevGarbled, DevFalseAck, DevMiss, Garbling
    <2>3. DevUnasked => polls' = polls + 1
      BY DEF DevUnasked
    <2> QED
      BY <2>1, <2>2, <2>3 DEF Counted
  <1>2. CASE Noise
    <2>1. noise' = noise + 1 /\ polls' = polls /\ \E kinds : faults' = faults \cup kinds
      BY <1>2 DEF Noise, Garble, DevGarbled, DevFalseAck, DevMiss, Garbling
    <2>2. ~DevUnasked
      BY <2>1 DEF DevUnasked, Counted
    <2> QED
      BY <2>1, <2>2 DEF Counted
  <1>3. CASE DevUnasked
    <2>1. polls' = polls + 1 /\ noise' = noise /\ faults' = faults
      BY <1>3 DEF DevUnasked
    <2>2. Noise => noise' = noise + 1
      BY DEF Noise, Garble, DevGarbled, DevFalseAck, DevMiss, Garbling
    <2> QED
      BY <2>1, <2>2 DEF Counted
  <1> QED
    BY <1>1, <1>2, <1>3

-----------------------------------------------------------------------------
(* test1.  A command is written, received, summed, acknowledged and run,    *)
(* and each of these stages shows in the driver, on the line and in the     *)
(* interface; or it is given up, when its sum is not taken for one or the   *)
(* interface, which waits for the time, ignores it.                         *)

QuietLine == Quiet(toDev, DevMarks) /\ Quiet(toPc, PcMarks)
Unmarked  == data \in {"none", "clock"}

Unsent(w)  == data = w /\ QuietLine /\ dev = "none" /\ ~busy
Sent(w)    == /\ Unmarked /\ dev = "none" /\ ~busy
              /\ Once(toDev, w, DevMarks) /\ Quiet(toPc, PcMarks)
Summed(w)  == /\ Unmarked /\ dev = w /\ ~busy
              /\ Quiet(toDev, DevMarks) /\ Once(toPc, Sum[w], PcMarks)
GivenUp    == Unmarked /\ ~busy /\ QuietLine
Acked(w)   == /\ dev = w /\ ~busy /\ ~want_crc /\ Quiet(toPc, PcMarks)
              /\ \/ data = "ack" /\ Quiet(toDev, DevMarks)
                 \/ Unmarked /\ Once(toDev, "ack", DevMarks)
Ran        == /\ Unmarked /\ dev = "none" /\ ~want_crc /\ Quiet(toDev, DevMarks)
              /\ \/ busy /\ Quiet(toPc, PcMarks)
                 \/ ~busy /\ Once(toPc, "ready", PcMarks)

Conversing(w, b) ==
    /\ want_crc => crc = w
    /\ \/ executed = b /\ (Unsent(w) \/ Sent(w) \/ Summed(w) \/ GivenUp \/ Acked(w))
       \/ executed = Append(b, w) /\ Ran

Resting(e) == /\ Unmarked /\ ~want_crc /\ QuietLine
              /\ dev = "none" /\ executed = e /\ ~busy

\* Of a line that does not garble.
Stage ==
    /\ user = "START"        => Resting(<<>>)
    /\ user = "SENT_ADDRESS" => Conversing("address", <<>>)
    /\ user = "SENT_COMMAND" => Conversing("function", <<"address">>)
    /\ user = "DONE"         => Resting(<<"address", "function">>)

\* Without unasked bytes one side waits for the other.
Asked(w)     == /\ want_crc /\ crc = w /\ dev = "none" /\ ~busy /\ toPc = <<>>
                /\ \/ data = w /\ toDev = <<>>
                   \/ data = "none" /\ toDev = <<w>>
Answered(w)  == /\ want_crc /\ crc = w /\ ~busy /\ toDev = <<>> /\ data = "none"
                /\ \E b \in Replies : toPc = <<b>> /\ (b = Sum[w] => dev = w)
Confirmed(w) == /\ ~want_crc /\ ~busy /\ dev = w /\ toPc = <<>>
                /\ \/ data = "ack" /\ toDev = <<>>
                   \/ data = "none" /\ toDev = <<"ack">>
Done         == /\ ~want_crc /\ dev = "none" /\ toDev = <<>> /\ data = "none"
                /\ \/ busy /\ toPc = <<>>
                   \/ ~busy /\ \E b \in Replies : toPc = <<b>>
\* Something was garbled; the clock is for a reply that became 0xA5.
Over         == /\ ~busy /\ toPc = <<>>
                /\ \/ data = "none" /\ toDev = <<>>
                   \/ dev = "none" /\ data = "clock" /\ toDev = <<>>
                   \/ dev = "none" /\ data = "none" /\ toDev = <<"clock">>

Turn(w, b) ==
    \/ executed = b /\ (Asked(w) \/ Answered(w) \/ Confirmed(w))
    \/ executed = Append(b, w) /\ Done
    \/ executed \in {b, Append(b, w)} /\ Over

Silent(e) == /\ data = "none" /\ toDev = <<>> /\ toPc = <<>> /\ dev = "none" /\ ~busy
             /\ executed = e

Turns ==
    /\ asks = {}
    /\ user = "START"        => Silent(<<>>)
    /\ user = "SENT_ADDRESS" => Turn("address", <<>>)
    /\ user = "SENT_COMMAND" => Turn("function", <<"address">>)
    /\ user = "DONE"         => Silent(<<"address", "function">>)

\* What is to be written is written before the next byte is read, but for the
\* address, which main_loop writes at the end of its body.
DataInv == data # "none" =>
              pc = "write" \/ (pc = "read" /\ data = "address" /\ want_crc)

T1Base == TypeOK /\ Counted /\ DataInv
T1Inv  == /\ T1Base
          /\ noise = 0 => Stage
          /\ polls = 0 /\ "falseSum" \notin faults => Turns

LEMMA T1Init == Init => T1Inv
  <1> SUFFICES ASSUME Init PROVE T1Inv
    OBVIOUS
  <1>1. /\ pc = "read" /\ user = "START" /\ data = "none" /\ crc = "none"
        /\ want_crc = FALSE /\ toDev = <<>> /\ toPc = <<>> /\ dev = "none"
        /\ executed = <<>> /\ busy = FALSE /\ asks = {} /\ noise = 0 /\ polls = 0
    BY DEF Init, DevInit
  <1>2. toDev \in Seq(Sendable) /\ toPc \in Seq(Replies)
    BY <1>1
  <1>3. TypeOK
    BY <1>1, <1>2 DEF TypeOK
  <1>4. Stage
    BY <1>1 DEF Stage, Resting, Unmarked, QuietLine, Quiet
  <1>5. Turns
    BY <1>1 DEF Turns, Silent
  <1> QED
    BY <1>1, <1>3, <1>4, <1>5 DEF T1Inv, T1Base, DataInv, Counted

LEMMA LineTypes ==
    TypeOK => toDev \in Seq(Sendable) /\ toPc \in Seq(Replies)
  BY DEF TypeOK

\* Any reply may come back, and nothing else.
LEMMA RepliesAre ==
    /\ "ready" \in Replies /\ Unasked \subseteq Replies
    /\ \A w \in Commands : Sum[w] \in Replies
  BY Marks, SumOf DEF Replies

\* The interface and the line keep the types.
LEMMA LineTypesStep ==
    ASSUME NEW S \in SUBSET Writes, toDev \in Seq(S), toPc \in Seq(Replies),
           Device \/ Noise \/ DevUnasked
    PROVE  toDev' \in Seq(S) /\ toPc' \in Seq(Replies)
  <1>1. toDev' \in Seq(S)
    <2>1. toDev' = toDev \/ (toDev # <<>> /\ toDev' = Tail(toDev))
      BY DEF Device, DevIgnore, DevCommand, DevAck, DevPollAck, DevClock, DevReady,
             Noise, Garble, DevGarbled, DevFalseAck, DevMiss, DevUnasked, Arrives
    <2> QED
      BY <2>1
  <1>2. toPc' \in Seq(Replies)
    <2>1. ASSUME NEW b \in Replies, toPc' = Append(toPc, b) PROVE toPc' \in Seq(Replies)
      BY <2>1
    <2>2. CASE DevCommand \/ DevReady \/ DevUnasked \/ DevGarbled
      BY <2>1, <2>2, RepliesAre DEF DevCommand, DevReady, DevUnasked, DevGarbled
    <2>3. CASE DevPollAck
      BY <2>1, <2>3 DEF DevPollAck
    <2>4. CASE DevIgnore \/ DevAck \/ DevClock \/ DevFalseAck \/ DevMiss
      BY <2>4 DEF DevIgnore, DevAck, DevClock, DevFalseAck, DevMiss
    <2>5. CASE Garble
      <3>1. PICK z \in Replies : toPc # <<>> /\ toPc' = <<z>> \o Tail(toPc)
        BY <2>5 DEF Garble
      <3> QED
        BY <3>1
    <2> QED
      BY <2>2, <2>3, <2>4, <2>5 DEF Device, Noise
  <1> QED
    BY <1>1, <1>2

\* The driver's steps keep the types of its variables and the line's.
LEMMA T1Type == T1Base /\ [Next]_vars => TypeOK'
  <1> SUFFICES ASSUME T1Base, [Next]_vars PROVE TypeOK'
    OBVIOUS
  <1> TypeOK
    BY DEF T1Base
  <1>1. {"ack", "clock", "address", "function"} \subseteq Sendable
        /\ {"address", "function"} \subseteq Commands
    BY Marks
  <1>2. CASE Read
    <2>1. toPc' \in Seq(Replies)
      <3>1. toPc' = toPc \/ (toPc # <<>> /\ toPc' = Tail(toPc))
        BY <1>2 DEF Read, ReadCrcOk, ReadCrcNotOk, ReadReady, ReadPoll,
                    ReadTimeRequest, ReadOther, ReadNothing, Taken
      <3> QED
        BY <3>1 DEF TypeOK
    <2>2. /\ toDev' = toDev /\ pc' \in {"write", "failed"}
          /\ user' \in {user, NextState}
          /\ data' \in {data, "ack", "clock", "function"} /\ crc' \in {crc, "function"}
      BY <1>2 DEF Read, ReadCrcOk, ReadCrcNotOk, ReadReady, ReadPoll, ReadTimeRequest,
                  ReadOther, ReadNothing, write_data, write_data_crc, pcVars
    <2>3. want_crc' \in BOOLEAN /\ (want_crc' => crc' # "none")
      <3>1. \/ want_crc' = FALSE
            \/ want_crc' = TRUE /\ crc' = "function"
            \/ want_crc' = want_crc /\ crc' = crc
        <4>1. CASE ReadCrcOk \/ ReadCrcNotOk
          BY <4>1 DEF ReadCrcOk, ReadCrcNotOk
        <4>2. CASE ReadReady \/ ReadTimeRequest
          BY <4>2 DEF ReadReady, ReadTimeRequest, write_data, write_data_crc
        <4>3. CASE ReadPoll \/ ReadOther \/ ReadNothing
          BY <4>3 DEF ReadPoll, ReadOther, ReadNothing, pcVars
        <4> QED
          BY <1>2, <4>1, <4>2, <4>3 DEF Read
      <3>2. want_crc \in BOOLEAN /\ (want_crc => crc # "none")
        BY DEF TypeOK
      <3>3. CASE want_crc' = FALSE
        BY <3>3
      <3>4. CASE want_crc' = TRUE /\ crc' = "function"
        BY <3>4
      <3>5. CASE want_crc' = want_crc /\ crc' = crc
        BY <3>2, <3>5, Zenon
      <3> QED
        BY <3>1, <3>3, <3>4, <3>5
    <2>4. user' \in {"START", "SENT_ADDRESS", "SENT_COMMAND", "DONE"}
      BY <2>2 DEF NextState, TypeOK
    <2> QED
      BY <1>1, <2>1, <2>2, <2>3, <2>4 DEF TypeOK
  <1>3. CASE Write
    <2>1. toDev' \in Seq(Sendable)
      BY <1>3 DEF Write, TypeOK
    <2> QED
      BY <1>3, <2>1 DEF Write, TypeOK
  <1>4. CASE App
    <2>1. want_crc' \in BOOLEAN /\ (want_crc' => crc' # "none")
      BY <1>4 DEF App, write_data_crc, pcVars, TypeOK
    <2>2. /\ data' \in {data, "address"} /\ crc' \in {crc, "address"}
          /\ user' \in {user, "SENT_ADDRESS"} /\ pc' \in {"done", "read"}
          /\ UNCHANGED <<toDev, toPc>>
      BY <1>4 DEF App, write_data_crc, pcVars
    <2> QED
      BY <1>1, <2>1, <2>2 DEF TypeOK
  <1>5. CASE Line
    <2>1. UNCHANGED <<pc, user, data, crc, want_crc>>
      BY <1>5 DEF Line, pcVars
    <2>2. toDev' \in Seq(Sendable) /\ toPc' \in Seq(Replies)
      <3>1. Sendable \in SUBSET Writes
        BY DEF Sendable
      <3> QED
        BY <1>5, <3>1, LineTypes, LineTypesStep DEF Line
    <2> QED
      BY <2>1, <2>2 DEF TypeOK
  <1>6. CASE UNCHANGED vars
    BY <1>6 DEF vars, pcVars, devVars, TypeOK
  <1> QED
    BY <1>2, <1>3, <1>4, <1>5, <1>6 DEF Next, Idle

LEMMA T1Data == T1Base /\ [Next]_vars => DataInv'
  <1> SUFFICES ASSUME T1Base, [Next]_vars PROVE DataInv'
    OBVIOUS
  <1> USE DEF DataInv
  <1> DataInv
    BY DEF T1Base
  <1>1. CASE Read
    <2>1. pc = "read" /\ (pc' = "write" \/ (ReadOther /\ pc' = "failed"))
      BY <1>1 DEF Read, ReadCrcOk, ReadCrcNotOk, ReadReady, ReadPoll,
                  ReadTimeRequest, ReadOther, ReadNothing, Taken
    <2>2. ReadOther => data' = "none"
      BY <2>1 DEF ReadOther, pcVars
    <2> QED
      BY <2>1, <2>2
  <1>2. CASE Write
    BY <1>2 DEF Write
  <1>3. CASE App
    BY <1>3 DEF App, write_data_crc, pcVars
  <1>4. CASE Line \/ UNCHANGED vars
    BY <1>4 DEF Line, vars, pcVars
  <1> QED
    BY <1>1, <1>2, <1>3, <1>4 DEF Next, Idle

-----------------------------------------------------------------------------
(* The interface and the line, which does not garble, with a command under  *)
(* way or none.                                                             *)

\* A mark that the interface takes off the line is the one of the stage.
LEMMA MarkArrives ==
    ASSUME TypeOK, NEW x \in DevMarks, Arrives(x)
    PROVE  /\ \A e : ~Resting(e)
           /\ \A w \in Commands : \A b : Conversing(w, b) =>
                /\ executed = b /\ Unmarked /\ ~busy /\ Quiet(toPc, PcMarks)
                /\ Quiet(toDev', DevMarks)
                /\ \/ x = w /\ dev = "none"
                   \/ x = "ack" /\ dev = w /\ ~want_crc
  <1>1. toDev # <<>> /\ Head(toDev) = x /\ toDev' = Tail(toDev) /\ toDev \in Seq(Sendable)
    BY LineTypes DEF Arrives
  <1>2. ~Quiet(toDev, DevMarks)
    BY <1>1, LineTail
  <1>3. \A e : ~Resting(e)
    BY <1>2 DEF Resting, QuietLine
  <1>4. ASSUME NEW w \in Commands, NEW b, Conversing(w, b)
        PROVE  /\ executed = b /\ Unmarked /\ ~busy /\ Quiet(toPc, PcMarks)
               /\ Quiet(toDev', DevMarks)
               /\ \/ x = w /\ dev = "none"
                  \/ x = "ack" /\ dev = w /\ ~want_crc
    <2>1. ~(Unsent(w) \/ Summed(w) \/ GivenUp \/ Ran)
      BY <1>2 DEF Unsent, Summed, GivenUp, Ran, QuietLine
    <2>2. executed = b /\ (Sent(w) \/ Acked(w))
      BY <1>4, <2>1 DEF Conversing
    <2>3. Sent(w) => x = w /\ Quiet(toDev', DevMarks)
      BY <1>1, LineTail DEF Sent
    <2>4. Acked(w) => Unmarked /\ x = "ack" /\ Quiet(toDev', DevMarks)
      BY <1>1, <1>2, LineTail DEF Acked
    <2> QED
      BY <2>2, <2>3, <2>4 DEF Sent, Acked
  <1> QED
    BY <1>3, <1>4

\* A command arrives: its sum goes back.
LEMMA CommandArrives ==
    ASSUME TypeOK, DevCommand, UNCHANGED <<pc, pcVars>>
    PROVE  /\ \A w \in Commands : \A b : Conversing(w, b) => Conversing(w, b)'
           /\ \A e : ~Resting(e)
  <1>1. PICK x \in Commands : Arrives(x) /\ dev' = x /\ toPc' = Append(toPc, Sum[x])
    BY DEF DevCommand
  <1>2. x \in DevMarks /\ x # "ack" /\ Sum[x] \in Replies /\ Sum[x] \in PcMarks
    BY SumOf
  <1>3. UNCHANGED <<executed, busy, data, crc, want_crc>> /\ toPc \in Seq(Replies)
    BY LineTypes DEF DevCommand, pcVars
  <1>4. ASSUME NEW w \in Commands, NEW b, Conversing(w, b) PROVE Conversing(w, b)'
    <2>1. /\ executed = b /\ Unmarked /\ ~busy /\ Quiet(toPc, PcMarks)
          /\ Quiet(toDev', DevMarks) /\ x = w
      BY <1>1, <1>2, <1>4, MarkArrives
    <2>2. Once(toPc', Sum[w], PcMarks)
      BY <1>1, <1>2, <1>3, <2>1, LineAppend
    <2>3. Summed(w)'
      BY <1>1, <1>3, <2>1, <2>2 DEF Summed, Unmarked
    <2> QED
      BY <1>3, <1>4, <2>1, <2>3 DEF Conversing
  <1> QED
    BY <1>1, <1>2, <1>4, MarkArrives

\* An ack arrives: the command it is for is run.
LEMMA AckArrives ==
    ASSUME TypeOK, DevAck, UNCHANGED <<pc, pcVars>>
    PROVE  /\ \A w \in Commands : \A b : Conversing(w, b) => Conversing(w, b)'
           /\ \A e : ~Resting(e)
  <1>1. /\ Arrives("ack") /\ "ack" \in DevMarks /\ dev' = "none" /\ toPc' = toPc
        /\ dev # "none" => executed' = Append(executed, dev) /\ busy' = TRUE
        /\ UNCHANGED <<data, crc, want_crc>>
    BY Marks DEF DevAck, Execute, pcVars
  <1>2. ASSUME NEW w \in Commands, NEW b, Conversing(w, b) PROVE Conversing(w, b)'
    <2>1. /\ executed = b /\ Unmarked /\ Quiet(toPc, PcMarks) /\ Quiet(toDev', DevMarks)
          /\ dev = w /\ ~want_crc /\ w # "none"
      BY <1>1, <1>2, MarkArrives, SumOf
    <2>2. Ran' /\ executed' = Append(b, w)
      BY <1>1, <2>1 DEF Ran, Unmarked
    <2> QED
      BY <1>1, <1>2, <2>2 DEF Conversing
  <1> QED
    BY <1>1, <1>2, MarkArrives

\* The interface, which waits for the time, ignores what arrives.
LEMMA Ignored ==
    ASSUME TypeOK, DevIgnore, UNCHANGED <<pc, pcVars>>
    PROVE  /\ \A w \in Commands : \A b : Conversing(w, b) => Conversing(w, b)'
           /\ \A e : ~Resting(e)
  <1>1. PICK x \in Writes \ {"clock"} : Arrives(x)
    BY DEF DevIgnore
  <1>2. x \in DevMarks
    <2>1. x \in Sendable
      BY <1>1, LineTypes DEF Arrives
    <2> QED
      BY <1>1, <2>1, Marks
  <1>3. UNCHANGED <<toPc, dev, executed, busy, data, crc, want_crc>>
    BY DEF DevIgnore, device, pcVars
  <1>4. ASSUME NEW w \in Commands, NEW b, Conversing(w, b) PROVE Conversing(w, b)'
    <2>1. /\ executed = b /\ Unmarked /\ ~busy /\ Quiet(toPc, PcMarks)
          /\ Quiet(toDev', DevMarks)
      BY <1>1, <1>2, <1>4, MarkArrives
    <2>2. GivenUp'
      BY <1>3, <2>1 DEF GivenUp, Unmarked, QuietLine
    <2> QED
      BY <1>3, <1>4, <2>1, <2>2 DEF Conversing
  <1> QED
    BY <1>1, <1>2, <1>4, MarkArrives

\* The command has been run.
LEMMA ReadyComes ==
    ASSUME TypeOK, DevReady, UNCHANGED <<pc, pcVars>>
    PROVE  /\ \A w \in Commands : \A b : Conversing(w, b) => Conversing(w, b)'
           /\ \A e : ~Resting(e)
  <1>1. /\ busy /\ ~busy' /\ toPc' = Append(toPc, "ready") /\ toDev' = toDev
        /\ UNCHANGED <<dev, executed>>
    BY DEF DevReady
  <1>2. toPc \in Seq(Replies) /\ "ready" \in Replies /\ "ready" \in PcMarks
    BY LineTypes, Marks
  <1>3. ASSUME NEW w \in Commands, NEW b, Conversing(w, b) PROVE Conversing(w, b)'
    <2>1. Ran /\ executed = Append(b, w)
      BY <1>1, <1>3 DEF Conversing, Unsent, Sent, Summed, GivenUp, Acked
    <2>2. Once(toPc', "ready", PcMarks)
      BY <1>1, <1>2, <2>1, LineAppend DEF Ran
    <2> QED
      BY <1>1, <1>3, <2>1, <2>2 DEF Conversing, Ran, Unmarked, pcVars
  <1> QED
    BY <1>1, <1>3 DEF Resting

\* Steps of the line that take the marks as they are.
LEMMA LineOther ==
    ASSUME TypeOK, DevClock \/ DevUnasked, UNCHANGED <<pc, pcVars>>
    PROVE  /\ \A w \in Commands : \A b : Conversing(w, b) => Conversing(w, b)'
           /\ \A e : Resting(e) => Resting(e)'
  <1> toDev \in Seq(Sendable) /\ toPc \in Seq(Replies)
    BY LineTypes
  <1>1. /\ Quiet(toDev, DevMarks) => Quiet(toDev', DevMarks)
        /\ \A y \in DevMarks : Once(toDev, y, DevMarks) => Once(toDev', y, DevMarks)
    <2>1. CASE DevClock
      <3>1. toDev # <<>> /\ Head(toDev) \notin DevMarks /\ toDev' = Tail(toDev)
        BY <2>1, Marks DEF DevClock, Arrives
      <3> QED
        BY <3>1, LineTail
    <2>2. CASE DevUnasked
      BY <2>2 DEF DevUnasked
    <2> QED
      BY <2>1, <2>2
  <1>2. /\ Quiet(toPc, PcMarks) => Quiet(toPc', PcMarks)
        /\ \A y \in PcMarks : Once(toPc, y, PcMarks) => Once(toPc', y, PcMarks)
    <2>1. CASE DevClock
      BY <2>1 DEF DevClock
    <2>2. CASE DevUnasked
      <3>1. PICK x \in Replies : x \notin PcMarks /\ toPc' = Append(toPc, x)
        BY <2>2, Marks DEF DevUnasked, Unasked
      <3> QED
        BY <3>1, LineAppend
    <2> QED
      BY <2>1, <2>2
  <1>3. UNCHANGED <<dev, executed, busy>>
    BY DEF DevClock, DevUnasked
  <1>4. ASSUME NEW w \in Commands, NEW b, Conversing(w, b) PROVE Conversing(w, b)'
    <2>1. w \in DevMarks /\ "ack" \in DevMarks /\ "ready" \in PcMarks
      BY Marks
    <2>2. Unsent(w) => Unsent(w)'
      BY <1>1, <1>2, <1>3 DEF Unsent, QuietLine, pcVars
    <2>3. Sent(w) => Sent(w)'
      BY <1>1, <1>2, <1>3, <2>1 DEF Sent, Unmarked, pcVars
    <2>4. Summed(w) => Summed(w)'
      BY <1>1, <1>2, <1>3, SumOf DEF Summed, Unmarked, pcVars
    <2>5. GivenUp => GivenUp'
      BY <1>1, <1>2, <1>3 DEF GivenUp, QuietLine, Unmarked, pcVars
    <2>6. Acked(w) => Acked(w)'
      BY <1>1, <1>2, <1>3, <2>1 DEF Acked, Unmarked, pcVars
    <2>7. Ran => Ran'
      BY <1>1, <1>2, <1>3, <2>1 DEF Ran, Unmarked, pcVars
    <2> QED
      BY <1>3, <1>4, <2>2, <2>3, <2>4, <2>5, <2>6, <2>7 DEF Conversing, pcVars
  <1>5. \A e : Resting(e) => Resting(e)'
    BY <1>1, <1>2, <1>3 DEF Resting, QuietLine, Unmarked, pcVars
  <1> QED
    BY <1>4, <1>5

\* A sum is garbled: it is the sum of nothing any more.

LEMMA StageLine ==
    ASSUME TypeOK, Stage, Device \/ DevUnasked, UNCHANGED <<pc, pcVars>>
    PROVE  Stage'
  <1>1. {"address", "function"} \subseteq Commands /\ user' = user
    BY DEF Commands, pcVars
  <1>2. ~DevPollAck
    <2>1. toDev # <<>> => Head(toDev) \in Sendable
      BY LineTypes
    <2> QED
      BY <2>1, Marks DEF DevPollAck, Arrives
  <1>3. /\ \A w \in Commands : \A b : Conversing(w, b) => Conversing(w, b)'
        /\ \A e : Resting(e) => Resting(e)'
    BY <1>2, CommandArrives, AckArrives, Ignored, ReadyComes, LineOther DEF Device
  <1> QED
    BY <1>1, <1>3 DEF Stage
-----------------------------------------------------------------------------
(* The driver, at each stage.                                               *)

\* A byte that is taken while the driver reads.
LEMMA Reads ==
    ASSUME TypeOK, NEW b \in Replies, Taken(b)
    PROVE  /\ pc = "read" /\ toPc # <<>> /\ Head(toPc) = b /\ toPc' = Tail(toPc)
           /\ Quiet(toPc, PcMarks) => b \notin PcMarks /\ Quiet(toPc', PcMarks)
           /\ \A y : Once(toPc, y, PcMarks) =>
                /\ b \in PcMarks => b = y /\ Quiet(toPc', PcMarks)
                /\ b \notin PcMarks /\ y \in PcMarks => Once(toPc', y, PcMarks)
  <1>1. toPc \in Seq(Replies) /\ toPc # <<>> /\ Head(toPc) = b /\ toPc' = Tail(toPc)
    BY LineTypes DEF Taken
  <1> QED
    BY <1>1, LineTail DEF Taken

\* A byte that counts for nothing is read and nothing is written, or only the
\* clock: the stages stay, and want_crc may go.
LEMMA ReadsUnmarked ==
    ASSUME TypeOK, DataInv, NEW byte \in Replies, Taken(byte), byte \notin PcMarks,
           data' \in {data, "clock"}, data' # data => data = "none",
           crc' = crc, want_crc' => want_crc,
           UNCHANGED <<toDev, device>>
    PROVE  /\ \A w \in Commands : \A b : Conversing(w, b) => Conversing(w, b)'
           /\ \A e : Resting(e) => Resting(e)'
  <1>1. /\ Quiet(toPc, PcMarks) => Quiet(toPc', PcMarks)
        /\ \A y \in PcMarks : Once(toPc, y, PcMarks) => Once(toPc', y, PcMarks)
    BY Reads
  <1>2. UNCHANGED <<toDev, dev, executed, busy>>
    BY DEF device
  <1>3. /\ Unmarked => Unmarked' /\ (data # "none" => data' = data)
        /\ want_crc' => want_crc
    BY DEF Unmarked
  <1>4. ASSUME NEW w \in Commands, NEW b, Conversing(w, b) PROVE Conversing(w, b)'
    <2>1. w # "none" /\ "ready" \in PcMarks
      BY Marks
    <2>2. Unsent(w) => Unsent(w)'
      BY <1>1, <1>2, <1>3, <2>1 DEF Unsent, QuietLine
    <2>3. Sent(w) => Sent(w)'
      BY <1>1, <1>2, <1>3, <2>1 DEF Sent
    <2>4. Summed(w) => Summed(w)'
      BY <1>1, <1>2, <1>3, SumOf DEF Summed
    <2>5. GivenUp => GivenUp'
      BY <1>1, <1>2, <1>3 DEF GivenUp, QuietLine
    <2>6. Acked(w) => Acked(w)'
      BY <1>1, <1>2, <1>3, <2>1 DEF Acked
    <2>7. Ran => Ran'
      BY <1>1, <1>2, <1>3, <2>1 DEF Ran
    <2> QED
      BY <1>2, <1>3, <1>4, <2>2, <2>3, <2>4, <2>5, <2>6, <2>7 DEF Conversing
  <1>5. \A e : Resting(e) => Resting(e)'
    BY <1>1, <1>2, <1>3 DEF Resting, QuietLine
  <1> QED
    BY <1>4, <1>5

\* A sum that is not taken for one gives the command up.
LEMMA ReadsLostSum ==
    ASSUME TypeOK, NEW byte \in Sums, Taken(byte),
           UNCHANGED <<data, crc, toDev, device>>, ~want_crc'
    PROVE  /\ \A w \in Commands : \A b : Conversing(w, b) => Conversing(w, b)'
           /\ \A e : ~Resting(e)
  <1>1. byte \in Replies /\ byte \in PcMarks /\ byte # "ready"
    BY Marks, SumFacts
  <1>2. ~Quiet(toPc, PcMarks)
    BY <1>1, Reads
  <1>3. ASSUME NEW w \in Commands, NEW b, Conversing(w, b) PROVE Conversing(w, b)'
    <2>1. Summed(w) /\ executed = b
      <3>1. ~(Unsent(w) \/ Sent(w) \/ GivenUp \/ Acked(w))
        BY <1>2 DEF Unsent, Sent, GivenUp, Acked, QuietLine
      <3>2. ~Ran
        BY <1>1, <1>2, Reads DEF Ran
      <3> QED
        BY <1>3, <3>1, <3>2 DEF Conversing
    <2>2. Quiet(toPc', PcMarks)
      BY <1>1, <2>1, Reads DEF Summed
    <2>3. GivenUp'
      BY <2>1, <2>2 DEF GivenUp, Summed, QuietLine, Unmarked, device
    <2> QED
      BY <2>1, <2>3 DEF Conversing, device
  <1> QED
    BY <1>2, <1>3 DEF Resting, QuietLine

\* The checksum is right: the interface has the command.
LEMMA SumOk ==
    ASSUME TypeOK, DataInv, ReadCrcOk
    PROVE  /\ \A w \in Commands : \A b : Conversing(w, b) => Conversing(w, b)'
           /\ \A e : ~Resting(e)
  <1>1. PICK byte \in Replies : Taken(byte)
    BY DEF ReadCrcOk
  <1>2. /\ want_crc /\ byte = Sum[crc] /\ ~want_crc' /\ pc = "read"
        /\ data = "none" => data' = "ack"
        /\ UNCHANGED <<crc, toDev, device>> /\ crc \in Commands
    BY <1>1, Reads DEF ReadCrcOk, ChecksumOk, TypeOK, Taken
  <1>3. byte \in PcMarks /\ byte # "ready"
    BY <1>2, SumOf
  <1>4. ~Quiet(toPc, PcMarks)
    BY <1>1, <1>3, Reads
  <1>5. ASSUME NEW w \in Commands, NEW b, Conversing(w, b) PROVE Conversing(w, b)'
    <2>1. Summed(w) /\ executed = b
      BY <1>2, <1>4, <1>5 DEF Conversing, Unsent, Sent, GivenUp, Acked, Ran, QuietLine
    <2>2. Quiet(toPc', PcMarks)
      BY <1>1, <1>3, <2>1, Reads DEF Summed
    <2>3. data' = "ack"
      BY <1>2, <2>1, Marks DEF DataInv, Summed, Unmarked
    <2>4. Acked(w)'
      BY <1>2, <2>1, <2>2, <2>3 DEF Acked, Summed, device
    <2> QED
      BY <1>2, <2>1, <2>4 DEF Conversing, device
  <1> QED
    BY <1>4, <1>5 DEF Resting, QuietLine

\* "ready" is only read when a command has been run.
LEMMA ReadyRead ==
    ASSUME TypeOK, DataInv, Stage, ReadReady
    PROVE  Stage'
  <1>1. /\ Taken("ready") /\ "ready" \in Replies /\ "ready" \in PcMarks /\ ~want_crc
        /\ pc = "read" /\ user' = NextState
        /\ UNCHANGED <<toDev, dev, executed, busy>>
    BY Marks DEF ReadReady, Taken, device
  <1>2. ~Quiet(toPc, PcMarks)
    BY <1>1, Reads
  <1>3. \A e : ~Resting(e)
    BY <1>2 DEF Resting, QuietLine
  <1>4. ASSUME NEW w \in Commands, NEW b, Conversing(w, b)
        PROVE  /\ Ran /\ executed = Append(b, w) /\ QuietLine' /\ data = "none"
               /\ ~busy /\ dev = "none"
    <2>1. ~(Unsent(w) \/ Sent(w) \/ GivenUp \/ Acked(w))
      BY <1>2 DEF Unsent, Sent, GivenUp, Acked, QuietLine
    <2>2. ~Summed(w)
      <3> SUFFICES ASSUME Summed(w) PROVE FALSE
        OBVIOUS
      <3>1. Once(toPc, Sum[w], PcMarks) /\ Sum[w] # "ready"
        BY SumOf DEF Summed
      <3> QED
        BY <1>1, <3>1, Reads
    <2>3. Ran /\ executed = Append(b, w)
      BY <1>4, <2>1, <2>2 DEF Conversing
    <2>4. Once(toPc, "ready", PcMarks) /\ ~busy
      BY <1>2, <2>3 DEF Ran
    <2>5. QuietLine'
      BY <1>1, <2>3, <2>4, Reads DEF QuietLine, Ran
    <2>6. data = "none"
      BY <1>1, <2>3 DEF DataInv, Ran, Unmarked
    <2> QED
      BY <2>3, <2>4, <2>5, <2>6 DEF Ran
  <1>5. CASE user = "SENT_ADDRESS"
    <2>1. /\ Conversing("address", <<>>) /\ "address" \in Commands
      BY <1>1, <1>5 DEF Stage, Commands
    <2>2. executed = <<"address">> /\ QuietLine' /\ data = "none" /\ ~busy /\ dev = "none"
      <3>1. /\ executed = Append(<<>>, "address") /\ QuietLine' /\ data = "none"
            /\ ~busy /\ dev = "none"
        BY <1>4, <2>1, Zenon
      <3>2. Append(<<>>, "address") = <<"address">>
        OBVIOUS
      <3> QED
        BY <3>1, <3>2
    <2>3. data' = "function" /\ crc' = "function" /\ user' = "SENT_COMMAND"
      BY <1>1, <1>5, <2>2 DEF ReadReady, write_data_crc, NextState
    <2>4. Conversing("function", <<"address">>)'
      BY <1>1, <2>2, <2>3 DEF Conversing, Unsent
    <2> QED
      BY <2>3, <2>4 DEF Stage
  <1>6. CASE user = "SENT_COMMAND"
    <2>1. /\ Conversing("function", <<"address">>) /\ "function" \in Commands
      BY <1>1, <1>6 DEF Stage, Commands
    <2>2. /\ executed = <<"address", "function">> /\ QuietLine' /\ data = "none"
          /\ ~busy /\ dev = "none"
      <3>1. executed = Append(<<"address">>, "function")
        BY <1>4, <2>1
      <3>2. QuietLine' /\ data = "none" /\ ~busy /\ dev = "none"
        BY <1>4, <2>1
      <3> QED
        BY <3>1, <3>2, Both
    <2>3. UNCHANGED <<data, crc, want_crc>> /\ user' = "DONE"
      BY <1>1, <1>6 DEF ReadReady, NextState
    <2>4. Resting(<<"address", "function">>)'
      BY <1>1, <2>2, <2>3 DEF Resting, Unmarked
    <2> QED
      BY <2>3, <2>4 DEF Stage
  <1>7. CASE user \in {"START", "DONE"}
    BY <1>1, <1>3, <1>7 DEF Stage
  <1> QED
    BY <1>1, <1>5, <1>6, <1>7 DEF TypeOK

\* What is in data goes on the line.
LEMMA WriteStage ==
    ASSUME TypeOK, Write
    PROVE  /\ \A w \in Commands : \A b : Conversing(w, b) => Conversing(w, b)'
           /\ \A e : Resting(e) => Resting(e)'
  <1>1. /\ data' = "none"
        /\ toDev' = IF data = "none" THEN toDev ELSE Append(toDev, data)
        /\ UNCHANGED <<want_crc, crc, toPc, dev, executed, busy>>
    BY DEF Write, device
  <1>2. toDev \in Seq(Sendable) /\ (data # "none" => data \in Sendable)
    BY <1>1 DEF TypeOK
  <1>3. Unmarked => /\ Unmarked'
                    /\ Quiet(toDev, DevMarks) => Quiet(toDev', DevMarks)
                    /\ \A y : Once(toDev, y, DevMarks) => Once(toDev', y, DevMarks)
    <2>1. data = "clock" => data \notin DevMarks /\ data # "none"
      BY Marks
    <2>2. CASE data = "clock"
      <3>1. toDev' = Append(toDev, "clock") /\ "clock" \notin DevMarks /\ "clock" \in Sendable
        BY <1>1, <1>2, <2>1, <2>2
      <3> QED
        BY <1>1, <1>2, <3>1, LineAppend DEF Unmarked
    <2>3. CASE data = "none"
      BY <1>1, <2>3 DEF Unmarked
    <2> QED
      BY <2>2, <2>3 DEF Unmarked
  <1>4. ASSUME NEW w \in Commands, NEW b, Conversing(w, b) PROVE Conversing(w, b)'
    <2>1. w # "none" /\ w \in DevMarks /\ "ack" \in DevMarks
      BY Marks
    <2>2. Unsent(w) => Sent(w)'
      <3> SUFFICES ASSUME Unsent(w) PROVE Sent(w)'
        OBVIOUS
      <3>1. toDev' = Append(toDev, w) /\ w \in Sendable /\ Quiet(toDev, DevMarks)
        BY <1>1, <1>2, <2>1 DEF Unsent, QuietLine
      <3>2. Once(toDev', w, DevMarks)
        BY <1>2, <3>1, LineAppend
      <3> QED
        BY <1>1, <3>2 DEF Unsent, QuietLine, Sent, Unmarked
    <2>3. Sent(w) => Sent(w)'
      BY <1>1, <1>3 DEF Sent
    <2>4. Summed(w) => Summed(w)'
      BY <1>1, <1>3 DEF Summed
    <2>5. GivenUp => GivenUp'
      BY <1>1, <1>3 DEF GivenUp, QuietLine
    <2>6. Acked(w) => Acked(w)'
      <3> SUFFICES ASSUME Acked(w) PROVE Acked(w)'
        OBVIOUS
      <3>1. CASE data = "ack"
        <4>1. toDev' = Append(toDev, "ack") /\ "ack" \in Sendable /\ Quiet(toDev, DevMarks)
          BY <1>1, <1>2, <3>1 DEF Acked, Unmarked
        <4>2. Once(toDev', "ack", DevMarks)
          BY <1>2, <4>1, LineAppend
        <4> QED
          BY <1>1, <4>2 DEF Acked, Unmarked
      <3>2. CASE data # "ack"
        BY <1>1, <1>3, <3>2 DEF Acked
      <3> QED
        BY <3>1, <3>2
    <2>7. Ran => Ran'
      BY <1>1, <1>3 DEF Ran
    <2> QED
      BY <1>1, <1>4, <2>2, <2>3, <2>4, <2>5, <2>6, <2>7 DEF Conversing
  <1>5. \A e : Resting(e) => Resting(e)'
    BY <1>1, <1>3 DEF Resting, QuietLine
  <1> QED
    BY <1>4, <1>5

\* Without garbling, nothing is taken for what it is not.
LEMMA T1Stage == T1Base /\ Stage /\ [Next]_vars /\ noise' = 0 => Stage'
  <1> SUFFICES ASSUME T1Base, Stage, [Next]_vars, noise' = 0 PROVE Stage'
    OBVIOUS
  <1>1. TypeOK /\ DataInv /\ Counted /\ "address" \in Commands /\ "function" \in Commands
    BY DEF T1Base, Commands
  <1>2. CASE /\ user' = user
             /\ \A w \in Commands : \A b : Conversing(w, b) => Conversing(w, b)'
             /\ \A e : Resting(e) => Resting(e)'
    BY <1>1, <1>2 DEF Stage
  <1>3. CASE ReadCrcOk
    BY <1>1, <1>2, <1>3, SumOk DEF ReadCrcOk
  <1>4. CASE ReadCrcNotOk
    <2>1. PICK b \in Replies : Taken(b)
      BY <1>4 DEF ReadCrcNotOk
    <2>2. /\ UNCHANGED <<data, crc, toDev, device>> /\ ~want_crc' /\ user' = user
          /\ want_crc /\ Head(toPc) # Sum[crc] /\ pc = "read"
      BY <1>4, <2>1 DEF ReadCrcNotOk, Taken, ChecksumOk
    <2>3. CASE b \in Sums
      BY <1>1, <1>2, <2>1, <2>2, <2>3, ReadsLostSum
    <2>4. CASE b \notin PcMarks
      BY <1>1, <1>2, <2>1, <2>2, <2>4, ReadsUnmarked
    <2>5. CASE b = "ready"
      <3>1. toPc # <<>> /\ ~Quiet(toPc, PcMarks) /\ b \in PcMarks
        BY <1>1, <2>1, <2>5, Reads, Marks
      <3>2. \A e : ~Resting(e)
        BY <3>1 DEF Resting, QuietLine
      <3>3. \A w \in Commands : \A c : ~Conversing(w, c)
        <4> SUFFICES ASSUME NEW w \in Commands, NEW c, Conversing(w, c) PROVE FALSE
          OBVIOUS
        <4>1. Summed(w)
          BY <2>2, <3>1 DEF Conversing, Unsent, Sent, GivenUp, Acked, Ran, QuietLine
        <4>2. Once(toPc, Sum[w], PcMarks) /\ Sum[w] # "ready"
          BY <4>1, SumOf DEF Summed
        <4> QED
          BY <1>1, <2>1, <2>5, <3>1, <4>2, Reads
      <3> QED
        BY <1>2, <2>2, <3>2, <3>3
    <2> QED
      BY <2>1, <2>3, <2>4, <2>5, Marks, SumFacts
  <1>5. CASE ReadReady
    BY <1>1, <1>5, ReadyRead
  <1>6. CASE ReadPoll
    <2>1. Taken("poll") /\ "poll" \in Replies /\ "poll" \notin PcMarks
      BY <1>6, Marks DEF ReadPoll
    <2>2. UNCHANGED <<user, data, crc, want_crc, toDev, device>>
      BY <1>6 DEF ReadPoll, pcVars
    <2> QED
      BY <1>1, <1>2, <2>1, <2>2, ReadsUnmarked
  <1>7. CASE ReadTimeRequest
    <2>1. Taken("timeRequest") /\ "timeRequest" \in Replies /\ "timeRequest" \notin PcMarks
      BY <1>7, Marks DEF ReadTimeRequest
    <2>2. /\ UNCHANGED <<user, crc, toDev, device>> /\ data' \in {data, "clock"}
          /\ (data' # data => data = "none") /\ (want_crc' => want_crc)
      BY <1>7 DEF ReadTimeRequest, write_data
    <2> QED
      BY <1>1, <1>2, <2>1, <2>2, ReadsUnmarked
  <1>8. CASE ReadOther
    <2>1. PICK b \in Sums \cup {"another"} : Taken(b)
      BY <1>8 DEF ReadOther
    <2>2. UNCHANGED <<user, data, crc, toDev, device>> /\ ~want_crc'
      BY <1>8 DEF ReadOther, pcVars
    <2>3. CASE b \in Sums
      BY <1>1, <1>2, <2>1, <2>2, <2>3, ReadsLostSum
    <2>4. CASE b = "another"
      BY <1>1, <1>2, <2>1, <2>2, <2>4, Marks, ReadsUnmarked
    <2> QED
      BY <2>1, <2>3, <2>4
  <1>9. CASE Write
    BY <1>1, <1>2, <1>9, WriteStage DEF Write
  <1>10. CASE App
    <2>1. CASE user = "START"
      <3>1. data = "none" /\ Resting(<<>>)
        BY <1>1, <1>10, <2>1 DEF App, DataInv, Stage
      <3>2. /\ data' = "address" /\ crc' = "address" /\ user' = "SENT_ADDRESS"
            /\ UNCHANGED <<toDev, toPc, dev, executed, busy>>
        BY <1>10, <2>1, <3>1 DEF App, write_data_crc, device
      <3>3. Conversing("address", <<>>)'
        BY <3>1, <3>2 DEF Conversing, Unsent, Resting, QuietLine
      <3> QED
        BY <3>2, <3>3 DEF Stage
    <2>2. CASE user # "START"
      <3>1. UNCHANGED <<user, data, crc, want_crc, toDev, toPc, dev, executed, busy>>
        BY <1>10, <2>2 DEF App, pcVars, device
      <3> QED
        BY <1>1, <3>1 DEF Stage, Resting, Conversing, Unsent, Sent, Summed, GivenUp,
                          Acked, Ran, Unmarked, QuietLine
    <2> QED
      BY <2>1, <2>2
  <1>11. CASE Line
    <2>1. (Device \/ Noise \/ DevUnasked) /\ UNCHANGED <<pc, pcVars>>
      BY <1>11 DEF Line
    <2>2. Device \/ DevUnasked
      BY <1>1, <2>1, Mishaps
    <2> QED
      BY <1>1, <2>1, <2>2, StageLine
  <1>12. CASE ReadNothing \/ UNCHANGED vars
    <2>1. UNCHANGED <<user, data, crc, want_crc, toDev, toPc, dev, executed, busy>>
      BY <1>12 DEF ReadNothing, vars, pcVars, devVars, device
    <2> QED
      BY <1>1, <2>1 DEF Stage, Resting, Conversing, Unsent, Sent, Summed, GivenUp,
                        Acked, Ran, Unmarked, QuietLine
  <1> QED
    BY <1>3, <1>4, <1>5, <1>6, <1>7, <1>8, <1>9, <1>10, <1>11, <1>12
    DEF Next, Read, Idle

-----------------------------------------------------------------------------
(* test1 with nothing unasked.                                              *)

\* A line of one transmission or reply.
LEMMA Alone ==
    \A x : /\ <<x>> # <<>> /\ Head(<<x>>) = x /\ Tail(<<x>>) = <<>>
           /\ Append(<<>>, x) = <<x>> /\ <<>> \o <<x>> = <<x>>
           /\ \A y : <<y>> \o Tail(<<x>>) = <<y>>
  OBVIOUS

\* What the interface takes off the line, and when.
LEMMA TurnArrives ==
    ASSUME NEW w \in Commands, NEW b, Turn(w, b), NEW x, Arrives(x)
    PROVE  /\ toDev' = <<>> /\ toPc = <<>> /\ data = "none" /\ ~busy
           /\ \/ x = w /\ dev = "none" /\ want_crc /\ crc = w /\ executed = b
              \/ x = "ack" /\ dev = w /\ ~want_crc /\ executed = b
              \/ x = "clock" /\ dev = "none" /\ executed \in {b, Append(b, w)}
  <1>1. toDev # <<>> /\ Head(toDev) = x /\ toDev' = Tail(toDev)
    BY DEF Arrives
  <1>2. toDev = <<x>> => toDev' = <<>>
    BY <1>1, Alone
  <1>3. \A y : toDev = <<y>> => y = x
    BY <1>1, Alone
  <1>4. CASE executed = b /\ Asked(w)
    BY <1>1, <1>2, <1>3, <1>4 DEF Asked
  <1>5. CASE executed = b /\ Confirmed(w)
    BY <1>1, <1>2, <1>3, <1>5 DEF Confirmed
  <1>6. CASE executed \in {b, Append(b, w)} /\ Over
    BY <1>1, <1>2, <1>3, <1>6 DEF Over
  <1>7. ~Answered(w) /\ ~Done
    BY <1>1 DEF Answered, Done
  <1> QED
    BY <1>4, <1>5, <1>6, <1>7 DEF Turn

\* The interface and the line.
LEMMA TurnLine ==
    ASSUME TypeOK, asks = {}, Device \/ Noise, "falseSum" \notin faults',
           UNCHANGED <<pc, pcVars>>, NEW w \in Commands, NEW b, Turn(w, b)
    PROVE  Turn(w, b)' /\ asks' = {}
  <1>1. UNCHANGED <<data, crc, want_crc>>
    BY DEF pcVars
  <1>2. w \notin {"none", "ack", "clock"} /\ Sum[w] \in Replies
    BY Marks, SumOf
  <1>3. CASE DevIgnore \/ DevPollAck
    <2>1. toDev # <<>> => Head(toDev) \in Sendable
      BY LineTypes
    <2> QED
      BY <1>3, <2>1 DEF DevIgnore, DevPollAck, Deaf, Arrives, Sendable
  <1>4. CASE DevCommand
    <2>1. PICK x \in Commands : Arrives(x) /\ dev' = x /\ toPc' = Append(toPc, Sum[x])
      BY <1>4 DEF DevCommand
    <2>2. /\ toDev' = <<>> /\ toPc = <<>> /\ data = "none" /\ ~busy /\ x = w
          /\ want_crc /\ crc = w /\ executed = b
      BY <2>1, TurnArrives, Marks
    <2>3. toPc' = <<Sum[w]>> /\ UNCHANGED <<executed, busy, asks>>
      BY <1>4, <2>1, <2>2, Alone DEF DevCommand
    <2> QED
      BY <1>1, <1>2, <2>1, <2>2, <2>3 DEF Turn, Answered
  <1>5. CASE DevAck
    <2>1. Arrives("ack") /\ Execute /\ UNCHANGED <<toPc, asks>>
      BY <1>5 DEF DevAck
    <2>2. /\ toDev' = <<>> /\ toPc = <<>> /\ data = "none"
          /\ dev = w /\ ~want_crc /\ executed = b
      BY <1>2, <2>1, TurnArrives
    <2> QED
      BY <1>1, <1>2, <2>1, <2>2 DEF Turn, Done, Execute
  <1>6. CASE DevClock
    <2>1. Arrives("clock") /\ UNCHANGED <<toPc, dev, executed, busy>> /\ asks' = {}
      BY <1>6 DEF DevClock
    <2>2. /\ toDev' = <<>> /\ toPc = <<>> /\ data = "none" /\ ~busy
          /\ executed \in {b, Append(b, w)}
      BY <1>2, <2>1, TurnArrives
    <2> QED
      BY <1>1, <2>1, <2>2 DEF Turn, Over
  <1>7. CASE DevReady
    <2>1. busy /\ busy' = FALSE /\ toPc' = Append(toPc, "ready") /\ "ready" \in Replies
          /\ UNCHANGED <<toDev, dev, executed, asks>>
      BY <1>7, RepliesAre DEF DevReady
    <2>2. executed = Append(b, w) /\ Done /\ toPc = <<>>
      BY <2>1 DEF Turn, Asked, Answered, Confirmed, Over, Done
    <2>3. toPc' = <<"ready">>
      BY <2>1, <2>2, Alone
    <2> QED
      BY <1>1, <2>1, <2>2, <2>3 DEF Turn, Done
  <1>8. CASE Garble
    <2>1. PICK z \in Replies : /\ z \notin Sums /\ toPc # <<>>
                               /\ toPc' = <<z>> \o Tail(toPc)
      BY <1>8 DEF Garble, Garbling
    <2>2. UNCHANGED <<toDev, dev, executed, busy, asks>> /\ z # Sum[w]
      BY <1>8, <2>1, SumOf DEF Garble, device
    <2>3. ASSUME NEW y, toPc = <<y>> PROVE toPc' = <<z>>
      BY <2>1, <2>3, Alone
    <2>4. CASE executed = b /\ Answered(w)
      <3>1. toPc' = <<z>>
        BY <2>3, <2>4 DEF Answered
      <3> QED
        BY <1>1, <2>1, <2>2, <2>4, <3>1 DEF Turn, Answered
    <2>5. CASE executed = Append(b, w) /\ Done
      <3>1. toPc' = <<z>> /\ ~busy
        BY <2>1, <2>3, <2>5 DEF Done
      <3> QED
        BY <1>1, <2>1, <2>2, <2>5, <3>1 DEF Turn, Done
    <2> QED
      BY <2>1, <2>2, <2>4, <2>5 DEF Turn, Asked, Confirmed, Over
  <1>9. CASE DevGarbled
    <2>1. PICK x \in Commands, z \in Replies :
             Arrives(x) /\ z # Sum[x] /\ toPc' = Append(toPc, z)
      BY <1>9 DEF DevGarbled
    <2>2. /\ toDev' = <<>> /\ toPc = <<>> /\ data = "none" /\ ~busy /\ x = w
          /\ want_crc /\ crc = w /\ executed = b
      BY <2>1, TurnArrives, Marks
    <2>3. toPc' = <<z>> /\ UNCHANGED <<executed, busy, asks>>
      BY <1>9, <2>1, <2>2, Alone DEF DevGarbled
    <2> QED
      BY <1>1, <2>1, <2>2, <2>3 DEF Turn, Answered
  <1>10. CASE DevFalseAck
    <2>1. PICK x \in Writes \ {"ack"} : Arrives(x)
      BY <1>10 DEF DevFalseAck
    <2>2. /\ toDev' = <<>> /\ toPc = <<>> /\ data = "none" /\ ~busy /\ dev = "none"
          /\ executed \in {b, Append(b, w)}
      BY <2>1, TurnArrives
    <2>3. UNCHANGED <<executed, busy, toPc, asks>>
      BY <1>10, <2>2 DEF DevFalseAck, Execute
    <2> QED
      BY <1>1, <2>2, <2>3 DEF Turn, Over
  <1>11. CASE DevMiss
    <2>1. PICK x \in Writes : Arrives(x)
      BY <1>11 DEF DevMiss
    <2>2. /\ toDev' = <<>> /\ toPc = <<>> /\ data = "none" /\ ~busy
          /\ executed \in {b, Append(b, w)}
      BY <2>1, TurnArrives
    <2>3. UNCHANGED <<executed, busy, toPc, asks>>
      BY <1>11 DEF DevMiss
    <2> QED
      BY <1>1, <2>2, <2>3 DEF Turn, Over
  <1> QED
    BY <1>3, <1>4, <1>5, <1>6, <1>7, <1>8, <1>9, <1>10, <1>11 DEF Device, Noise

\* The driver reads the answer to what it has sent.
LEMMA TurnReads ==
    ASSUME NEW x \in Replies, Taken(x), NEW w \in Commands, NEW b, Turn(w, b)
    PROVE  /\ toPc' = <<>> /\ Head(toPc) = x /\ toDev = <<>> /\ data = "none" /\ ~busy
           /\ \/ want_crc /\ crc = w /\ executed = b /\ (x = Sum[w] => dev = w)
              \/ ~want_crc /\ dev = "none" /\ executed = Append(b, w)
  <1>1. toPc # <<>> /\ Head(toPc) = x /\ toPc' = Tail(toPc)
    BY DEF Taken
  <1>2. \A y : toPc = <<y>> => y = x /\ toPc' = <<>>
    BY <1>1, Alone
  <1>3. CASE executed = b /\ Answered(w)
    BY <1>1, <1>2, <1>3 DEF Answered
  <1>4. CASE executed = Append(b, w) /\ Done
    BY <1>1, <1>2, <1>4 DEF Done
  <1>5. ~(Asked(w) \/ Confirmed(w) \/ Over)
    BY <1>1 DEF Asked, Confirmed, Over
  <1> QED
    BY <1>3, <1>4, <1>5 DEF Turn

\* Nothing happens to an interface with nothing to do.
LEMMA SilentStays ==
    ASSUME NEW e, Silent(e), asks = {}, Device \/ Noise, UNCHANGED <<pc, pcVars>>
    PROVE  FALSE
  BY DEF Silent, Device, DevIgnore, DevCommand, DevAck, DevPollAck, DevClock, DevReady,
         Noise, Garble, DevGarbled, DevFalseAck, DevMiss, Arrives

LEMMA T1Turns ==
    T1Base /\ Turns /\ [Next]_vars /\ polls' = 0 /\ "falseSum" \notin faults' => Turns'
  <1> SUFFICES ASSUME T1Base, Turns, [Next]_vars, polls' = 0, "falseSum" \notin faults'
               PROVE  Turns'
    OBVIOUS
  <1>1. /\ TypeOK /\ DataInv /\ Counted /\ asks = {}
        /\ "address" \in Commands /\ "function" \in Commands
        /\ user \in {"START", "SENT_ADDRESS", "SENT_COMMAND", "DONE"}
    BY DEF T1Base, Commands, Turns, TypeOK
  <1>2. CASE /\ user' = user /\ asks' = {}
             /\ \A w \in Commands : \A b : Turn(w, b) => Turn(w, b)'
             /\ \A e : Silent(e) => Silent(e)'
    BY <1>1, <1>2 DEF Turns
  <1>3. ASSUME NEW x \in Replies, Taken(x) PROVE \A e : ~Silent(e)
    BY <1>3 DEF Taken, Silent
  <1>4. CASE ReadCrcOk
    <2>1. PICK x \in Replies : Taken(x)
      BY <1>4 DEF ReadCrcOk
    <2>2. /\ want_crc /\ Head(toPc) = Sum[crc] /\ ~want_crc' /\ user' = user
          /\ (data = "none" => data' = "ack") /\ UNCHANGED <<toDev, dev, executed, busy, asks>>
      BY <1>4 DEF ReadCrcOk, ChecksumOk, device
    <2>3. ASSUME NEW w \in Commands, NEW b, Turn(w, b) PROVE Turn(w, b)'
      <3>1. /\ toPc' = <<>> /\ Head(toPc) = x /\ toDev = <<>> /\ data = "none" /\ ~busy
            /\ crc = w /\ executed = b /\ (x = Sum[w] => dev = w)
        BY <2>1, <2>2, <2>3, TurnReads
      <3> QED
        BY <2>2, <3>1 DEF Turn, Confirmed
    <2> QED
      BY <1>1, <1>2, <1>3, <2>1, <2>2, <2>3
  <1>5. CASE ReadCrcNotOk
    <2>1. PICK x \in Replies : Taken(x)
      BY <1>5 DEF ReadCrcNotOk
    <2>2. /\ want_crc /\ user' = user /\ UNCHANGED <<data, toDev, dev, executed, busy, asks>>
      BY <1>5 DEF ReadCrcNotOk, device
    <2>3. ASSUME NEW w \in Commands, NEW b, Turn(w, b) PROVE Turn(w, b)'
      <3>1. toPc' = <<>> /\ toDev = <<>> /\ data = "none" /\ ~busy /\ executed = b
        BY <2>1, <2>2, <2>3, TurnReads
      <3> QED
        BY <2>2, <3>1 DEF Turn, Over
    <2> QED
      BY <1>1, <1>2, <1>3, <2>1, <2>2, <2>3
  <1>6. CASE ReadReady
    <2>1. /\ Taken("ready") /\ "ready" \in Replies /\ ~want_crc /\ user' = NextState
          /\ UNCHANGED <<toDev, dev, executed, busy, asks>>
      BY <1>6, RepliesAre DEF ReadReady, device
    <2>2. ASSUME NEW w \in Commands, NEW b, Turn(w, b)
          PROVE  /\ toPc' = <<>> /\ toDev' = <<>> /\ data = "none" /\ ~busy' /\ dev' = "none"
                 /\ executed' = Append(b, w)
      BY <2>1, <2>2, TurnReads
    <2>3. CASE user = "SENT_ADDRESS"
      <3>1. Turn("address", <<>>)
        BY <2>3 DEF Turns
      <3>2. /\ toPc' = <<>> /\ toDev' = <<>> /\ data = "none" /\ ~busy' /\ dev' = "none"
            /\ executed' = Append(<<>>, "address")
        BY <1>1, <2>2, <3>1
      <3>3. executed' = <<"address">>
        BY <3>2, Alone
      <3>4. data' = "function" /\ crc' = "function" /\ want_crc' = TRUE /\ user' = "SENT_COMMAND"
        BY <1>6, <2>1, <2>3, <3>2 DEF ReadReady, write_data_crc, NextState
      <3> QED
        BY <1>1, <2>1, <3>2, <3>3, <3>4 DEF Turns, Turn, Asked
    <2>4. CASE user = "SENT_COMMAND"
      <3>1. Turn("function", <<"address">>)
        BY <2>4 DEF Turns
      <3>2. /\ toPc' = <<>> /\ toDev' = <<>> /\ data = "none" /\ ~busy' /\ dev' = "none"
            /\ executed' = Append(<<"address">>, "function")
        BY <1>1, <2>2, <3>1
      <3>3. data' = data /\ user' = "DONE"
        BY <1>6, <2>1, <2>4 DEF ReadReady, NextState
      <3> QED
        BY <1>1, <2>1, <3>2, <3>3, Both DEF Turns, Silent
    <2>5. CASE user \in {"START", "DONE"}
      BY <1>3, <2>1, <2>5 DEF Turns
    <2> QED
      BY <1>1, <2>3, <2>4, <2>5
  <1>7. CASE ReadPoll \/ ReadTimeRequest \/ ReadOther
    <2>1. PICK x \in Replies : Taken(x)
      BY <1>7, RepliesAre DEF ReadPoll, ReadTimeRequest, ReadOther, Replies, Unasked
    <2>2. /\ ~want_crc /\ user' = user /\ UNCHANGED <<toDev, dev, executed, busy, asks>>
          /\ data' = data \/ data' = "clock"
      BY <1>7 DEF ReadPoll, ReadTimeRequest, ReadOther, write_data, pcVars, device
    <2>3. ASSUME NEW w \in Commands, NEW b, Turn(w, b) PROVE Turn(w, b)'
      <3>1. /\ toPc' = <<>> /\ toDev = <<>> /\ data = "none" /\ ~busy /\ dev = "none"
            /\ executed = Append(b, w)
        BY <2>1, <2>2, <2>3, TurnReads
      <3> QED
        BY <2>2, <3>1 DEF Turn, Over
    <2> QED
      BY <1>1, <1>2, <1>3, <2>1, <2>2, <2>3
  <1>8. CASE Write
    <2>1. /\ UNCHANGED <<user, crc, want_crc, toPc, dev, executed, busy, asks>>
          /\ data' = "none"
          /\ toDev' = IF data = "none" THEN toDev ELSE Append(toDev, data)
      BY <1>8 DEF Write, device
    <2>2. ASSUME NEW w \in Commands, NEW b, Turn(w, b) PROVE Turn(w, b)'
      <3>1. toDev' = IF data = "none" THEN toDev ELSE <<data>>
        <4>1. data # "none" => toDev = <<>>
          BY <2>2 DEF Turn, Asked, Answered, Confirmed, Done, Over
        <4> QED
          BY <2>1, <4>1, Alone
      <3>2. w # "none"
        BY Marks
      <3>3. CASE executed = b /\ (Asked(w) \/ Answered(w) \/ Confirmed(w))
        <4>1. Asked(w) => Asked(w)'
          BY <2>1, <3>1, <3>2 DEF Asked
        <4>2. Answered(w) => Answered(w)'
          BY <2>1, <3>1 DEF Answered
        <4>3. Confirmed(w) => Confirmed(w)'
          BY <2>1, <3>1 DEF Confirmed
        <4> QED
          BY <2>1, <3>3, <4>1, <4>2, <4>3 DEF Turn
      <3>4. CASE executed = Append(b, w) /\ Done
        BY <2>1, <3>1, <3>4 DEF Turn, Done
      <3>5. CASE executed \in {b, Append(b, w)} /\ Over
        BY <2>1, <3>1, <3>5 DEF Turn, Over
      <3> QED
        BY <2>2, <3>3, <3>4, <3>5 DEF Turn
    <2>3. \A e : Silent(e) => Silent(e)'
      BY <2>1 DEF Silent
    <2> QED
      BY <1>1, <1>2, <2>1, <2>2, <2>3
  <1>9. CASE App
    <2>1. CASE user = "START"
      <3>1. Silent(<<>>)
        BY <2>1 DEF Turns
      <3>2. /\ data' = "address" /\ crc' = "address" /\ want_crc' = TRUE
            /\ user' = "SENT_ADDRESS" /\ UNCHANGED <<toDev, toPc, dev, executed, busy, asks>>
        BY <1>9, <2>1, <3>1 DEF App, write_data_crc, device, Silent
      <3> QED
        BY <1>1, <3>1, <3>2 DEF Turns, Turn, Asked, Silent
    <2>2. CASE user # "START"
      <3>1. UNCHANGED <<user, data, crc, want_crc, toDev, toPc, dev, executed, busy, asks>>
        BY <1>9, <2>2 DEF App, pcVars, device
      <3> QED
        BY <1>1, <3>1 DEF Turns, Silent, Turn, Asked, Answered, Confirmed, Done, Over
    <2> QED
      BY <2>1, <2>2
  <1>10. CASE Line
    <2>1. (Device \/ Noise \/ DevUnasked) /\ UNCHANGED <<pc, pcVars>> /\ user' = user
      BY <1>10 DEF Line, pcVars
    <2>2. Device \/ Noise
      BY <1>1, <2>1, Mishaps
    <2>3. \A e : ~Silent(e)
      BY <1>1, <2>1, <2>2, SilentStays
    <2>4. \A w \in Commands : \A b : Turn(w, b) => Turn(w, b)' /\ asks' = {}
      BY <1>1, <2>1, <2>2, TurnLine
    <2>5. \E w \in Commands : \E b : Turn(w, b)
      BY <1>1, <2>3 DEF Turns
    <2> QED
      BY <1>2, <2>1, <2>3, <2>4, <2>5
  <1>11. CASE ReadNothing \/ UNCHANGED vars
    <2>1. UNCHANGED <<user, data, crc, want_crc, toDev, toPc, dev, executed, busy, asks>>
      BY <1>11 DEF ReadNothing, vars, pcVars, devVars, device
    <2> QED
      BY <1>1, <2>1 DEF Turns, Silent, Turn, Asked, Answered, Confirmed, Done, Over
  <1> QED
    BY <1>4, <1>5, <1>6, <1>7, <1>8, <1>9, <1>10, <1>11 DEF Next, Read, Idle

\* Every step of the test program, the library and the device keeps it.
LEMMA T1Step == T1Inv /\ [Next]_vars => T1Inv'
  <1> SUFFICES ASSUME T1Inv, [Next]_vars PROVE T1Inv'
    OBVIOUS
  <1>1. T1Base /\ Counted
    BY DEF T1Inv, T1Base
  <1>2. Device \/ Noise \/ DevUnasked \/ UNCHANGED mishaps
    BY DEF Next, Idle, Read, ReadCrcOk, ReadCrcNotOk, ReadReady, ReadPoll, ReadTimeRequest,
           ReadOther, ReadNothing, Write, App, Line, vars, devVars
  <1>3. /\ Counted' /\ (noise' = 0 => noise = 0) /\ (polls' = 0 => polls = 0)
        /\ "falseSum" \in faults => "falseSum" \in faults'
    BY <1>1, <1>2, Mishaps
  <1>4. T1Base'
    BY <1>1, <1>3, T1Type, T1Data DEF T1Base
  <1> QED
    BY <1>1, <1>3, <1>4, T1Stage, T1Turns DEF T1Inv

\* What the stages and the turns say of the power line.
LEMMA StageSays ==
    ASSUME T1Inv, noise = 0 \/ (polls = 0 /\ "falseSum" \notin faults)
    PROVE  executed \in Good /\ (user = "DONE" => executed = <<"address", "function">>)
  <1>1. \A w \in Commands : Before(w) \in Good /\ Append(Before(w), w) \in Good
    BY BeforeGood
  <1>2. "address" \in Commands /\ "function" \in Commands
    BY Marks
  <1>3. user \in {"START", "SENT_ADDRESS", "SENT_COMMAND", "DONE"}
    BY DEF T1Inv, T1Base, TypeOK
  <1>4. /\ <<>> \in Good /\ <<"address", "function">> \in Good
        /\ Before("address") = <<>> /\ Before("function") = <<"address">>
    BY DEF Good, Before
  <1> HIDE DEF Good
  <1>5. CASE Stage
    BY <1>1, <1>2, <1>3, <1>4, <1>5 DEF Stage, Resting, Conversing
  <1>6. CASE Turns
    BY <1>1, <1>2, <1>3, <1>4, <1>6 DEF Turns, Silent, Turn
  <1> QED
    BY <1>5, <1>6 DEF T1Inv

-----------------------------------------------------------------------------
(* x10_cm11.  What is on a line to the interface that does not garble takes *)
(* it through the stages of the conversation: 1 and 3 with the address and  *)
(* the function received, 2 and 4 with them run, 6 when it is told the time *)
(* after that.  From stage 5 it ignores what comes, as the conversation     *)
(* does not tell it the time; that comes after all of it, and leads to 7.   *)

XType ==
    /\ at \in {<<"select">>} \cup ({"write", "sum", "ready"} \X Commands)
    /\ loop_count \in {0, 1}
    /\ toDev \in Seq(Writes) /\ toPc \in Seq(Replies)

DevStage(d) ==
    \/ d = 0 /\ dev = "none" /\ executed = <<>>
    \/ d = 1 /\ dev = "address" /\ executed = <<>>
    \/ d = 2 /\ dev = "none" /\ executed = <<"address">>
    \/ d = 3 /\ dev = "function" /\ executed = <<"address">>
    \/ d \in {4, 6} /\ dev = "none" /\ executed = <<"address", "function">>
    \/ d = 5 /\ Deaf /\ executed \in Good
    \/ d = 7 /\ executed \in Good

HostStage(h) ==
    /\ at = <<"select">>            => IF loop_count = 0 THEN h = 0 ELSE h \in 4 .. 7
    /\ at = <<"write", "address">>  => h \in {0, 1, 5}
    /\ at = <<"sum", "address">>    => h \in {1, 5}
    /\ at = <<"ready", "address">>  => h \in {2, 5}
    /\ at = <<"write", "function">> => h \in {2, 3, 5}
    /\ at = <<"sum", "function">>   => h \in {3, 5}
    /\ at = <<"ready", "function">> => h \in {4, 5}

\* w takes the interface from stage x to stage y.
Leads(x, w, y) ==
    \/ w = "pollAck"   /\ y = x
    \/ w = "clock"     /\ \/ x = 0 /\ y = 0
                          \/ x \in {4, 6} /\ y = 6
                          \/ x \in {5, 7} /\ y = 7
    \/ w = "address"   /\ x \in {0, 1} /\ y = 1
    \/ w = "function"  /\ x \in {2, 3} /\ y = 3
    \/ w = "ack"       /\ x \in {1, 3} /\ y = x + 1
    \/ w \in DevMarks  /\ x = 5 /\ y = 5

Path(q, d, h) ==
    \E r \in [0 .. Len(q) -> 0 .. 7] :
        /\ r[0] = d /\ r[Len(q)] = h
        /\ \A i \in 1 .. Len(q) : Leads(r[i - 1], q[i], r[i])
        /\ \A i, j \in 0 .. Len(q) : i <= j => r[i] <= r[j]

Ordered ==
    /\ at # <<"select">> => loop_count = 0
    /\ \E d, h \in 0 .. 7 : DevStage(d) /\ HostStage(h) /\ Path(toDev, d, h)

\* With nothing unasked and nothing but visible garbling, the two sides take
\* turns, or one is not answered.
Alternating ==
    /\ asks = {}
    /\ at = <<"select">> =>
            /\ toDev = <<>> /\ toPc = <<>> /\ ~busy
            /\ executed = IF loop_count = 0 THEN <<>> ELSE <<"address", "function">>
    /\ at # <<"select">> => loop_count = 0
    /\ \A w \in Commands :
        /\ at = <<"write", w>> =>
                toDev = <<>> /\ toPc = <<>> /\ ~busy /\ executed = Before(w)
        /\ at = <<"sum", w>> =>
                /\ ~busy /\ executed = Before(w)
                /\ \/ toDev = <<w>> /\ toPc = <<>>
                   \/ toDev = <<>> /\ toPc = <<>>
                   \/ /\ toDev = <<>>
                      /\ \E b \in Replies : toPc = <<b>> /\ (b = Sum[w] => dev = w)
        /\ at = <<"ready", w>> =>
                \/ /\ toDev = <<"ack">> /\ toPc = <<>> /\ dev = w /\ ~busy
                   /\ executed = Before(w)
                \/ toDev = <<>> /\ toPc = <<>> /\ ~busy /\ executed = Before(w)
                \/ /\ toDev = <<>> /\ executed = Append(Before(w), w)
                   /\ \/ busy /\ toPc = <<>>
                      \/ ~busy /\ \E b \in Replies : toPc = <<b>>

X1Inv == XType /\ Counted /\ (noise = 0 => Ordered) /\ (OnlyVisible => Alternating)

\* What the host can send next.
LEMMA HostLeads ==
    /\ Leads(0, "clock", 0)
    /\ \A x \in {4, 6} : Leads(x, "clock", 6)
    /\ \A x \in {5, 7} : Leads(x, "clock", 7)
    /\ \A x \in {0, 1} : Leads(x, "address", 1)
    /\ \A x \in {2, 3} : Leads(x, "function", 3)
    /\ Leads(1, "ack", 2) /\ Leads(3, "ack", 4)
    /\ Leads(5, "address", 5) /\ Leads(5, "function", 5) /\ Leads(5, "ack", 5)
  <1>1. {"address", "function", "ack"} \subseteq DevMarks
    BY Marks
  <1> QED
    BY <1>1 DEF Leads

\* A step along the line never leads back.
LEMMA LeadsOn ==
    ASSUME NEW x \in 0 .. 7, NEW w, NEW y \in 0 .. 7, Leads(x, w, y)
    PROVE  x <= y
  BY DEF Leads

\* The line grows.
LEMMA PathAppend ==
    ASSUME NEW q \in Seq(Writes), NEW d, NEW h \in 0 .. 7, NEW x \in Writes, NEW y \in 0 .. 7,
           Path(q, d, h), Leads(h, x, y)
    PROVE  Path(Append(q, x), d, y)
  <1> DEFINE s == Append(q, x)
             n == Len(q)
  <1>1. PICK r \in [0 .. n -> 0 .. 7] :
          /\ r[0] = d /\ r[n] = h
          /\ \A i \in 1 .. n : Leads(r[i - 1], q[i], r[i])
          /\ \A i, j \in 0 .. n : i <= j => r[i] <= r[j]
    BY DEF Path
  <1>2. /\ n \in Nat /\ Len(s) = n + 1 /\ s[n + 1] = x
        /\ \A i \in 1 .. n : s[i] = q[i]
    OBVIOUS
  <1> DEFINE t == [i \in 0 .. n + 1 |-> IF i = n + 1 THEN y ELSE r[i]]
  <1> HIDE DEF s, n
  <1>3. t \in [0 .. Len(s) -> 0 .. 7] /\ t[0] = d /\ t[Len(s)] = y
    BY <1>1, <1>2
  <1>4. \A i \in 1 .. Len(s) : Leads(t[i - 1], s[i], t[i])
    <2> TAKE i \in 1 .. Len(s)
    <2>1. CASE i = n + 1
      <3>1. t[i - 1] = h /\ t[i] = y /\ s[i] = x
        BY <1>1, <1>2, <2>1
      <3> QED
        BY <3>1
    <2>2. CASE i # n + 1
      <3>1. i \in 1 .. n
        BY <1>2, <2>2
      <3>2. t[i - 1] = r[i - 1] /\ t[i] = r[i] /\ s[i] = q[i]
        BY <1>2, <3>1
      <3> QED
        BY <1>1, <3>1, <3>2
    <2> QED
      BY <2>1, <2>2
  <1>5. \A i, j \in 0 .. Len(s) : i <= j => t[i] <= t[j]
    <2> TAKE i, j \in 0 .. Len(s)
    <2>1. h <= y /\ \A k \in 0 .. n : r[k] \in 0 .. 7 /\ r[k] <= h
      <3>1. \A k \in 0 .. n : k <= n /\ n \in 0 .. n
        BY <1>2
      <3> QED
        BY <1>1, <3>1, LeadsOn
    <2>2. CASE j # n + 1
      <3>1. i <= j => t[i] = r[i] /\ t[j] = r[j] /\ i \in 0 .. n /\ j \in 0 .. n
        BY <1>2, <2>2
      <3> QED
        BY <1>1, <3>1
    <2>3. CASE j = n + 1
      <3>1. t[j] = y /\ (t[i] = y \/ (i \in 0 .. n /\ t[i] = r[i]))
        BY <1>2, <2>3
      <3> QED
        BY <2>1, <3>1
    <2> QED
      BY <2>2, <2>3
  <1> HIDE DEF t
  <1> QED
    BY <1>3, <1>4, <1>5 DEF Path, s

\* The interface takes the head.
LEMMA PathTail ==
    ASSUME NEW q \in Seq(Writes), q # <<>>, NEW d, NEW h, Path(q, d, h)
    PROVE  \E e \in 0 .. 7 : Leads(d, Head(q), e) /\ Path(Tail(q), e, h)
  <1> DEFINE s == Tail(q)
             n == Len(q)
  <1>1. PICK r \in [0 .. n -> 0 .. 7] :
          /\ r[0] = d /\ r[n] = h
          /\ \A i \in 1 .. n : Leads(r[i - 1], q[i], r[i])
          /\ \A i, j \in 0 .. n : i <= j => r[i] <= r[j]
    BY DEF Path
  <1>2. /\ n \in Nat \ {0} /\ Len(s) = n - 1 /\ Head(q) = q[1]
        /\ \A i \in 1 .. n - 1 : s[i] = q[i + 1]
    OBVIOUS
  <1> DEFINE t == [i \in 0 .. n - 1 |-> r[i + 1]]
  <1> HIDE DEF s, n
  <1>3. t \in [0 .. Len(s) -> 0 .. 7] /\ t[0] = r[1] /\ t[Len(s)] = h /\ r[1] \in 0 .. 7
    BY <1>1, <1>2
  <1>4. \A i \in 1 .. Len(s) : Leads(t[i - 1], s[i], t[i])
    <2> TAKE i \in 1 .. Len(s)
    <2>1. i + 1 \in 1 .. n /\ (i + 1) - 1 = i /\ i \in 1 .. n - 1 /\ i - 1 \in 0 .. n - 1
          /\ (i - 1) + 1 = i
      BY <1>2
    <2>2. t[i - 1] = r[i] /\ t[i] = r[i + 1] /\ s[i] = q[i + 1]
      BY <1>2, <2>1
    <2>3. Leads(r[(i + 1) - 1], q[i + 1], r[i + 1])
      BY <1>1, <2>1
    <2> QED
      BY <2>1, <2>2, <2>3
  <1>5. Leads(d, Head(q), r[1])
    <2>1. 1 \in 1 .. n /\ 1 - 1 = 0
      BY <1>2
    <2>2. Leads(r[1 - 1], q[1], r[1])
      BY <1>1, <2>1
    <2> QED
      BY <1>1, <1>2, <2>1, <2>2
  <1>6. \A i, j \in 0 .. Len(s) : i <= j => t[i] <= t[j]
    <2> TAKE i, j \in 0 .. Len(s)
    <2>1. i + 1 \in 0 .. n /\ j + 1 \in 0 .. n /\ t[i] = r[i + 1] /\ t[j] = r[j + 1]
      BY <1>2
    <2> QED
      BY <1>1, <2>1
  <1> HIDE DEF t
  <1> QED
    BY <1>3, <1>4, <1>5, <1>6 DEF Path, s

\* The interface ignores the head, and with it the rest of the conversation.
LostStage(x) == IF x <= 5 THEN 5 ELSE 7

LEMMA PathLost ==
    ASSUME NEW q \in Seq(Writes), NEW d \in 1 .. 7, NEW h, Path(q, d, h)
    PROVE  Path(q, LostStage(d), LostStage(h)) /\ h \in 1 .. 7
  <1> DEFINE n == Len(q)
  <1>1. PICK r \in [0 .. n -> 0 .. 7] :
          /\ r[0] = d /\ r[n] = h
          /\ \A i \in 1 .. n : Leads(r[i - 1], q[i], r[i])
          /\ \A i, j \in 0 .. n : i <= j => r[i] <= r[j]
    BY DEF Path
  <1>2. n \in Nat /\ \A i \in 1 .. n : q[i] \in Writes
    OBVIOUS
  <1> DEFINE t == [i \in 0 .. n |-> LostStage(r[i])]
  <1> HIDE DEF n
  <1>3. \A i \in 0 .. n : r[i] \in 1 .. 7
    <2>1. \A i \in 0 .. n : 0 <= i /\ 0 \in 0 .. n
      BY <1>2
    <2> QED
      BY <1>1, <2>1
  <1>4. /\ t \in [0 .. n -> 0 .. 7] /\ t[0] = LostStage(d) /\ t[n] = LostStage(h)
        /\ h \in 1 .. 7
    BY <1>1, <1>2, <1>3 DEF LostStage
  <1>5. \A i \in 1 .. n : Leads(t[i - 1], q[i], t[i])
    <2> TAKE i \in 1 .. n
    <2>1. i - 1 \in 0 .. n /\ i \in 0 .. n
      BY <1>2
    <2>2. ASSUME NEW x \in 1 .. 7, NEW w, NEW y \in 1 .. 7, Leads(x, w, y)
          PROVE  Leads(LostStage(x), w, LostStage(y))
      <3>1. CASE w = "pollAck"
        <4>1. y = x
          BY <2>2, <3>1, Marks DEF Leads
        <4> QED
          BY <3>1, <4>1 DEF Leads
      <3>2. CASE w = "clock"
        <4>1. (x \in {4, 6} /\ y = 6) \/ (x \in {5, 7} /\ y = 7)
          <5>1. w \notin DevMarks
            BY <3>2, Marks
          <5> QED
            BY <2>2, <3>2, <5>1 DEF Leads
        <4>2. LostStage(x) \in {5, 7} /\ LostStage(y) = 7
          BY <4>1 DEF LostStage
        <4> QED
          BY <3>2, <4>2 DEF Leads
      <3>3. CASE w \in DevMarks
        <4>1. x \in {1, 2, 3, 5} /\ y \in {1, 2, 3, 4, 5}
          <5>1. w # "pollAck" /\ w # "clock"
            BY <3>3, Marks
          <5> QED
            BY <2>2, <5>1 DEF Leads
        <4>2. LostStage(x) = 5 /\ LostStage(y) = 5
          BY <4>1 DEF LostStage
        <4> QED
          BY <3>3, <4>2 DEF Leads
      <3> QED
        BY <2>2, <3>1, <3>2, <3>3, Marks DEF Leads
    <2>3. Leads(LostStage(r[i - 1]), q[i], LostStage(r[i]))
      BY <1>1, <1>3, <2>1, <2>2
    <2> QED
      BY <2>1, <2>3
  <1>6. \A i, j \in 0 .. n : i <= j => t[i] <= t[j]
    <2> TAKE i, j \in 0 .. n
    <2>1. /\ t[i] = LostStage(r[i]) /\ t[j] = LostStage(r[j])
          /\ r[i] \in 1 .. 7 /\ r[j] \in 1 .. 7 /\ (i <= j => r[i] <= r[j])
      BY <1>1, <1>3
    <2> QED
      BY <2>1 DEF LostStage
  <1> HIDE DEF t
  <1> QED
    BY <1>4, <1>5, <1>6 DEF Path, n

LEMMA X1Init == X10Init => X1Inv
  <1> SUFFICES ASSUME X10Init PROVE X1Inv
    OBVIOUS
  <1>1. /\ at = <<"select">> /\ loop_count = 0 /\ toDev = <<>> /\ toPc = <<>>
        /\ dev = "none" /\ executed = <<>> /\ busy = FALSE /\ noise = 0 /\ polls = 0
        /\ asks = {}
    BY DEF X10Init, DevInit
  <1>2. XType
    <2>1. toDev \in Seq(Writes) /\ toPc \in Seq(Replies)
      BY <1>1
    <2> QED
      BY <1>1, <2>1 DEF XType
  <1>3. Path(<<>>, 0, 0)
    <2> DEFINE r == [i \in 0 .. 0 |-> 0]
    <2>1. r \in [0 .. Len(<<>>) -> 0 .. 7] /\ r[0] = 0 /\ r[Len(<<>>)] = 0
      OBVIOUS
    <2>2. \A i \in 1 .. Len(<<>>) : Leads(r[i - 1], <<>>[i], r[i])
      OBVIOUS
    <2>3. \A i, j \in 0 .. Len(<<>>) : i <= j => r[i] <= r[j]
      OBVIOUS
    <2> HIDE DEF r
    <2> QED
      BY <2>1, <2>2, <2>3 DEF Path
  <1>4. DevStage(0) /\ HostStage(0)
    BY <1>1 DEF DevStage, HostStage
  <1>5. Ordered
    BY <1>1, <1>3, <1>4 DEF Ordered
  <1>6. Alternating
    BY <1>1 DEF Alternating
  <1> QED
    BY <1>1, <1>2, <1>5, <1>6 DEF X1Inv, Counted

\* Where the conversation is.
LEMMA Places ==
    ASSUME XType
    PROVE  \/ at = <<"select">> /\ at[1] = "select"
           \/ \E w \in Commands :
                \/ at = <<"write", w>> /\ at[1] = "write" /\ at[2] = w
                \/ at = <<"sum", w>> /\ at[1] = "sum" /\ at[2] = w
                \/ at = <<"ready", w>> /\ at[1] = "ready" /\ at[2] = w
  BY DEF XType

\* What a byte read in select adds to the line counts for nothing.
LEMMA AnswerAdds ==
    ASSUME NEW b, NEW q \in Seq(Writes)
    PROVE  q \o Answer(b) = q \/ \E w \in {"clock", "pollAck"} : q \o Answer(b) = Append(q, w)
  <1>1. Answer(b) \in {<<>>, <<"pollAck">>, <<"clock">>}
    BY DEF Answer
  <1>2. q \o <<>> = q /\ \A w : q \o <<w>> = Append(q, w)
    OBVIOUS
  <1> QED
    BY <1>1, <1>2, Marks

LEMMA XTypeStep == XType /\ [X10Next]_x10All => XType'
  <1> SUFFICES ASSUME XType, [X10Next]_x10All PROVE XType'
    OBVIOUS
  <1> toDev \in Seq(Writes) /\ toPc \in Seq(Replies)
    BY DEF XType
  <1>1. toDev' \in Seq(Writes) /\ toPc' \in Seq(Replies)
    <2>1. CASE X10Step \/ X10Waits \/ UNCHANGED x10All
      <3>1. toPc' = toPc \/ (toPc # <<>> /\ toPc' = Tail(toPc))
        BY <2>1 DEF X10Step, SelectTimeout, SelectRead, SendCommand, ReadSumBad,
                    ReadSumGood, ReadReadyByte, X10Waits, x10All, devVars
      <3>2. toPc' \in Seq(Replies)
        BY <3>1
      <3>3. toDev' = toDev \/ \E w \in Writes : toDev' = Append(toDev, w)
        <4>1. CASE SelectRead
          BY <4>1, AnswerAdds, Marks DEF SelectRead
        <4>2. CASE SendCommand \/ ReadSumGood
          BY <4>2, Places, Marks DEF SendCommand, ReadSumGood
        <4>3. CASE ~(SelectRead \/ SendCommand \/ ReadSumGood)
          BY <2>1, <4>3 DEF X10Step, SelectTimeout, ReadSumBad, ReadReadyByte, X10Waits,
                            x10All, devVars
        <4> QED
          BY <4>1, <4>2, <4>3
      <3> QED
        BY <3>2, <3>3
    <2>2. CASE X10Line
      BY <2>2, LineTypesStep DEF X10Line
    <2> QED
      BY <2>1, <2>2 DEF X10Next
  <1>2. /\ at' \in {<<"select">>} \cup ({"write", "sum", "ready"} \X Commands)
        /\ loop_count' \in {0, 1}
    <2>1. CASE X10Step
      BY <2>1 DEF X10Step, SelectTimeout, SelectRead, SendCommand, ReadSumBad,
                  ReadSumGood, ReadReadyByte, x10Vars, XType, Commands
    <2>2. CASE X10Line \/ X10Waits \/ UNCHANGED x10All
      BY <2>2 DEF X10Line, X10Waits, x10All, x10Vars, XType
    <2> QED
      BY <2>1, <2>2 DEF X10Next
  <1> QED
    BY <1>1, <1>2 DEF XType

\* Without garbling, what is on the line takes the interface on.
LEMMA OrderedStep ==
    XType /\ Counted /\ Ordered /\ [X10Next]_x10All /\ noise' = 0 => Ordered'
  <1> SUFFICES ASSUME XType, Counted, Ordered, [X10Next]_x10All, noise' = 0
               PROVE  Ordered'
    OBVIOUS
  <1>1. /\ toDev \in Seq(Writes) /\ loop_count \in {0, 1}
        /\ at # <<"select">> => loop_count = 0
    BY DEF XType, Ordered
  <1>2. PICK d \in 0 .. 7, h \in 0 .. 7 :
          DevStage(d) /\ HostStage(h) /\ Path(toDev, d, h)
    BY DEF Ordered
  <1>3. CASE X10Step
    <2>1. UNCHANGED <<dev, executed, asks>>
      BY <1>3 DEF X10Step, SelectTimeout, SelectRead, SendCommand, ReadSumBad,
                  ReadSumGood, ReadReadyByte, device, devVars
    <2>2. DevStage(d)'
      BY <1>2, <2>1 DEF DevStage, Deaf
    <2>3. /\ at' # <<"select">> => loop_count' = 0
          /\ \E g \in 0 .. 7 : HostStage(g)' /\ Path(toDev', d, g)
      <3>1. CASE SelectTimeout
        <4>1. /\ at = <<"select">> /\ loop_count = 0 /\ at' = <<"write", "address">>
              /\ UNCHANGED <<loop_count, toDev>>
          BY <3>1 DEF SelectTimeout, devVars
        <4>2. HostStage(h)'
          BY <1>2, <4>1 DEF HostStage
        <4> QED
          BY <1>2, <4>1, <4>2
      <3>2. CASE SelectRead
        <4>1. UNCHANGED <<at, loop_count>>
          BY <3>2 DEF SelectRead, x10Vars
        <4>2. HostStage(h)'
          BY <1>2, <4>1 DEF HostStage
        <4>3. toDev' = toDev \/ \E w \in {"clock", "pollAck"} : toDev' = Append(toDev, w)
          BY <1>1, <3>2, AnswerAdds DEF SelectRead
        <4>4. h \in {0, 4, 5, 6, 7} /\ (h = 0 => loop_count = 0)
              /\ (h # 0 => loop_count = 1) /\ at = <<"select">>
          BY <1>1, <1>2, <3>2 DEF HostStage, SelectRead
        <4>5. CASE toDev' = toDev
          BY <1>1, <1>2, <4>1, <4>2, <4>5
        <4>6. CASE toDev' = Append(toDev, "pollAck")
          <5>1. Leads(h, "pollAck", h) /\ "pollAck" \in Writes
            BY Marks DEF Leads
          <5>2. Path(toDev', d, h)
            BY <1>1, <1>2, <4>6, <5>1, PathAppend
          <5> QED
            BY <1>1, <4>1, <4>2, <5>2
        <4>7. CASE toDev' = Append(toDev, "clock")
          <5> DEFINE g == IF h = 0 THEN 0 ELSE IF h \in {4, 6} THEN 6 ELSE 7
          <5>1. Leads(h, "clock", g) /\ "clock" \in Writes /\ g \in 0 .. 7
            <6>1. "clock" \in Writes
              BY Marks
            <6>2. CASE h = 0
              BY <6>1, <6>2, HostLeads
            <6>3. CASE h \in {4, 6}
              BY <6>1, <6>3, HostLeads
            <6>4. CASE h \in {5, 7}
              BY <6>1, <6>4, HostLeads
            <6> QED
              BY <4>4, <6>2, <6>3, <6>4
          <5>2. HostStage(g)'
            BY <4>1, <4>4 DEF HostStage
          <5> HIDE DEF g
          <5>3. Path(toDev', d, g)
            BY <1>1, <1>2, <4>7, <5>1, PathAppend
          <5> QED
            BY <1>1, <4>1, <5>1, <5>2, <5>3
        <4> QED
          BY <4>3, <4>5, <4>6, <4>7
      <3>3. CASE SendCommand
        <4>1. PICK w \in Commands : at = <<"write", w>> /\ at[2] = w
          BY <3>3, Places DEF SendCommand
        <4>2. /\ toDev' = Append(toDev, w) /\ at' = <<"sum", w>> /\ loop_count' = loop_count
              /\ w \in Writes
          BY <3>3, <4>1, Marks DEF SendCommand
        <4> DEFINE g == IF h = 5 THEN 5 ELSE IF w = "address" THEN 1 ELSE 3
        <4>3. Leads(h, w, g) /\ g \in 0 .. 7
          <5>1. CASE w = "address"
            BY <1>2, <4>1, <5>1, HostLeads DEF HostStage
          <5>2. CASE w = "function"
            BY <1>2, <4>1, <5>2, HostLeads DEF HostStage
          <5> QED
            BY <5>1, <5>2, Marks
        <4>4. HostStage(g)'
          BY <4>1, <4>2, Marks DEF HostStage
        <4> HIDE DEF g
        <4>5. Path(toDev', d, g)
          BY <1>1, <1>2, <4>2, <4>3, PathAppend
        <4> QED
          BY <1>1, <4>1, <4>2, <4>3, <4>4, <4>5
      <3>4. CASE ReadSumBad
        <4>1. PICK w \in Commands : at = <<"sum", w>> /\ at[2] = w
          BY <3>4, Places DEF ReadSumBad
        <4>2. UNCHANGED <<toDev, loop_count>> /\ at' = <<"write", w>>
          BY <3>4, <4>1 DEF ReadSumBad
        <4>3. HostStage(h)'
          BY <1>2, <4>1, <4>2, Marks DEF HostStage
        <4> QED
          BY <1>1, <1>2, <4>1, <4>2, <4>3
      <3>5. CASE ReadSumGood
        <4>1. PICK w \in Commands : at = <<"sum", w>> /\ at[2] = w
          BY <3>5, Places DEF ReadSumGood
        <4>2. /\ toDev' = Append(toDev, "ack") /\ at' = <<"ready", w>>
              /\ loop_count' = loop_count /\ "ack" \in Writes
          BY <3>5, <4>1, Marks DEF ReadSumGood
        <4> DEFINE g == IF h = 5 THEN 5 ELSE h + 1
        <4>3. (w = "address" /\ h \in {1, 5}) \/ (w = "function" /\ h \in {3, 5})
          <5>1. CASE w = "address"
            BY <1>2, <4>1, <5>1 DEF HostStage
          <5>2. CASE w = "function"
            BY <1>2, <4>1, <5>2 DEF HostStage
          <5> QED
            BY <5>1, <5>2, Marks
        <4>4. Leads(h, "ack", g) /\ g \in 0 .. 7
          BY <4>3, HostLeads
        <4>5. HostStage(g)'
          BY <4>2, <4>3 DEF HostStage
        <4> HIDE DEF g
        <4>6. Path(toDev', d, g)
          BY <1>1, <1>2, <4>2, <4>4, PathAppend
        <4> QED
          BY <1>1, <4>1, <4>2, <4>4, <4>5, <4>6
      <3>6. CASE ReadReadyByte
        <4>1. PICK w \in Commands : at = <<"ready", w>> /\ at[2] = w
          BY <3>6, Places DEF ReadReadyByte
        <4>2. /\ toDev' = toDev
              /\ IF w = "address" THEN at' = <<"write", "function">> /\ loop_count' = loop_count
                                  ELSE at' = <<"select">> /\ loop_count' = 1
          BY <3>6, <4>1 DEF ReadReadyByte
        <4>3. HostStage(h)'
          <5>1. CASE w = "address"
            BY <1>2, <4>1, <4>2, <5>1 DEF HostStage
          <5>2. CASE w = "function"
            BY <1>2, <4>1, <4>2, <5>2 DEF HostStage
          <5> QED
            BY <5>1, <5>2, Marks
        <4> QED
          BY <1>1, <1>2, <4>1, <4>2, <4>3
      <3> QED
        BY <1>3, <3>1, <3>2, <3>3, <3>4, <3>5, <3>6 DEF X10Step
    <2> QED
      BY <2>2, <2>3 DEF Ordered
  <1>4. CASE X10Line
    <2>1. UNCHANGED <<at, loop_count>>
      BY <1>4 DEF X10Line, x10Vars
    <2>2. HostStage(h)' /\ (at' # <<"select">> => loop_count' = 0)
      BY <1>1, <1>2, <2>1 DEF HostStage
    <2>3. ASSUME toDev # <<>>, toDev' = Tail(toDev),
                 \A e \in 0 .. 7 : Leads(d, Head(toDev), e) => DevStage(e)'
          PROVE  Ordered'
      <3>1. PICK e \in 0 .. 7 : Leads(d, Head(toDev), e) /\ Path(toDev', e, h)
        BY <1>1, <1>2, <2>3, PathTail
      <3> QED
        BY <2>2, <2>3, <3>1 DEF Ordered
    <2>4. CASE DevIgnore
      <3>1. /\ toDev # <<>> /\ toDev' = Tail(toDev) /\ Head(toDev) \in DevMarks \cup {"pollAck"}
            /\ Deaf /\ UNCHANGED <<dev, executed, asks>>
        BY <2>4, Marks DEF DevIgnore, Arrives, device
      <3>2. PICK e \in 0 .. 7 : Leads(d, Head(toDev), e) /\ Path(toDev', e, h)
        BY <1>1, <1>2, <3>1, PathTail
      <3>3. CASE e = d
        <4>1. DevStage(e)'
          BY <1>2, <3>1, <3>3 DEF DevStage, Deaf
        <4> QED
          BY <2>2, <3>2, <4>1 DEF Ordered
      <3>4. CASE e # d
        <4>1. d \in {0, 1, 2, 3} /\ e \in {1, 2, 3, 4}
          <5>1. Head(toDev) # "clock" /\ Head(toDev) # "pollAck"
            BY <3>1, <3>2, <3>4, Marks DEF Leads
          <5> QED
            BY <3>2, <3>4, <5>1 DEF Leads
        <4>2. executed \in Good
          BY <1>2, <4>1 DEF DevStage, Good
        <4>3. DevStage(5)'
          BY <3>1, <4>2 DEF DevStage, Deaf
        <4>4. toDev' \in Seq(Writes) /\ e \in 1 .. 7
          BY <1>1, <3>1, <4>1
        <4>5. Path(toDev', LostStage(e), LostStage(h)) /\ h \in 1 .. 7
          BY <3>2, <4>4, PathLost
        <4>6. LostStage(e) = 5 /\ LostStage(h) \in 0 .. 7
          BY <4>1, <4>5 DEF LostStage
        <4>7. HostStage(LostStage(h))'
          BY <1>1, <1>2, <2>1, <4>5 DEF HostStage, LostStage
        <4> QED
          BY <2>2, <4>3, <4>5, <4>6, <4>7 DEF Ordered
      <3> QED
        BY <3>3, <3>4
    <2>5. CASE DevCommand
      <3>1. /\ toDev # <<>> /\ toDev' = Tail(toDev) /\ Head(toDev) \in Commands /\ ~Deaf
            /\ dev' = Head(toDev) /\ executed' = executed
        BY <2>5 DEF DevCommand, Arrives
      <3>2. d # 5
        BY <1>2, <3>1 DEF DevStage
      <3>3. \A e \in 0 .. 7 : Leads(d, Head(toDev), e) => DevStage(e)'
        <4>1. CASE Head(toDev) = "address"
          <5> SUFFICES ASSUME NEW e \in 0 .. 7, Leads(d, "address", e) PROVE DevStage(e)'
            BY <4>1
          <5>1. d \in {0, 1} /\ e = 1
            BY <3>2 DEF Leads
          <5> QED
            BY <1>2, <3>1, <4>1, <5>1 DEF DevStage
        <4>2. CASE Head(toDev) = "function"
          <5> SUFFICES ASSUME NEW e \in 0 .. 7, Leads(d, "function", e) PROVE DevStage(e)'
            BY <4>2
          <5>1. d \in {2, 3} /\ e = 3
            BY <3>2 DEF Leads
          <5> QED
            BY <1>2, <3>1, <4>2, <5>1 DEF DevStage
        <4> QED
          BY <3>1, <4>1, <4>2, Marks
      <3> QED
        BY <2>3, <3>1, <3>3
    <2>6. CASE DevAck
      <3>1. /\ toDev # <<>> /\ toDev' = Tail(toDev) /\ Head(toDev) = "ack" /\ ~Deaf
            /\ dev' = "none"
            /\ dev # "none" => executed' = Append(executed, dev)
        BY <2>6 DEF DevAck, Arrives, Execute
      <3>2. \A e \in 0 .. 7 : Leads(d, Head(toDev), e) => DevStage(e)'
        <4> SUFFICES ASSUME NEW e \in 0 .. 7, Leads(d, "ack", e) PROVE DevStage(e)'
          BY <3>1
        <4>1. d \in {1, 3} /\ e = d + 1
          <5>1. d # 5
            BY <1>2, <3>1 DEF DevStage
          <5> QED
            BY <5>1 DEF Leads
        <4>2. CASE d = 1
          <5>1. executed' = Append(<<>>, "address")
            BY <1>2, <3>1, <4>2 DEF DevStage
          <5>2. executed' = <<"address">> /\ e = 2
            BY <4>1, <4>2, <5>1
          <5> QED
            BY <3>1, <5>2 DEF DevStage
        <4>3. CASE d = 3
          <5>1. executed' = Append(<<"address">>, "function")
            <6>1. dev = "function" /\ executed = <<"address">>
              BY <1>2, <4>3 DEF DevStage
            <6>2. executed' = Append(executed, dev)
              BY <3>1, <6>1
            <6> QED
              BY <6>1, <6>2, Zenon
          <5>2. executed' = <<"address", "function">> /\ e = 4
            BY <4>1, <4>3, <5>1, Both
          <5> QED
            BY <3>1, <5>2 DEF DevStage
        <4> QED
          BY <4>1, <4>2, <4>3
      <3> QED
        BY <2>3, <3>1, <3>2
    <2>7. CASE DevPollAck
      <3>1. /\ toDev # <<>> /\ toDev' = Tail(toDev) /\ Head(toDev) = "pollAck" /\ ~Deaf
            /\ UNCHANGED <<dev, executed>>
        BY <2>7 DEF DevPollAck, Arrives
      <3>2. \A e : Leads(d, Head(toDev), e) => e = d
        BY <3>1, Marks DEF Leads
      <3>3. DevStage(d)'
        BY <1>2, <3>1 DEF DevStage
      <3> QED
        BY <2>3, <3>1, <3>2, <3>3
    <2>8. CASE DevClock
      <3>1. /\ toDev # <<>> /\ toDev' = Tail(toDev) /\ Head(toDev) = "clock"
            /\ UNCHANGED <<dev, executed>>
        BY <2>8 DEF DevClock, Arrives
      <3>2. \A e : Leads(d, Head(toDev), e) =>
                \/ d = 0 /\ e = 0
                \/ d \in {4, 6} /\ e = 6
                \/ d \in {5, 7} /\ e = 7
        <4>1. "clock" \notin DevMarks
          BY Marks
        <4> QED
          BY <3>1, <4>1 DEF Leads
      <3>3. \A e \in 0 .. 7 : Leads(d, Head(toDev), e) => DevStage(e)'
        BY <1>2, <3>1, <3>2 DEF DevStage
      <3> QED
        BY <2>3, <3>1, <3>3
    <2>9. CASE DevReady \/ DevUnasked
      <3>1. UNCHANGED <<toDev, dev, executed>> /\ (Deaf => Deaf')
        BY <2>9 DEF DevReady, DevUnasked, Deaf
      <3>2. DevStage(d)' /\ Path(toDev', d, h)
        BY <1>2, <3>1 DEF DevStage
      <3> QED
        BY <2>2, <3>2 DEF Ordered
    <2>10. ~Noise
      BY <1>4, Mishaps DEF X10Line
    <2> QED
      BY <1>4, <2>4, <2>5, <2>6, <2>7, <2>8, <2>9, <2>10 DEF X10Line, Device
  <1>5. CASE X10Waits \/ UNCHANGED x10All
    <2>1. UNCHANGED <<at, loop_count, toDev, dev, executed, asks>>
      BY <1>5 DEF X10Waits, x10All, x10Vars, devVars, device
    <2>2. DevStage(d)' /\ HostStage(h)' /\ Path(toDev', d, h)
      BY <1>2, <2>1 DEF DevStage, HostStage, Deaf
    <2> QED
      BY <1>1, <2>1, <2>2 DEF Ordered
  <1> QED
    BY <1>3, <1>4, <1>5 DEF X10Next


\* What the interface takes off the line, and where the conversation is then.
LEMMA AnswerArrives ==
    ASSUME XType, Alternating, NEW x, Arrives(x)
    PROVE  /\ toDev' = <<>> /\ toPc = <<>> /\ ~busy /\ loop_count = 0
           /\ \E w \in Commands : /\ executed = Before(w)
                                  /\ \/ x = w /\ at = <<"sum", w>>
                                     \/ x = "ack" /\ at = <<"ready", w>> /\ dev = w
  <1>1. toDev # <<>> /\ Head(toDev) = x /\ toDev' = Tail(toDev)
    BY DEF Arrives
  <1>2. \A y : toDev = <<y>> => y = x /\ toDev' = <<>>
    BY <1>1, Alone
  <1>3. PICK w \in Commands : at \in {<<"sum", w>>, <<"ready", w>>}
    BY <1>1, Places DEF Alternating
  <1>4. CASE at = <<"sum", w>>
    BY <1>1, <1>2, <1>4 DEF Alternating
  <1>5. CASE at = <<"ready", w>>
    BY <1>1, <1>2, <1>5 DEF Alternating
  <1> QED
    BY <1>3, <1>4, <1>5

\* With nothing unasked and only visible garbling, the sides take turns.
LEMMA AlternatingLine ==
    ASSUME XType, Alternating, Device \/ Noise, UNCHANGED x10Vars,
           faults' \cap {"falseSum", "falseAck"} = {}
    PROVE  Alternating'
  <1>1. UNCHANGED <<at, loop_count>> /\ asks = {}
    BY DEF x10Vars, Alternating
  <1>2. ASSUME NEW w \in Commands, at = <<"sum", w>>, loop_count = 0,
               toDev' = <<>>, ~busy', asks' = {}, executed' = Before(w),
               \/ toPc' = <<>>
               \/ \E b \in Replies : toPc' = <<b>> /\ (b = Sum[w] => dev' = w)
        PROVE  Alternating'
    BY <1>1, <1>2 DEF Alternating
  <1>3. ASSUME NEW w \in Commands, at = <<"ready", w>>, loop_count = 0,
               toDev' = <<>>, asks' = {},
               \/ toPc' = <<>> /\ ~busy' /\ executed' = Before(w)
               \/ /\ executed' = Append(Before(w), w)
                  /\ \/ busy' /\ toPc' = <<>>
                     \/ ~busy' /\ \E b \in Replies : toPc' = <<b>>
        PROVE  Alternating'
    BY <1>1, <1>3 DEF Alternating
  <1>4. CASE DevIgnore \/ DevPollAck \/ DevClock
    <2>1. PICK x \in {"pollAck", "clock"} : Arrives(x)
      BY <1>1, <1>4 DEF DevIgnore, DevPollAck, DevClock, Deaf
    <2> QED
      BY <2>1, AnswerArrives, Marks
  <1>5. CASE DevCommand
    <2>1. PICK x \in Commands : Arrives(x) /\ dev' = x /\ toPc' = Append(toPc, Sum[x])
      BY <1>5 DEF DevCommand
    <2>2. /\ toDev' = <<>> /\ toPc = <<>> /\ ~busy /\ loop_count = 0
          /\ executed = Before(x) /\ at = <<"sum", x>>
      BY <2>1, AnswerArrives, Marks
    <2>3. toPc' = <<Sum[x]>> /\ UNCHANGED <<executed, busy, asks>> /\ Sum[x] \in Replies
      BY <1>5, <2>1, <2>2, Alone, SumOf DEF DevCommand
    <2> QED
      BY <1>1, <1>2, <2>1, <2>2, <2>3
  <1>6. CASE DevAck
    <2>1. Arrives("ack") /\ Execute /\ UNCHANGED <<toPc, asks>>
      BY <1>6 DEF DevAck
    <2>2. toDev' = <<>> /\ toPc = <<>> /\ loop_count = 0
      BY <2>1, AnswerArrives
    <2>3. PICK w \in Commands : executed = Before(w) /\ at = <<"ready", w>> /\ dev = w
      <3>1. "ack" \notin Commands
        BY Marks
      <3> QED
        BY <2>1, <3>1, AnswerArrives
    <2>4. executed' = Append(Before(w), w) /\ busy'
      BY <2>1, <2>3, SumOf DEF Execute
    <2> QED
      BY <1>1, <1>3, <2>1, <2>2, <2>3, <2>4
  <1>7. CASE DevReady
    <2>1. busy /\ ~busy' /\ toPc' = Append(toPc, "ready") /\ "ready" \in Replies
          /\ UNCHANGED <<toDev, dev, executed, asks>>
      BY <1>7, RepliesAre DEF DevReady
    <2>2. PICK w \in Commands : at = <<"ready", w>>
      BY <2>1, Places DEF Alternating
    <2>3. toDev = <<>> /\ toPc = <<>> /\ executed = Append(Before(w), w) /\ loop_count = 0
      BY <2>1, <2>2 DEF Alternating
    <2>4. toPc' = <<"ready">>
      BY <2>1, <2>3, Alone
    <2> QED
      BY <1>1, <1>3, <2>1, <2>2, <2>3, <2>4
  <1>8. CASE Garble
    <2>1. PICK z \in Replies : z \notin Sums /\ toPc # <<>> /\ toPc' = <<z>> \o Tail(toPc)
      BY <1>8 DEF Garble, Garbling
    <2>2. UNCHANGED <<toDev, dev, executed, busy, asks>>
      BY <1>8 DEF Garble, device
    <2>3. ASSUME NEW y, toPc = <<y>> PROVE toPc' = <<z>>
      BY <2>1, <2>3, Alone
    <2>4. PICK w \in Commands : at \in {<<"sum", w>>, <<"ready", w>>}
      BY <2>1, Places DEF Alternating
    <2>5. CASE at = <<"sum", w>>
      <3>1. toDev = <<>> /\ ~busy /\ executed = Before(w) /\ loop_count = 0 /\ toPc' = <<z>>
        BY <2>1, <2>3, <2>5 DEF Alternating
      <3> QED
        BY <1>1, <1>2, <2>1, <2>2, <2>5, <3>1, SumOf
    <2>6. CASE at = <<"ready", w>>
      <3>1. /\ toDev = <<>> /\ ~busy /\ executed = Append(Before(w), w) /\ loop_count = 0
            /\ toPc' = <<z>>
        BY <2>1, <2>3, <2>6 DEF Alternating
      <3> QED
        BY <1>1, <1>3, <2>1, <2>2, <2>6, <3>1
    <2> QED
      BY <2>4, <2>5, <2>6
  <1>9. CASE DevGarbled
    <2>1. PICK x \in Commands, z \in Replies :
             Arrives(x) /\ z # Sum[x] /\ toPc' = Append(toPc, z)
      BY <1>9 DEF DevGarbled
    <2>2. /\ toDev' = <<>> /\ toPc = <<>> /\ ~busy /\ loop_count = 0
          /\ executed = Before(x) /\ at = <<"sum", x>>
      BY <2>1, AnswerArrives, Marks
    <2>3. toPc' = <<z>> /\ UNCHANGED <<executed, busy, asks>>
      BY <1>9, <2>1, <2>2, Alone DEF DevGarbled
    <2> QED
      BY <1>1, <1>2, <2>1, <2>2, <2>3
  <1>10. ~DevFalseAck
    BY DEF DevFalseAck, Garbling
  <1>11. CASE DevMiss
    <2>1. PICK x \in Writes : Arrives(x)
      BY <1>11 DEF DevMiss
    <2>2. UNCHANGED <<executed, busy, toPc, asks>>
      BY <1>11 DEF DevMiss
    <2>3. toDev' = <<>> /\ toPc = <<>> /\ ~busy /\ loop_count = 0
      BY <2>1, AnswerArrives
    <2>4. PICK w \in Commands : executed = Before(w) /\ at \in {<<"sum", w>>, <<"ready", w>>}
      BY <2>1, AnswerArrives
    <2> QED
      BY <1>1, <1>2, <1>3, <2>2, <2>3, <2>4
  <1> QED
    BY <1>4, <1>5, <1>6, <1>7, <1>8, <1>9, <1>10, <1>11 DEF Device, Noise

LEMMA AlternatingStep ==
    XType /\ Counted /\ Alternating /\ [X10Next]_x10All /\ OnlyVisible' => Alternating'
  <1> SUFFICES ASSUME XType, Counted, Alternating, [X10Next]_x10All, OnlyVisible'
               PROVE  Alternating'
    OBVIOUS
  <1>1. polls' = 0 /\ asks = {} /\ (at # <<"select">> => loop_count = 0)
    BY DEF OnlyVisible, Alternating
  <1>2. CASE X10Step
    <2>1. UNCHANGED <<dev, executed, busy, asks>>
      BY <1>2 DEF X10Step, SelectTimeout, SelectRead, SendCommand, ReadSumBad,
                  ReadSumGood, ReadReadyByte, device, devVars
    <2>2. CASE SelectTimeout
      BY <1>1, <2>1, <2>2 DEF SelectTimeout, Alternating, devVars, Before
    <2>3. CASE SelectRead
      BY <2>3 DEF SelectRead, Alternating
    <2>4. CASE SendCommand
      <3>1. PICK w \in Commands : at = <<"write", w>> /\ at[2] = w
        BY <2>4, Places DEF SendCommand
      <3>2. /\ toDev' = Append(toDev, w) /\ at' = <<"sum", w>> /\ toPc' = toPc
            /\ loop_count' = loop_count
        BY <2>4, <3>1 DEF SendCommand
      <3>3. /\ toDev' = <<w>> /\ toPc' = <<>> /\ ~busy' /\ executed' = Before(w)
            /\ loop_count' = 0
        BY <1>1, <2>1, <3>1, <3>2, Alone DEF Alternating
      <3> QED
        BY <1>1, <2>1, <3>2, <3>3 DEF Alternating
    <2>5. CASE ReadSumBad
      <3>1. PICK w \in Commands : at = <<"sum", w>> /\ at[2] = w
        BY <2>5, Places DEF ReadSumBad
      <3>2. /\ toPc # <<>> /\ toPc' = Tail(toPc) /\ at' = <<"write", w>> /\ toDev' = toDev
            /\ loop_count' = loop_count
        BY <2>5, <3>1 DEF ReadSumBad
      <3>3. /\ toDev' = <<>> /\ toPc' = <<>> /\ ~busy' /\ executed' = Before(w)
            /\ loop_count' = 0
        BY <1>1, <2>1, <3>1, <3>2, Alone DEF Alternating
      <3> QED
        BY <1>1, <2>1, <3>2, <3>3 DEF Alternating
    <2>6. CASE ReadSumGood
      <3>1. PICK w \in Commands : at = <<"sum", w>> /\ at[2] = w
        BY <2>6, Places DEF ReadSumGood
      <3>2. /\ toPc # <<>> /\ toPc' = Tail(toPc) /\ at' = <<"ready", w>>
            /\ toDev' = Append(toDev, "ack") /\ Head(toPc) = Sum[w]
            /\ loop_count' = loop_count
        BY <2>6, <3>1 DEF ReadSumGood, SumIs
      <3>3. /\ toDev = <<>> /\ ~busy /\ executed = Before(w)
            /\ \E b \in Replies : toPc = <<b>> /\ (b = Sum[w] => dev = w)
        BY <3>1, <3>2 DEF Alternating
      <3>4. dev = w /\ toPc' = <<>> /\ toDev' = <<"ack">>
        BY <3>2, <3>3, Alone
      <3> QED
        BY <1>1, <2>1, <3>1, <3>2, <3>3, <3>4 DEF Alternating
    <2>7. CASE ReadReadyByte
      <3>1. PICK w \in Commands : at = <<"ready", w>> /\ at[2] = w
        BY <2>7, Places DEF ReadReadyByte
      <3>2. /\ toPc # <<>> /\ toPc' = Tail(toPc) /\ toDev' = toDev
            /\ IF w = "address" THEN at' = <<"write", "function">> /\ loop_count' = loop_count
                                ELSE at' = <<"select">> /\ loop_count' = 1
        BY <2>7, <3>1 DEF ReadReadyByte
      <3>3. /\ toDev = <<>> /\ executed = Append(Before(w), w) /\ ~busy
            /\ \E b \in Replies : toPc = <<b>>
        BY <3>1, <3>2 DEF Alternating
      <3>4. toPc' = <<>> /\ toDev' = <<>> /\ ~busy'
        BY <2>1, <3>2, <3>3, Alone
      <3>5. CASE w = "address"
        <4>1. executed' = Before("function") /\ loop_count' = 0
          BY <1>1, <2>1, <3>1, <3>2, <3>3, <3>5, Alone DEF Before
        <4> QED
          BY <1>1, <2>1, <3>2, <3>4, <3>5, <4>1 DEF Alternating
      <3>6. CASE w = "function"
        <4>1. executed' = <<"address", "function">>
          BY <2>1, <3>3, <3>6, Both DEF Before
        <4> QED
          BY <1>1, <2>1, <3>2, <3>4, <3>6, <4>1 DEF Alternating
      <3> QED
        BY <3>5, <3>6, Marks
    <2> QED
      BY <1>2, <2>2, <2>3, <2>4, <2>5, <2>6, <2>7 DEF X10Step
  <1>3. CASE X10Line
    <2>1. Device \/ Noise
      BY <1>1, <1>3, Mishaps DEF X10Line
    <2> QED
      BY <1>3, <2>1, AlternatingLine DEF X10Line, OnlyVisible
  <1>4. CASE X10Waits \/ UNCHANGED x10All
    BY <1>4 DEF X10Waits, x10All, x10Vars, devVars, device, Alternating
  <1> QED
    BY <1>2, <1>3, <1>4 DEF X10Next

\* Likewise for the example.
LEMMA X1Step == X1Inv /\ [X10Next]_x10All => X1Inv'
  <1> SUFFICES ASSUME X1Inv, [X10Next]_x10All PROVE X1Inv'
    OBVIOUS
  <1>1. XType /\ XType' /\ Counted
    BY XTypeStep DEF X1Inv
  <1>2. Device \/ Noise \/ DevUnasked \/ UNCHANGED mishaps
    BY DEF X10Next, X10Step, SelectTimeout, SelectRead, SendCommand, ReadSumBad,
           ReadSumGood, ReadReadyByte, X10Line, X10Waits, x10All, devVars
  <1>3. Counted' /\ (noise' = 0 => noise = 0) /\ (OnlyVisible' => OnlyVisible)
    BY <1>1, <1>2, Mishaps DEF OnlyVisible
  <1> QED
    BY <1>1, <1>3, OrderedStep, AlternatingStep DEF X1Inv

LEMMA X1Says == X1Inv => X10ExecutesOnce
  <1> SUFFICES ASSUME X1Inv PROVE X10ExecutesOnce
    OBVIOUS
  <1>1. ASSUME noise = 0 PROVE executed \in Good
    BY <1>1 DEF X1Inv, Ordered, DevStage, Good
  <1>2. ASSUME OnlyVisible PROVE executed \in Good
    <2>1. XType /\ Alternating
      BY <1>2 DEF X1Inv
    <2>2. CASE at = <<"select">>
      BY <2>1, <2>2 DEF Alternating, Good
    <2>3. CASE at # <<"select">>
      <3>1. PICK w \in Commands : at \in {<<"write", w>>, <<"sum", w>>, <<"ready", w>>}
        BY <2>1, <2>3, Places
      <3>2. executed = Before(w) \/ executed = Append(Before(w), w)
        BY <2>1, <3>1 DEF Alternating
      <3> QED
        BY <3>2, BeforeGood
    <2> QED
      BY <2>2, <2>3
  <1>3. OnlyVisible /\ loop_count = 1 => executed = <<"address", "function">>
    BY DEF X1Inv, Alternating
  <1> QED
    BY <1>1, <1>2, <1>3 DEF X10ExecutesOnce, Good

-----------------------------------------------------------------------------
(* Either program.                                                          *)

E1Inv == /\ program \in {"test1", "x10_cm11"}
         /\ program = "test1" => T1Inv /\ at = <<"select">> /\ loop_count = 0
         /\ program = "x10_cm11" => X1Inv /\ user = "START"

LEMMA E1Init == EitherInit => E1Inv
  BY T1Init, X1Init DEF EitherInit, E1Inv, Init, X10Init

LEMMA E1Step == E1Inv /\ [EitherNext]_all => E1Inv'
  <1> SUFFICES ASSUME E1Inv, [EitherNext]_all PROVE E1Inv'
    OBVIOUS
  <1>1. CASE Next /\ Test1
    BY <1>1, T1Step DEF E1Inv, Test1, x10Vars
  <1>2. CASE X10Next /\ X10
    BY <1>2, X1Step DEF E1Inv, X10, pcVars
  <1>3. CASE UNCHANGED all
    <2>1. UNCHANGED <<program, vars, x10All, at, loop_count, user>>
      BY <1>3 DEF all, vars, x10All, pcVars, x10Vars
    <2> QED
      BY <2>1, T1Step, X1Step DEF E1Inv
  <1> QED
    BY <1>1, <1>2, <1>3 DEF EitherNext

\* The two programs share the device.
LEMMA E1Invariant == EitherSpec => []E1Inv
  BY E1Init, E1Step, PTL DEF EitherSpec

\* test1: whatever is garbled and whatever comes unasked, nothing garbled and
\* no function before its address reaches the power line (libcm11a's checksum).
\* test1: nothing garbled, and the function never before its address, reaches
\* the power line, for any number of garbled transmissions and replies that are
\* not by chance a sum, or any number of unasked bytes (libcm11a's checksum).
THEOREM Test1Intact == EitherSpec => []Test1OnlyIntact
  <1>1. E1Inv => Test1OnlyIntact
    BY StageSays DEF E1Inv, Test1OnlyIntact, OnlyIntactInOrder, Trustworthy,
                     OneKindOfTrouble, Good
  <1> QED
    BY <1>1, E1Invariant, PTL

\* test1: user[0] is DONE only when the address and the function have been run,
\* on the same conditions.
THEOREM DoneExecuted == EitherSpec => []DoneMeansExecuted
  <1>1. E1Inv => DoneMeansExecuted
    <2>1. user = "START" => user # "DONE"
      OBVIOUS
    <2> QED
      BY <2>1, StageSays DEF E1Inv, DoneMeansExecuted, Trustworthy, OneKindOfTrouble
  <1> QED
    BY <1>1, E1Invariant, PTL

\* x10_cm11: commands that are sent again until their sum is right reach the
\* power line once, and in order, for any number of unasked bytes, or of garbled
\* transmissions that the sums give away or that are not answered.
THEOREM ExampleOnce == EitherSpec => []X10ExecutesOnce
  <1>1. E1Inv => X10ExecutesOnce
    <2> SUFFICES ASSUME E1Inv PROVE X10ExecutesOnce
      OBVIOUS
    <2>1. CASE program = "test1"
      <3>1. T1Inv /\ loop_count = 0
        BY <2>1 DEF E1Inv
      <3>2. OnlyVisible => polls = 0 /\ "falseSum" \notin faults
        BY DEF OnlyVisible
      <3> QED
        BY <3>1, <3>2, StageSays DEF X10ExecutesOnce, Good
    <2>2. CASE program = "x10_cm11"
      BY <2>2, X1Says DEF E1Inv
    <2> QED
      BY <2>1, <2>2 DEF E1Inv
  <1> QED
    BY <1>1, E1Invariant, PTL
=============================================================================
