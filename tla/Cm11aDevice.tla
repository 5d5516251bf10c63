----------------------------- MODULE Cm11aDevice -----------------------------
(***************************************************************************)
(* The CM11A X10 interface and the serial line to it, which both programs  *)
(* that talk to one share (Cm11a, X10Example).  External: it does what     *)
(* docs/X10/CM11A.txt (sections 3, 4, 8) says of it.  A transmission is    *)
(* one element of a queue, not a run of bytes; every reply is one byte.    *)
(*                                                                         *)
(* A garbled reply may be any other byte.  A garbled transmission may be a *)
(* command of another sum, the byte 0x00, or nothing the interface knows;  *)
(* that it becomes a download or a status request (0x9B, 0x8B and others)  *)
(* is left out.                                                            *)
(***************************************************************************)
EXTENDS Integers, Sequences

CONSTANTS
    MaxNoise,   \* bound: transmissions and replies the line garbles
    MaxPolls    \* bound: 0x5A and 0xA5 the interface sends unasked

ASSUME LineAssumption == MaxNoise \in Nat /\ MaxPolls \in Nat

Commands == {"address", "function"}      \* 0x04 0x6E and 0x06 0x62
Writes   == Commands \cup {"ack", "clock", "pollAck"}    \* 0x00, 0x9B, 0xC3
Sum      == [w \in Commands |-> IF w = "address" THEN "sum of address"
                                ELSE "sum of function"]
Sums     == {Sum[w] : w \in Commands}
Unasked  == {"poll", "timeRequest"}                      \* 0x5A, 0xA5
Replies  == Sums \cup Unasked \cup {"ready", "another"}  \* 0x55, the rest

VARIABLES
    toDev, toPc,   \* the serial line
    dev,           \* what the interface has received, or "none"
    executed,      \* what it has put on the power line
    busy,          \* it has yet to say it is ready
    asks,          \* the unasked bytes it waits for the answer to
    noise, polls,
    faults         \* what garbling has led to that no sum gives away: falseSum,
                   \* falseAck, unanswered

device  == <<dev, executed, busy, asks>>
mishaps == <<noise, polls, faults>>
devVars == <<toDev, toPc, device, mishaps>>

DevInit ==
    /\ toDev = <<>> /\ toPc = <<>>
    /\ dev = "none" /\ executed = <<>> /\ busy = FALSE /\ asks = {}
    /\ noise = 0 /\ polls = 0 /\ faults = {}

Arrives(w) == toDev # <<>> /\ Head(toDev) = w /\ toDev' = Tail(toDev)

\* It responds to nothing else until its time request is satisfied.
Deaf == "timeRequest" \in asks

DevIgnore ==
    /\ Deaf /\ \E w \in Writes \ {"clock"} : Arrives(w)
    /\ UNCHANGED <<toPc, device, mishaps>>

\* A header and code arrive, and their sum is returned.
DevCommand ==
    /\ ~Deaf /\ \E w \in Commands : /\ Arrives(w) /\ dev' = w
                                    /\ toPc' = Append(toPc, Sum[w])
    /\ UNCHANGED <<executed, busy, asks, mishaps>>

Execute ==
    /\ dev' = "none"
    /\ IF dev = "none" THEN UNCHANGED <<executed, busy>>
       ELSE executed' = Append(executed, dev) /\ busy' = TRUE

DevAck ==
    /\ ~Deaf /\ Arrives("ack") /\ Execute
    /\ UNCHANGED <<toPc, asks, mishaps>>

\* The poll is answered: what was received from the power line is uploaded,
\* one byte of any value here.
DevPollAck ==
    /\ ~Deaf /\ Arrives("pollAck") /\ asks' = asks \ {"poll"}
    /\ IF "poll" \in asks THEN \E b \in Replies : toPc' = Append(toPc, b)
       ELSE UNCHANGED toPc
    /\ UNCHANGED <<dev, executed, busy, mishaps>>

DevClock ==
    /\ Arrives("clock") /\ asks' = asks \ {"timeRequest"}
    /\ UNCHANGED <<toPc, dev, executed, busy, mishaps>>

DevReady ==
    /\ busy /\ busy' = FALSE /\ toPc' = Append(toPc, "ready")
    /\ UNCHANGED <<toDev, dev, executed, asks, mishaps>>

\* Something was received from the power line, or power was out.
DevUnasked ==
    /\ polls < MaxPolls /\ polls' = polls + 1
    /\ \E b \in Unasked : toPc' = Append(toPc, b) /\ asks' = asks \cup {b}
    /\ UNCHANGED <<toDev, dev, executed, busy, noise, faults>>

Device == DevIgnore \/ DevCommand \/ DevAck \/ DevPollAck \/ DevClock \/ DevReady

-----------------------------------------------------------------------------
\* What the line garbles.

Garbling(kinds) == /\ noise < MaxNoise /\ noise' = noise + 1
                   /\ faults' = faults \cup kinds /\ UNCHANGED polls

\* A reply: any other byte arrives.
Garble ==
    /\ toPc # <<>>
    /\ \E b \in Replies \ {Head(toPc)} :
          /\ toPc' = <<b>> \o Tail(toPc)
          /\ Garbling(IF b \in Sums THEN {"falseSum"} ELSE {})
    /\ UNCHANGED <<toDev, device>>

\* A command: one byte of it is another, and so is the sum.
DevGarbled ==
    /\ ~Deaf
    /\ \E w \in Commands : /\ Arrives(w) /\ dev' = "garbled"
                           /\ \E b \in Replies \ {Sum[w]} : toPc' = Append(toPc, b)
    /\ Garbling({})
    /\ UNCHANGED <<executed, busy, asks>>

\* The interface takes it for the 0x00 that confirms what it received before.
DevFalseAck ==
    /\ ~Deaf /\ \E w \in Writes \ {"ack"} : Arrives(w)
    /\ Execute
    /\ Garbling({"falseAck"})
    /\ UNCHANGED <<toPc, asks>>

\* The interface can do nothing with it, and does not answer.
DevMiss ==
    /\ \E w \in Writes : Arrives(w)
    /\ dev' \in {dev, "none"}
    /\ Garbling({"unanswered"})
    /\ UNCHANGED <<toPc, executed, busy, asks>>

Noise == Garble \/ DevGarbled \/ DevFalseAck \/ DevMiss
=============================================================================
