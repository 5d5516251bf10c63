----------------------------- MODULE X10Example -----------------------------
(***************************************************************************)
(* The example src/examples/x10_cm11/x10_cm11.c, which talks to the CM11A  *)
(* interface without libcm11a.  When nothing has come for five seconds,    *)
(* the first time, it sends the address of a unit and the function "on",   *)
(* each again and again until the byte it reads next is their sum.  Its    *)
(* blocking reads have no timeout and take whatever byte comes.            *)
(***************************************************************************)
EXTENDS Cm11aDevice

VARIABLES
    at,           \* in main_loop: select, or a command's write, sum or ready
    loop_count    \* 0 or, after the first timeout's conversation, 1

x10Vars == <<at, loop_count>>
x10All  == <<x10Vars, devVars>>

X10Init == at = <<"select">> /\ loop_count = 0 /\ DevInit

\* select: a timeout; it counts on, which tells nothing after the first.
SelectTimeout ==
    /\ at = <<"select">> /\ toPc = <<>> /\ loop_count = 0
    /\ at' = <<"write", "address">>
    /\ UNCHANGED <<loop_count, devVars>>

\* One byte is there; the sums and "ready" are ignored.
Answer(b) == CASE b = "poll"        -> <<"pollAck">>
               [] b = "timeRequest" -> <<"clock">>
               [] OTHER             -> <<>>
SelectRead ==
    /\ at = <<"select">> /\ toPc # <<>>
    /\ toDev' = toDev \o Answer(Head(toPc)) /\ toPc' = Tail(toPc)
    /\ UNCHANGED <<x10Vars, device, mishaps>>

\* The conversation that the first timeout starts.
SendCommand ==
    /\ at[1] = "write"
    /\ toDev' = Append(toDev, at[2]) /\ at' = <<"sum", at[2]>>
    /\ UNCHANGED <<loop_count, toPc, device, mishaps>>

BugSumIs(byte, command) == byte \in Sums
SumIs(byte, command) == byte = Sum[command]

BugReadSumBad ==
    /\ at[1] = "sum" /\ toPc # <<>> /\ ~SumIs(Head(toPc), at[2])
    /\ toPc' = Tail(toPc)
    /\ UNCHANGED <<x10Vars, toDev, device, mishaps>>
ReadSumBad ==
    /\ at[1] = "sum" /\ toPc # <<>> /\ ~SumIs(Head(toPc), at[2])
    /\ toPc' = Tail(toPc) /\ at' = <<"write", at[2]>>
    /\ UNCHANGED <<loop_count, toDev, device, mishaps>>

ReadSumGood ==
    /\ at[1] = "sum" /\ toPc # <<>> /\ SumIs(Head(toPc), at[2])
    /\ toPc' = Tail(toPc) /\ toDev' = Append(toDev, "ack")
    /\ at' = <<"ready", at[2]>>
    /\ UNCHANGED <<loop_count, device, mishaps>>

\* The byte is not looked at.
ReadReadyByte ==
    /\ at[1] = "ready" /\ toPc # <<>> /\ toPc' = Tail(toPc)
    /\ IF at[2] = "address"
       THEN at' = <<"write", "function">> /\ UNCHANGED loop_count
       ELSE at' = <<"select">> /\ loop_count' = 1
    /\ UNCHANGED <<toDev, device, mishaps>>

X10Step == \/ SelectTimeout \/ SelectRead \/ SendCommand
           \/ ReadSumBad \/ ReadSumGood \/ ReadReadyByte

X10Line == (Device \/ Noise \/ DevUnasked) /\ UNCHANGED x10Vars

\* It waits for a byte that nobody sends.
X10Waits == toPc = <<>> /\ at[1] # "write" /\ UNCHANGED x10All

X10Next == X10Step \/ X10Line \/ X10Waits

X10Spec == /\ X10Init /\ [][X10Next]_x10All
           /\ WF_x10All(X10Step) /\ WF_x10All(Device /\ UNCHANGED x10Vars)

-----------------------------------------------------------------------------
\* Garbling that the sums give away, and with nothing unasked.
OnlyVisible == polls = 0 /\ faults \cap {"falseSum", "falseAck"} = {}

\* Garbled commands are sent again until they are intact: only the address
\* and then the function reach the power line, each once, if nothing is
\* garbled or all that is shows in the sums.  Unasked bytes and noise together
\* are another matter: a byte that is taken for a sum leaves the true one
\* behind, to vouch for the next command.  When nothing came unasked, both
\* have been executed when the conversation ends.
X10ExecutesOnce ==
    /\ noise = 0 \/ OnlyVisible =>
         executed \in {<<>>, <<"address">>, <<"address", "function">>}
    /\ OnlyVisible /\ loop_count = 1 => executed = <<"address", "function">>

\* The conversation ends, however many replies are garbled, commands answered
\* with a wrong sum and polls sent in between, unless a time request comes,
\* which the conversation does not answer and without which the interface
\* answers nothing; or a garbled transmission is not answered, or not as what
\* it was: the reads have no timeout.
X10Finishes ==
    <>(\/ loop_count = 1
       \/ at # <<"select">> /\ Deaf
       \/ faults \cap {"unanswered", "falseAck"} # {})
=============================================================================
