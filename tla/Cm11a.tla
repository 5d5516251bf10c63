-------------------------------- MODULE Cm11a --------------------------------
(***************************************************************************)
(* libcm11a, the driver of the CM11A X10 interface, with the program that  *)
(* comes with it: src/libcm11a/libcm11a.c and test1.c.  test1 sends the    *)
(* address of a unit and then the function "on"; the driver compares the   *)
(* interface's checksum of each and calls back.                            *)
(*                                                                         *)
(* The interface and the line are module Cm11aDevice.                      *)
(***************************************************************************)
EXTENDS Cm11aDevice

VARIABLES
    pc,         \* main_loop: read, write or app; done or failed after it
    user,       \* user[0]: START, SENT_ADDRESS, SENT_COMMAND or DONE
    data, crc, want_crc     \* of libcm11a_t; no data is "none"

pcVars == <<user, data, crc, want_crc>>
vars   == <<pc, pcVars, devVars>>

Init ==
    /\ pc = "read" /\ user = "START"
    /\ data = "none" /\ crc = "none" /\ want_crc = FALSE
    /\ DevInit

-----------------------------------------------------------------------------
\* libcm11a_write_data and libcm11a_write_data_crc.  While a write is under
\* way they refuse, which no caller in test1.c looks at.

write_data(w) ==
    IF data # "none" THEN UNCHANGED <<data, crc, want_crc>>
    ELSE data' = w /\ want_crc' = FALSE /\ UNCHANGED crc

BugWriteWantsNoCrc(w) == write_data(w)
write_data_crc(w) ==
    IF data # "none" THEN UNCHANGED <<data, crc, want_crc>>
    ELSE data' = w /\ crc' = w /\ want_crc' = TRUE

\* libcm11a_check_wait_objs, reading.  One byte is taken off the line.

Taken(byte) == pc = "read" /\ toPc # <<>> /\ Head(toPc) = byte
               /\ toPc' = Tail(toPc)

BugChecksumOk == TRUE
ChecksumOk == Head(toPc) = Sum[crc]

\* want_crc: whatever the byte is, it is taken for the checksum.  want_crc is
\* cleared after the callback, which may have written.
ReadCrcOk ==
    /\ want_crc /\ \E b \in Replies : Taken(b)
    /\ ChecksumOk
    /\ data' = (IF data = "none" THEN "ack" ELSE data)   \* test1_crc_ok
    /\ want_crc' = FALSE
    /\ pc' = "write"
    /\ UNCHANGED <<user, crc, toDev, device, mishaps>>

\* test1_crc_not_ok does nothing.
ReadCrcNotOk ==
    /\ want_crc /\ \E b \in Replies : Taken(b)
    /\ ~ChecksumOk
    /\ want_crc' = FALSE
    /\ pc' = "write"
    /\ UNCHANGED <<user, data, crc, toDev, device, mishaps>>

\* test1_interface_ready
BugNextState == IF user = "SENT_ADDRESS" THEN "DONE" ELSE user
NextState == CASE user = "SENT_ADDRESS" -> "SENT_COMMAND"
               [] user = "SENT_COMMAND" -> "DONE"
               [] OTHER                 -> user

ReadReady ==
    /\ ~want_crc /\ Taken("ready")
    /\ IF user = "SENT_ADDRESS" THEN write_data_crc("function")
       ELSE UNCHANGED <<data, crc, want_crc>>
    /\ user' = NextState
    /\ pc' = "write"
    /\ UNCHANGED <<toDev, device, mishaps>>

\* test1_interface_poll does nothing, the interface is not acknowledged.
ReadPoll ==
    /\ ~want_crc /\ Taken("poll")
    /\ pc' = "write"
    /\ UNCHANGED <<pcVars, toDev, device, mishaps>>

\* test1_time_request
ReadTimeRequest ==
    /\ ~want_crc /\ Taken("timeRequest")
    /\ write_data("clock")
    /\ pc' = "write"
    /\ UNCHANGED <<user, toDev, device, mishaps>>

\* Any other byte ends main_loop.
ReadOther ==
    /\ ~want_crc /\ \E b \in Sums \cup {"another"} : Taken(b)
    /\ pc' = "failed"
    /\ UNCHANGED <<pcVars, toDev, device, mishaps>>

ReadNothing ==
    /\ pc = "read" /\ toPc = <<>>
    /\ data # "none" \/ user = "START"    \* otherwise the turn does nothing
    /\ pc' = "write"
    /\ UNCHANGED <<pcVars, toDev, toPc, device, mishaps>>

-----------------------------------------------------------------------------
\* libcm11a_check_wait_objs, writing: all of data goes out.

Write ==
    /\ pc = "write" /\ pc' = "app"
    /\ IF data = "none" THEN UNCHANGED <<data, toDev>>
       ELSE data' = "none" /\ toDev' = Append(toDev, data)
    /\ UNCHANGED <<user, crc, want_crc, toPc, device, mishaps>>

\* The rest of main_loop's body.
App ==
    /\ pc = "app"
    /\ IF user = "START"
       THEN write_data_crc("address") /\ user' = "SENT_ADDRESS"
       ELSE UNCHANGED pcVars
    /\ pc' = IF user = "DONE" THEN "done" ELSE "read"
    /\ UNCHANGED <<toDev, toPc, device, mishaps>>

-----------------------------------------------------------------------------
Waiting == pc \in {"done", "failed"} \/ (pc = "read" /\ toPc = <<>>)
Idle    == Waiting /\ UNCHANGED vars

-----------------------------------------------------------------------------
Read   == ReadCrcOk \/ ReadCrcNotOk \/ ReadReady \/ ReadPoll
          \/ ReadTimeRequest \/ ReadOther \/ ReadNothing
Line   == (Device \/ Noise \/ DevUnasked) /\ UNCHANGED <<pc, pcVars>>

Next == Read \/ Write \/ App \/ Line \/ Idle

Spec == /\ Init /\ [][Next]_vars
        /\ WF_vars(Read) /\ WF_vars(Write) /\ WF_vars(App)
        /\ WF_vars(Device /\ UNCHANGED <<pc, pcVars>>)

-----------------------------------------------------------------------------
Sendable == Writes \ {"pollAck"}      \* no poll is acknowledged

TypeOK ==
    /\ pc \in {"read", "write", "app", "done", "failed"}
    /\ user \in {"START", "SENT_ADDRESS", "SENT_COMMAND", "DONE"}
    /\ data \in Sendable \cup {"none"} /\ crc \in Commands \cup {"none"}
    /\ want_crc \in BOOLEAN /\ (want_crc => crc # "none")
    /\ toDev \in Seq(Sendable) /\ toPc \in Seq(Replies)

\* What the checksum can be relied on for: either the line garbles, or the
\* interface sends something unasked, but not both (a byte that is taken for
\* a sum makes the true one, garbled, look like an answer of the interface);
\* and no garbled reply is by chance a sum.
OneKindOfTrouble == polls = 0 \/ noise = 0
Trustworthy == OneKindOfTrouble /\ "falseSum" \notin faults

\* The checksum does its work: nothing garbled reaches the power line, and
\* the function never before the address it is for, as long as the line is
\* Trustworthy.
OnlyIntactInOrder ==
    Trustworthy => executed \in {<<>>, <<"address">>, <<"address", "function">>}

\* When test1 is done, the unit has been addressed and switched on, as long
\* as the line is Trustworthy.
DoneMeansExecuted ==
    user = "DONE" /\ Trustworthy => executed = <<"address", "function">>

\* Nothing but noise and unasked bytes keeps test1 from finishing.
DoneIfUndisturbed == <>(pc = "done" \/ noise > 0 \/ polls > 0)
=============================================================================
