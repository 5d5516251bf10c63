----------------------------- MODULE FrameReader -----------------------------
(***************************************************************************)
(* How a subscriber takes messages out of the publisher's byte stream:     *)
(* process_csck_in of src/tty_reader/tty_reader_heyu.zig, and of           *)
(* tty_reader_influx.zig, which is the same code.  Four bytes of header    *)
(* (code, size) are read, then size - 4 more, in whatever pieces recv      *)
(* returns them; then the message is processed.                            *)
(*                                                                         *)
(* A byte is named by the message it belongs to and its place in it.  The  *)
(* publisher (PeerFanout) starts each connection with a whole message.     *)
(***************************************************************************)
EXTENDS Integers, Sequences

CONSTANTS
    SizeOf,      \* the messages there are, in order: the size of each,
                 \* which is more than a header
    Reconnects,  \* TRUE: SIGHUP makes a new connection (heyu), FALSE: it
                 \* does not (influx; module TtyInflux)
    Garbage,     \* sizes a header may show that is not one
    MaxHups      \* bound: reloads

Header == 4

Messages == 1 .. Len(SizeOf)

VARIABLES
    up,          \* main_loop runs
    code, size, to_read, buffer,   \* of info_t; readed is Len(buffer)
    lastMsg, lastByte,  \* the last byte the connection delivered
    processed,   \* what was given to process_msg, or skipped by its code
    hups

frame == <<code, size, to_read, buffer>>
vars  == <<up, frame, lastMsg, lastByte, processed, hups>>

readed == Len(buffer)

Init ==
    /\ up = TRUE /\ code = 0 /\ size = 0 /\ to_read = Header /\ buffer = <<>>
    /\ lastMsg = 0 /\ lastByte = 0 /\ processed = <<>> /\ hups = 0

\* The bytes <<m, 1>> ... <<m, SizeOf[m]>> of message m, as the reader sees
\* them when it is in step with the publisher.
Whole(m) == [k \in 1 .. SizeOf[m] |-> <<m, k>>]

\* What recv may return next: bytes the publisher has written, in order, not
\* beyond to_read - readed.
NextByte(b) == IF b[1] \in Messages /\ b[2] < SizeOf[b[1]] THEN <<b[1], b[2] + 1>>
               ELSE <<b[1] + 1, 1>>

BytesAfter[n \in Nat] ==
    IF n = 0 THEN <<>>
    ELSE LET done == BytesAfter[n - 1]
             from == IF n = 1 THEN <<lastMsg, lastByte>> ELSE done[n - 1]
         IN Append(done, NextByte(from))

Received(n) ==
    LET new == BytesAfter[n]
    IN /\ new[n][1] \in Messages
       /\ lastMsg' = new[n][1] /\ lastByte' = new[n][2]

\* A header read off four bytes that are one shows the message's size.
IsHeader(bytes) == \E m \in Messages : bytes = SubSeq(Whole(m), 1, Header)

HeaderShows(bytes) ==
    IF IsHeader(bytes) THEN {<<0, SizeOf[bytes[1][1]]>>}
                       ELSE {0, 1} \X Garbage

BugWanted == Header
Complete(bytes) == Len(bytes) >= to_read
Wanted == to_read - readed

RecvHeader(n) ==
    /\ up /\ to_read = Header /\ Received(n)
    /\ LET bytes == buffer \o BytesAfter[n]
       IN IF ~Complete(bytes)
          THEN buffer' = bytes /\ UNCHANGED <<up, code, size, to_read>>
          ELSE \E shown \in HeaderShows(bytes) :
                 /\ code' = shown[1] /\ size' = shown[2]
                 /\ buffer' = bytes
                 /\ IF shown[2] <= Header
                    THEN up' = FALSE /\ UNCHANGED to_read
                    ELSE to_read' = shown[2] /\ UNCHANGED up
    /\ UNCHANGED <<processed, hups>>

BugRewind(bytes) == buffer' = <<>> /\ UNCHANGED to_read
Rewind(bytes) == buffer' = <<>> /\ to_read' = Header

RecvBody(n) ==
    /\ up /\ to_read # Header /\ Received(n)
    /\ LET bytes == buffer \o BytesAfter[n]
       IN IF ~Complete(bytes)
          THEN buffer' = bytes /\ UNCHANGED <<to_read, processed>>
          ELSE /\ Rewind(bytes)
               /\ processed' = Append(processed, <<code, bytes>>)
    /\ UNCHANGED <<up, code, size, hups>>

Recv == \E n \in 1 .. Wanted : RecvHeader(n) \/ RecvBody(n)

\* The publisher is gone, or recv fails: main_loop ends.
RecvFail ==
    /\ up /\ up' = FALSE
    /\ UNCHANGED <<frame, lastMsg, lastByte, processed, hups>>

\* Reload.  With a new connection the publisher starts with the next message
\* it reads from the bus; info_t, framing included, is kept.
Hup ==
    /\ up /\ hups < MaxHups /\ hups' = hups + 1
    /\ IF Reconnects
       THEN \E m \in {n \in 0 .. Len(SizeOf) : n >= lastMsg} :
              /\ lastMsg' = m
              /\ lastByte' = IF m = 0 THEN 0 ELSE SizeOf[m]
       ELSE UNCHANGED <<lastMsg, lastByte>>
    /\ UNCHANGED <<up, frame, processed>>

AllRead == lastMsg = Len(SizeOf) /\ lastByte = SizeOf[Len(SizeOf)]

Stopped == (~up \/ AllRead) /\ UNCHANGED vars

Next == Recv \/ RecvFail \/ Hup \/ Stopped

Spec == Init /\ [][Next]_vars

-----------------------------------------------------------------------------
TypeOK ==
    /\ up \in BOOLEAN /\ code \in {0, 1} /\ size \in Nat
    /\ to_read >= Header /\ readed <= to_read
    /\ up => readed < to_read
    /\ lastMsg \in 0 .. Len(SizeOf) /\ hups \in 0 .. MaxHups

\* Every message that is processed is a message of the publisher, whole, and
\* they come in the publisher's order.
OnlyWholeMessages ==
    \A i \in 1 .. Len(processed) :
        \E m \in Messages :
            /\ processed[i] = <<0, Whole(m)>>
            /\ i > 1 => \E k \in Messages :
                          k < m /\ processed[i - 1] = <<0, Whole(k)>>

\* On one connection none is skipped either: the messages processed and the
\* one being read are all there were so far.
NothingSkipped ==
    ~Reconnects /\ up =>
        /\ processed = [i \in 1 .. Len(processed) |-> <<0, Whole(i)>>]
        /\ IF buffer = <<>> THEN Len(processed) = lastMsg
           ELSE /\ Len(processed) = lastMsg - 1
                /\ buffer = SubSeq(Whole(lastMsg), 1, lastByte)
=============================================================================
