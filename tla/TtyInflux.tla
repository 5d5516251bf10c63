------------------------------ MODULE TtyInflux ------------------------------
(***************************************************************************)
(* The forwarder as one program, main_loop of                              *)
(* src/tty_reader/tty_reader_influx.zig: InfluxForwarder, whose messages   *)
(* come out of nowhere, composed with FrameReader, which takes them off    *)
(* the publisher's stream.  A step that receives is a step of both.        *)
(***************************************************************************)
EXTENDS InfluxForwarder

CONSTANTS SizeOf, Garbage, MaxHups  \* as in FrameReader

ASSUME TtyAssumption ==
    /\ SizeOf \in Seq({n \in Nat : n > 4})
    /\ Garbage \subseteq Nat /\ MaxHups \in Nat

VARIABLES code, size, to_read, buffer, lastMsg, lastByte, processed, hups

reader == <<code, size, to_read, buffer, lastMsg, lastByte, processed, hups>>
all    == <<vars, reader>>

\* main_loop ends when an error leaves it, which is pc = "final" here.
Running == pc \notin {"final", "exit"}

Reader == INSTANCE FrameReader WITH up <- Running, Reconnects <- FALSE

TtyInit == Init /\ Reader!Init

\* A whole message with the code of this program; the rest of a header or of a
\* message is still to come, or process_csck_in skips the message, otherwise.
Forwarded == processed' # processed /\ code = 0

TtyRecvPart == RecvPart /\ Reader!Recv /\ ~Forwarded
TtyRecvMsg  == RecvMsg /\ Reader!Recv /\ Forwarded
TtyRecvFail == RecvFail /\ Reader!RecvFail

TtyPollCsck == PollCsck /\ UNCHANGED reader
TtyPollHup  == PollHup /\ Reader!Hup

\* Everything else leaves the reader alone.
Rest == /\ \/ PollIsck \/ PollTerm \/ Connected \/ ConnectOk \/ ConnectFail
           \/ MakeRequest \/ MsgDone \/ MsgBad \/ Isck \/ LoopEnd \/ Final
           \/ World \/ Stopped
        /\ UNCHANGED reader

Receive == TtyRecvPart \/ TtyRecvMsg \/ TtyRecvFail

TtyNext == TtyPollCsck \/ TtyPollHup \/ Receive \/ Rest

TtySpec == TtyInit /\ [][TtyNext]_all

\* The thread runs whenever it can.  poll reports every descriptor that is
\* ready: bytes of the publisher cannot be passed over for ever.  Without any,
\* it only reports the publisher's socket if the publisher is gone.
TtyFairness ==
    /\ WF_all(PollIsck /\ UNCHANGED reader)
    /\ WF_all(Receive \/ (Rest /\ pc \notin {"poll", "exit"} /\ pc' # pc))
    /\ SF_all(TtyPollCsck /\ ~Reader!AllRead)

\* Every message that is forwarded is one of the publisher's, whole, in order.
OnlyWholeMessages == Reader!OnlyWholeMessages

\* On the one connection there is, none is skipped, through reloads, failing
\* sends and whatever else the loop does between two pieces of a message.
NothingSkipped == Reader!NothingSkipped

\* Every message the publisher sends is processed, unless the program ends.
AllProcessed ==
    <>(~Running \/ processed = [i \in 1 .. Len(SizeOf) |-> <<0, Reader!Whole(i)>>])
=============================================================================
