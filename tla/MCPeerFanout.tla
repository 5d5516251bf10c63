---------------------------- MODULE MCPeerFanout ----------------------------
(* PeerFanout on small instances.                                          *)
EXTENDS PeerFanout, TLC

CONSTANTS c1, c2, c3

MCClients == {c1, c2, c3}
MCFds == 4 .. 6

LiveClients == {c1, c2}

\* c1 reads what it is sent and neither closes nor is cut off by an overrun or
\* by the end of the daemon; c2 may do as it likes, and may never read.
LiveSpec == Spec /\ Fairness /\ WF_vars(Receive(c1))

\* A client that never reads does not hold up one that does: c1 is sent
\* everything published since it joined, as long as it stays.  The sockets
\* block, so this rests on what the .cfg says with PollRoom = Units: poll
\* does not report POLLOUT before there is room for a whole message (Linux
\* reports it on a UNIX socket while three quarters of the send buffer are
\* free, and the largest message has 522 bytes).  With less room the one
\* thread is held in send, and this is false.
FastClientServed ==
    \A m \in 1 .. MaxMsgs :
        (c1 \in Served /\ joinAt[c1] < m /\ published >= m)
          ~> \/ <<m, Units - 1>> \in ToSet(stream[c1])
             \/ cli[c1] # "up" \/ pc \in {"exit", "overrun"}

\* A client that closed is dropped and its descriptor freed, however it was
\* connected, or the daemon has stopped.  As above, no send blocks for ever.
ClosedIsDropped ==
    \A c \in LiveClients :
        cli[c] = "closed" ~> (cli[c] # "closed" \/ pc \in {"exit", "overrun"})
=============================================================================
