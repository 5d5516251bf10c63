----------------------------- MODULE PeerFanout -----------------------------
(***************************************************************************)
(* The clients of the publisher daemon, src/tty_reader/tty_reader.zig:     *)
(* tty_main_loop accepts them and builds the poll table, a Modbus read     *)
(* appends a message to the send list of each (process_tty_id_info), and   *)
(* check_peers reads from, writes to and drops them.  main closes and      *)
(* reopens the listener on a reload and after an error; peers stay.        *)
(*                                                                         *)
(* When a read happens is module ScanSchedule; here it may be at any turn  *)
(* of the loop.  The kernel's end of a connection (backlog, receive        *)
(* buffer) and the clients are part of the model.                          *)
(***************************************************************************)
EXTENDS Integers, Sequences, FiniteSets, SequencesExt

CONSTANTS
    Clients, Nobody,
    Fds,          \* the descriptors accept may return, natural numbers
    Units,        \* the pieces a message may be sent in
    MaxPolls,     \* max_polls of tty_main_loop (32)
    Backlog,      \* the backlog given to listen (2)
    SockCap,      \* pieces a client's receive buffer holds
    PollRoom,     \* pieces of room in it when poll says POLLOUT
    MaxMsgs,      \* bound: messages published
    MaxRestarts   \* bound: reloads and errors

ASSUME FanoutAssumption ==
    /\ Nobody \notin Clients /\ Fds \subseteq Nat
    /\ Units \in Nat \ {0} /\ SockCap \in Nat \ {0}
    /\ PollRoom \in 1 .. SockCap
    /\ {MaxPolls, Backlog, MaxMsgs, MaxRestarts} \subseteq Nat

VARIABLES
    pc,          \* top, poll, in, out, sending (blocked in send), sweep,
                 \* sleep, exit or overrun
    peer_list,   \* sequence of [sck, delme, send]: send is the list from
                 \* send_head to send_tail of [msg, sent]
    polls,       \* the polled peers, [fd, events, revents]
    index,       \* the loop variable of check_peers; jndex + 1 in "sweep"
    restarts,
    \* The kernel and the clients.
    sock,        \* who is at the other end of a descriptor
    backlog,     \* connected, not yet accepted
    cli,         \* a client is idle, up or closed
    chat,        \* the client has sent something that is not read yet
    unread,      \* pieces in the client's receive buffer
    \* What was promised and done, for the properties.
    published, joinAt, stream

daemon == <<peer_list, polls, index>>
kernel == <<sock, backlog, cli, chat, unread>>
record == <<published, joinAt, stream>>
vars   == <<pc, daemon, restarts, kernel, record>>

Peers      == ToSet(peer_list)
Scks       == {p.sck : p \in Peers}
Served     == {sock[p.sck] : p \in Peers}
Held(c)    == c \in ToSet(backlog) \/ \E fd \in Fds : sock[fd] = c
FreeFds    == {fd \in Fds : sock[fd] = Nobody}
LowestFree(fd) == fd \in FreeFds /\ \A g \in FreeFds : fd <= g

Init ==
    /\ pc = "top" /\ peer_list = <<>> /\ polls = <<>> /\ index = 1
    /\ restarts = 0
    /\ sock = [fd \in Fds |-> Nobody] /\ backlog = <<>>
    /\ cli = [c \in Clients |-> "idle"]
    /\ chat = [c \in Clients |-> FALSE] /\ unread = [c \in Clients |-> 0]
    /\ published = 0 /\ joinAt = [c \in Clients |-> 0]
    /\ stream = [c \in Clients |-> <<>>]

-----------------------------------------------------------------------------
\* The top of the loop: maybe one block is read and sent to every peer, then
\* the poll table is built from the peers there are now.

BugEnqueue(p) == [p EXCEPT !.send = <<[msg |-> published + 1, sent |-> 0]>>]
Enqueue(p) ==
    [p EXCEPT !.send = Append(@, [msg |-> published + 1, sent |-> 0])]

BugWants(p) == {"IN"}
Wants(p) == {"IN"} \cup (IF p.send # <<>> THEN {"OUT"} ELSE {})

PollTable(ps) ==
    [i \in 1 .. Len(ps) |-> [fd |-> ps[i].sck, events |-> Wants(ps[i]),
                             revents |-> {}]]

\* The terminate, hup and listen descriptors come before the peers.  Beyond
\* the table a checked build panics, and what the ReleaseFast build of
\* tty_reader/readme.txt does is undefined: the model stops at "overrun".
TableFits(ps) == 3 + Len(ps) <= MaxPolls

Top(ps) ==
    /\ peer_list' = ps
    /\ IF TableFits(ps) THEN pc' = "poll" /\ polls' = PollTable(ps)
                        ELSE pc' = "overrun" /\ UNCHANGED polls
    /\ UNCHANGED <<index, restarts, kernel, joinAt, stream>>

TopRead ==
    /\ pc = "top" /\ peer_list # <<>> /\ published < MaxMsgs
    /\ published' = published + 1
    /\ Top([i \in 1 .. Len(peer_list) |-> Enqueue(peer_list[i])])

TopQuiet ==
    /\ pc = "top" /\ Top(peer_list)
    /\ UNCHANGED published

\* The read fails before anything is queued: main sleeps, then reopens.
TopReadFail ==
    /\ pc = "top" /\ peer_list # <<>>
    /\ restarts < MaxRestarts /\ restarts' = restarts + 1
    /\ pc' = "sleep"
    /\ UNCHANGED <<daemon, kernel, record>>

-----------------------------------------------------------------------------
\* poll returns.

Ready(c, event) ==
    CASE event = "IN"  -> chat[c] \/ cli[c] = "closed"
      [] event = "OUT" -> SockCap - unread[c] >= PollRoom \/ cli[c] = "closed"

Returned(p) == [p EXCEPT !.revents = {e \in p.events : Ready(sock[p.fd], e)}]

SomethingReady ==
    backlog # <<>> \/ \E p \in ToSet(polls) : Returned(p).revents # {}

\* peer_list.addOne, init and the accepted descriptor.
NewPeer(fd) == [sck |-> fd, delme |-> FALSE, send |-> <<>>]

AcceptOne ==
    IF backlog = <<>> THEN UNCHANGED <<peer_list, sock, backlog, joinAt, stream>>
    ELSE \E fd \in Fds :
         /\ LowestFree(fd)
         /\ peer_list' = Append(peer_list, NewPeer(fd))
         /\ sock' = [sock EXCEPT ![fd] = Head(backlog)]
         /\ backlog' = Tail(backlog)
         /\ joinAt' = [joinAt EXCEPT ![Head(backlog)] = published]
         /\ stream' = [stream EXCEPT ![Head(backlog)] = <<>>]

PollIo ==
    /\ pc = "poll" /\ SomethingReady
    /\ AcceptOne
    /\ polls' = [i \in 1 .. Len(polls) |-> Returned(polls[i])]
    /\ pc' = (IF polls = <<>> THEN "top" ELSE "in") /\ index' = 1
    /\ UNCHANGED <<restarts, cli, chat, unread, published>>

\* The timeout of check_modbus; with no peers poll waits for ever.
PollTimeout ==
    /\ pc = "poll" /\ ~SomethingReady /\ peer_list # <<>>
    /\ pc' = "top"
    /\ UNCHANGED <<daemon, restarts, kernel, record>>

\* A new listener: those still in the old one's backlog are cut off.
Relisten ==
    /\ backlog' = <<>>
    /\ cli' = [c \in Clients |->
                 IF c \in ToSet(backlog) /\ cli[c] = "closed" THEN "idle"
                 ELSE cli[c]]
    /\ UNCHANGED <<sock, chat, unread>>

\* error.Reload leaves the loop, main closes the listener and starts again.
PollHup ==
    /\ pc = "poll"
    /\ restarts < MaxRestarts /\ restarts' = restarts + 1
    /\ Relisten
    /\ pc' = "top"
    /\ UNCHANGED <<daemon, record>>

\* accept itself fails (no descriptor is left, or the system is short).
PollAcceptFail ==
    /\ pc = "poll" /\ backlog # <<>>
    /\ restarts < MaxRestarts /\ restarts' = restarts + 1
    /\ pc' = "sleep"
    /\ UNCHANGED <<daemon, kernel, record>>

\* After tty_sleep the listener is closed and made anew.
SleepDone ==
    /\ pc = "sleep" /\ Relisten
    /\ pc' = "top"
    /\ UNCHANGED <<daemon, restarts, record>>

\* Terminate: main's defers close every peer.
Exit ==
    /\ pc \in {"poll", "sleep"}
    /\ pc' = "exit" /\ peer_list' = <<>>
    /\ sock' = [fd \in Fds |-> Nobody] /\ backlog' = <<>>
    /\ cli' = [c \in Clients |-> IF cli[c] = "closed" THEN "idle" ELSE cli[c]]
    /\ UNCHANGED <<polls, index, restarts, chat, unread, record>>

-----------------------------------------------------------------------------
\* check_peers, one polled descriptor after the other.

Polled  == polls[index]
Client  == sock[Polled.fd]

\* get_peer_by_sck: the first peer with this descriptor.
HasPeer == Polled.fd \in Scks
PeerAt  == CHOOSE i \in 1 .. Len(peer_list) :
              /\ peer_list[i].sck = Polled.fd
              /\ \A j \in 1 .. i - 1 : peer_list[j].sck # Polled.fd

\* TtyError.PeerNotFound would take the daemon down to main's sleep.
NotFound ==
    /\ pc \in {"in", "out"} /\ index <= Len(polls)
    /\ Polled.revents # {} /\ ~HasPeer

\* peer_list.swapRemove(i): the last peer takes the place of the i-th.
SwapRemove(ps, i) ==
    [j \in 1 .. Len(ps) - 1 |-> IF j = i THEN ps[Len(ps)] ELSE ps[j]]

\* delme is only a mark, the peer stays until the table has been gone through.
BugDropNow(i) == peer_list' = SwapRemove(peer_list, i)
BugKeep(i) == UNCHANGED peer_list
DropAt(i) == peer_list' = [peer_list EXCEPT ![i].delme = TRUE]

CheckIn ==
    /\ pc = "in" /\ index <= Len(polls) /\ pc' = "out"
    /\ IF "IN" \notin Polled.revents
       THEN UNCHANGED <<peer_list, chat>>
       ELSE IF chat[Client]
            THEN chat' = [chat EXCEPT ![Client] = FALSE] /\ UNCHANGED peer_list
            ELSE DropAt(PeerAt) /\ UNCHANGED chat
    /\ UNCHANGED <<polls, index, restarts, sock, backlog, cli, unread, record>>

NextPolled == pc' = "in" /\ index' = index + 1

CheckNoOut ==
    /\ pc = "out" /\ "OUT" \notin Polled.revents
    /\ NextPolled
    /\ UNCHANGED <<peer_list, polls, restarts, kernel, record>>

\* n > 0 pieces are sent: the head of the list advances, or is freed when done.
BugSentOf(send, n) == IF n >= Units THEN Tail(send) ELSE send
SentOf(send, n) ==
    LET head == Head(send)
    IN IF head.sent + n >= Units THEN Tail(send)
       ELSE <<[head EXCEPT !.sent = @ + n]>> \o Tail(send)

\* The accepted descriptor is a blocking one: send takes what there is room
\* for and returns when it has the whole rest of the head; until then it
\* holds the thread.  asend.sent, which nobody looks at meanwhile, is counted
\* up here as the pieces are taken.
CheckSend ==
    /\ pc \in {"out", "sending"} /\ "OUT" \in Polled.revents
    /\ cli[Client] # "closed"
    /\ LET head == Head(peer_list[PeerAt].send)
           room == SockCap - unread[Client]
       IN \E n \in 1 .. Units - head.sent :
             /\ n <= room
             /\ peer_list' = [peer_list EXCEPT ![PeerAt].send = SentOf(@, n)]
             /\ unread' = [unread EXCEPT ![Client] = @ + n]
             /\ stream' = [stream EXCEPT ![Client] =
                   @ \o [k \in 1 .. n |-> <<head.msg, head.sent + k - 1>>]]
             /\ IF head.sent + n = Units THEN NextPolled
                ELSE pc' = "sending" /\ UNCHANGED index
    /\ UNCHANGED <<polls, restarts, sock, backlog, cli, chat, published, joinAt>>

\* A send that blocks returns what it took: its client closes, or a signal
\* comes.
SendShort ==
    /\ pc = "sending" /\ NextPolled
    /\ UNCHANGED <<peer_list, polls, restarts, kernel, record>>

SendCut == SendShort /\ cli[Client] = "closed"

\* The client is gone: send fails (SIGPIPE is caught) and the peer is marked.
CheckSendFail ==
    /\ pc = "out" /\ "OUT" \in Polled.revents
    /\ cli[Client] = "closed"
    /\ DropAt(PeerAt)
    /\ NextPolled
    /\ UNCHANGED <<polls, restarts, kernel, record>>

\* After the table, the peers from the last to the first.
CheckEnd ==
    /\ pc = "in" /\ index > Len(polls)
    /\ pc' = "sweep" /\ index' = Len(peer_list)
    /\ UNCHANGED <<peer_list, polls, restarts, kernel, record>>

\* peer.deinit closes the descriptor, and its number is free again.
BugClosed(fd) == UNCHANGED sock
Closed(fd) == sock' = [sock EXCEPT ![fd] = Nobody]

Sweep ==
    /\ pc = "sweep" /\ index > 0 /\ index' = index - 1
    /\ LET peer == peer_list[index]
       IN IF peer.delme
          THEN /\ Closed(peer.sck)
               /\ cli' = [c \in Clients |->
                            IF c = sock[peer.sck] /\ cli[c] = "closed"
                            THEN "idle" ELSE cli[c]]
               /\ peer_list' = SwapRemove(peer_list, index)
          ELSE UNCHANGED <<peer_list, sock, cli>>
    /\ UNCHANGED <<pc, polls, restarts, backlog, chat, unread, record>>

SweepEnd ==
    /\ pc = "sweep" /\ index = 0
    /\ pc' = "top"
    /\ UNCHANGED <<daemon, restarts, kernel, record>>

-----------------------------------------------------------------------------
\* The clients, at any moment.

Connect(c) ==
    /\ cli[c] = "idle" /\ pc \notin {"exit", "overrun"}
    /\ Len(backlog) <= Backlog
    /\ cli' = [cli EXCEPT ![c] = "up"]
    /\ backlog' = Append(backlog, c)
    /\ unread' = [unread EXCEPT ![c] = 0] /\ chat' = [chat EXCEPT ![c] = FALSE]
    /\ UNCHANGED <<pc, daemon, restarts, sock, record>>

Receive(c) ==
    /\ cli[c] = "up" /\ unread[c] > 0
    /\ unread' = [unread EXCEPT ![c] = @ - 1]
    /\ UNCHANGED <<pc, daemon, restarts, sock, backlog, cli, chat, record>>

Chat(c) ==
    /\ cli[c] = "up" /\ Held(c) /\ chat' = [chat EXCEPT ![c] = TRUE]
    /\ UNCHANGED <<pc, daemon, restarts, sock, backlog, cli, unread, record>>

Close(c) ==
    /\ cli[c] = "up"
    /\ cli' = [cli EXCEPT ![c] = IF Held(c) THEN "closed" ELSE "idle"]
    /\ UNCHANGED <<pc, daemon, restarts, sock, backlog, chat, unread, record>>

Stopped == pc \in {"exit", "overrun"} /\ UNCHANGED vars

-----------------------------------------------------------------------------
Check  == \/ CheckIn \/ CheckNoOut \/ CheckSend \/ SendCut \/ CheckSendFail
          \/ CheckEnd \/ Sweep \/ SweepEnd
ClientStep(c) == Connect(c) \/ Receive(c) \/ Chat(c) \/ Close(c)

Next == \/ TopRead \/ TopQuiet \/ TopReadFail
        \/ PollIo \/ PollTimeout \/ PollHup \/ PollAcceptFail
        \/ SleepDone \/ Exit \/ Check \/ SendShort
        \/ \E c \in Clients : ClientStep(c)
        \/ Stopped

Spec == Init /\ [][Next]_vars

\* The daemon's thread runs whenever it can.  No client is obliged to read,
\* and no signal to come when a send blocks.
Fairness == /\ WF_vars(TopRead \/ TopQuiet) /\ WF_vars(PollIo \/ PollTimeout)
            /\ WF_vars(SleepDone) /\ WF_vars(Check)

-----------------------------------------------------------------------------
Events  == {"IN", "OUT"}
Message == [msg : Nat, sent : 0 .. Units - 1]
Peer    == [sck : Fds, delme : BOOLEAN, send : Seq(Message)]
PollFd  == [fd : Fds, events : SUBSET Events, revents : SUBSET Events]

TypeOK ==
    /\ pc \in {"top", "poll", "in", "out", "sending", "sweep", "sleep", "exit",
              "overrun"}
    /\ peer_list \in Seq(Peer) /\ polls \in Seq(PollFd)
    /\ index \in Nat /\ restarts \in 0 .. MaxRestarts
    /\ sock \in [Fds -> Clients \cup {Nobody}] /\ backlog \in Seq(Clients)
    /\ cli \in [Clients -> {"idle", "up", "closed"}]
    /\ chat \in [Clients -> BOOLEAN] /\ unread \in [Clients -> 0 .. SockCap]
    /\ published \in 0 .. MaxMsgs /\ joinAt \in [Clients -> Nat]
    /\ stream \in [Clients -> Seq(Nat \X Nat)]

\* get_peer_by_sck takes the first match, so it needs one peer per
\* descriptor, across closes, descriptors the kernel hands out again,
\* reloads and errors; and every open descriptor belongs to a peer, or it
\* is leaked.
OnePeerPerDescriptor ==
    /\ \A i, j \in 1 .. Len(peer_list) :
          peer_list[i].sck = peer_list[j].sck => i = j
    /\ {fd \in Fds : sock[fd] # Nobody} = Scks

\* check_peers works from a table made before accept and before the peers
\* it marks: whatever it looks up is still there (never PeerNotFound).
PeerAlwaysFound == ~NotFound

\* The refinement: each client gets what Feed promises.
Promise == INSTANCE Feed WITH members <- Served

FeedSpec == Promise!Spec

\* tty_main_loop writes the poll table without looking at max_polls.
TableNeverOverrun == pc # "overrun"
=============================================================================
