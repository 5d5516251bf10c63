-------------------------- MODULE PeerFanout_proofs --------------------------
(***************************************************************************)
(* What PeerFanout promises for every set of clients and descriptors, every *)
(* size of messages and buffers, and every number of messages and errors.   *)
(***************************************************************************)
EXTENDS PeerFanout, FeedLemmas, TLAPS

\* The constants, as the leaves below use them.
LEMMA Constants ==
    /\ Nobody \notin Clients /\ Fds \subseteq Nat
    /\ Units \in Nat \ {0} /\ SockCap \in Nat \ {0}
    /\ MaxPolls \in Nat /\ Backlog \in Nat /\ MaxMsgs \in Nat
    /\ MaxRestarts \in Nat
  BY FanoutAssumption

\* The peer list that swapRemove leaves is one of the same peers, one shorter.
LEMMA SwapRemoveType ==
    ASSUME NEW ps \in Seq(Peer), NEW i \in 1 .. Len(ps)
    PROVE  /\ SwapRemove(ps, i) \in Seq(Peer)
           /\ Len(SwapRemove(ps, i)) = Len(ps) - 1
           /\ \A j \in 1 .. Len(ps) - 1 :
                 SwapRemove(ps, i)[j] = IF j = i THEN ps[Len(ps)] ELSE ps[j]
  BY DEF SwapRemove

\* send returned n > 0 of the pieces that the head of the list still has.
LEMMA SentOfType ==
    ASSUME NEW q \in Seq(Message), q # <<>>, NEW n \in 1 .. Units - Head(q).sent
    PROVE  SentOf(q, n) \in Seq(Message) /\ SentOf(q, n) = Unsent(Units, q, n)
  <1>1. SentOf(q, n) = Unsent(Units, q, n)
    BY DEF SentOf, Unsent
  <1>2. Message = Item(Units)
    BY DEF Message, Item
  <1> QED
    BY <1>1, <1>2, Constants, UnsentType

-----------------------------------------------------------------------------
(* Type correctness.                                                       *)

LEMMA TypeInit == Init => TypeOK
  <1> SUFFICES ASSUME Init PROVE TypeOK
    OBVIOUS
  <1>1. /\ restarts \in 0 .. MaxRestarts /\ published \in 0 .. MaxMsgs
        /\ unread \in [Clients -> 0 .. SockCap] /\ index \in Nat
        /\ joinAt \in [Clients -> Nat]
    BY Constants DEF Init
  <1>2. /\ peer_list \in Seq(Peer) /\ polls \in Seq(PollFd)
        /\ backlog \in Seq(Clients) /\ stream \in [Clients -> Seq(Nat \X Nat)]
    BY DEF Init
  <1> QED
    BY <1>1, <1>2 DEF Init, TypeOK

\* A peer with one more message, and a peer that is marked, are peers.
LEMMA EnqueueType ==
    ASSUME NEW ps \in Seq(Peer), published \in Nat
    PROVE  [i \in 1 .. Len(ps) |-> Enqueue(ps[i])] \in Seq(Peer)
  <1> SUFFICES ASSUME NEW i \in 1 .. Len(ps) PROVE Enqueue(ps[i]) \in Peer
    OBVIOUS
  <1> DEFINE m == [msg |-> published + 1, sent |-> 0]
  <1>1. m \in Message
    BY Constants DEF Message
  <1>2. ps[i] \in Peer
    OBVIOUS
  <1> HIDE DEF m
  <1>3. Append(ps[i].send, m) \in Seq(Message)
    BY <1>1, <1>2 DEF Peer
  <1>4. Enqueue(ps[i]) = [ps[i] EXCEPT !.send = Append(ps[i].send, m)]
    BY DEF Enqueue, m
  <1> QED
    BY <1>2, <1>3, <1>4 DEF Peer

LEMMA PollTableType ==
    ASSUME NEW ps \in Seq(Peer)
    PROVE  /\ PollTable(ps) \in Seq(PollFd) /\ Len(PollTable(ps)) = Len(ps)
           /\ \A i \in 1 .. Len(ps) :
                /\ PollTable(ps)[i].fd = ps[i].sck
                /\ "OUT" \in PollTable(ps)[i].events => ps[i].send # <<>>
  <1> DEFINE t(i) == [fd |-> ps[i].sck, events |-> Wants(ps[i]), revents |-> {}]
  <1>1. ASSUME NEW i \in 1 .. Len(ps)
        PROVE  /\ t(i) \in PollFd /\ t(i).fd = ps[i].sck
               /\ "OUT" \in t(i).events => ps[i].send # <<>>
    <2>1. ps[i].sck \in Fds
      <3>1. ps[i] \in Peer
        OBVIOUS
      <3> QED
        BY <3>1 DEF Peer
    <2>2. Wants(ps[i]) \in SUBSET Events
          /\ ("OUT" \in Wants(ps[i]) => ps[i].send # <<>>)
      BY DEF Wants, Events
    <2> QED
      BY <2>1, <2>2 DEF PollFd
  <1>2. PollTable(ps) = [i \in 1 .. Len(ps) |-> t(i)]
    BY DEF PollTable
  <1> HIDE DEF t
  <1> QED
    BY <1>1, <1>2

LEMMA ReturnedType ==
    ASSUME NEW ts \in Seq(PollFd)
    PROVE  LET rs == [i \in 1 .. Len(ts) |-> Returned(ts[i])]
           IN  /\ rs \in Seq(PollFd) /\ Len(rs) = Len(ts)
               /\ \A i \in 1 .. Len(ts) :
                    rs[i].fd = ts[i].fd /\ rs[i].revents \subseteq ts[i].events
  <1>1. ASSUME NEW i \in 1 .. Len(ts)
        PROVE  /\ Returned(ts[i]) \in PollFd /\ Returned(ts[i]).fd = ts[i].fd
               /\ Returned(ts[i]).revents \subseteq ts[i].events
    <2> DEFINE es == {e \in ts[i].events : Ready(sock[ts[i].fd], e)}
    <2>1. ts[i] \in PollFd
      OBVIOUS
    <2>2. /\ ts[i] = [fd |-> ts[i].fd, events |-> ts[i].events,
                      revents |-> ts[i].revents]
          /\ ts[i].fd \in Fds /\ ts[i].events \in SUBSET Events
      BY <2>1 DEF PollFd
    <2>3. Returned(ts[i]) = [ts[i] EXCEPT !.revents = es]
      BY DEF Returned
    <2>4. es \in SUBSET Events /\ es \subseteq ts[i].events
      BY <2>2
    <2> HIDE DEF es
    <2>5. Returned(ts[i]) = [fd |-> ts[i].fd, events |-> ts[i].events, revents |-> es]
      BY <2>2, <2>3
    <2> QED
      BY <2>2, <2>4, <2>5 DEF PollFd
  <1> QED
    BY <1>1

LEMMA DropAtType ==
    ASSUME peer_list \in Seq(Peer), NEW i \in Int, DropAt(i)
    PROVE  /\ peer_list' \in Seq(Peer) /\ Len(peer_list') = Len(peer_list)
           /\ \A j \in 1 .. Len(peer_list) :
                /\ peer_list'[j].sck = peer_list[j].sck
                /\ peer_list'[j].send = peer_list[j].send
  <1> DEFINE Mark(p) == [p EXCEPT !.delme = TRUE]
  <1>1. ASSUME NEW p \in Peer
        PROVE  /\ Mark(p) \in Peer /\ Mark(p).sck = p.sck
               /\ Mark(p).send = p.send
    BY DEF Peer
  <1>2. peer_list' = [peer_list EXCEPT ![i] = Mark(peer_list[i])]
    BY DEF DropAt
  <1> HIDE DEF Mark
  <1>3. \A j \in 1 .. Len(peer_list) : peer_list[j] \in Peer
    OBVIOUS
  <1>4. /\ Len(peer_list') = Len(peer_list)
        /\ \A j \in 1 .. Len(peer_list) :
             peer_list'[j] = IF j = i THEN Mark(peer_list[j]) ELSE peer_list[j]
    BY <1>2
  <1>5. peer_list' \in Seq(Peer)
    <2>1. CASE i \in 1 .. Len(peer_list)
      BY <1>1, <1>2, <1>3, <2>1
    <2>2. CASE i \notin 1 .. Len(peer_list)
      <3>1. peer_list' = peer_list
        BY <1>2, <2>2
      <3> QED
        BY <3>1
    <2> QED
      BY <2>1, <2>2
  <1> QED
    BY <1>1, <1>3, <1>4, <1>5

LEMMA RelistenType ==
    ASSUME TypeOK, Relisten
    PROVE  /\ backlog' \in Seq(Clients) /\ sock' = sock
           /\ cli' \in [Clients -> {"idle", "up", "closed"}]
           /\ chat' = chat /\ unread' = unread
  BY DEF Relisten, TypeOK
-----------------------------------------------------------------------------
(* The inductive invariant.                                                *)

PeerIdx == 1 .. Len(peer_list)

\* A client is at the other end of one descriptor or once in the backlog,
\* never both, and is not idle then.
HeldInv ==
    /\ \A f, g \in Fds : sock[f] # Nobody /\ sock[f] = sock[g] => f = g
    /\ \A i, j \in 1 .. Len(backlog) : backlog[i] = backlog[j] => i = j
    /\ \A f \in Fds, i \in 1 .. Len(backlog) : sock[f] # backlog[i]
    /\ \A f \in Fds : sock[f] # Nobody => cli[sock[f]] # "idle"
    /\ \A i \in 1 .. Len(backlog) : cli[backlog[i]] # "idle"

\* OnePeerPerDescriptor, index by index.
PeersInv ==
    /\ \A i, j \in PeerIdx : peer_list[i].sck = peer_list[j].sck => i = j
    /\ \A i \in PeerIdx : sock[peer_list[i].sck] # Nobody
    /\ \A f \in Fds : sock[f] # Nobody =>
                        \E i \in PeerIdx : peer_list[i].sck = f

\* While the poll table is in use, its entries are the first peers of the
\* list, in their places; those not looked at yet that may be written to
\* still have something to write.
TableInv ==
    /\ pc \in {"poll", "in", "out", "sending"} =>
         /\ Len(polls) <= Len(peer_list)
         /\ \A i \in 1 .. Len(polls) : polls[i].fd = peer_list[i].sck
    /\ pc = "poll" =>
         \A i \in 1 .. Len(polls) :
            "OUT" \in polls[i].events => peer_list[i].send # <<>>
    /\ pc \in {"in", "out", "sending"} =>
         /\ index >= 1
         /\ \A i \in 1 .. Len(polls) :
              i >= index /\ "OUT" \in polls[i].revents => peer_list[i].send # <<>>
    /\ pc \in {"out", "sending"} => index <= Len(polls)
    /\ pc = "sweep" => index <= Len(peer_list)

\* What get_peer_by_sck finds for the entry of the table check_peers is at.
LEMMA Lookup ==
    ASSUME TypeOK, PeersInv, TableInv, pc \in {"in", "out", "sending"},
           index <= Len(polls)
    PROVE  /\ index \in PeerIdx /\ index \in 1 .. Len(polls)
           /\ Polled \in PollFd /\ Polled.fd = peer_list[index].sck
           /\ peer_list[index] \in Peer
           /\ PeerAt = index /\ Client \in Clients
           /\ Client = sock[peer_list[index].sck]
           /\ ~NotFound
           /\ "OUT" \in Polled.revents => peer_list[index].send # <<>>
  <1>1. /\ index \in PeerIdx /\ index \in 1 .. Len(polls)
        /\ peer_list \in Seq(Peer) /\ polls \in Seq(PollFd)
    BY DEF TypeOK, TableInv, PeerIdx
  <1>2. /\ Polled \in PollFd /\ peer_list[index] \in Peer
        /\ Polled.fd = peer_list[index].sck
    BY <1>1 DEF Polled, TableInv, PeerIdx
  <1>3. Polled.fd \in Fds /\ Client \in Clients
        /\ Client = sock[peer_list[index].sck]
    <2>1. Polled.fd \in Fds
      BY <1>2 DEF PollFd
    <2>2. sock[Polled.fd] # Nobody
      BY <1>1, <1>2 DEF PeersInv
    <2> QED
      BY <1>2, <2>1, <2>2 DEF Client, TypeOK
  <1>4. PeerAt = index
    <2> DEFINE First(i) == /\ peer_list[i].sck = Polled.fd
                           /\ \A j \in 1 .. i - 1 : peer_list[j].sck # Polled.fd
    <2>1. First(index)
      <3>1. ASSUME NEW j \in 1 .. index - 1 PROVE peer_list[j].sck # Polled.fd
        BY <1>1, <1>2 DEF PeersInv, PeerIdx
      <3> QED
        BY <1>2, <3>1
    <2>2. \A i \in 1 .. Len(peer_list) : First(i) => i = index
      BY <1>1, <1>2 DEF PeersInv, PeerIdx
    <2>3. PeerAt = CHOOSE i \in 1 .. Len(peer_list) : First(i)
      BY DEF PeerAt
    <2> HIDE DEF First
    <2> QED
      BY <1>1, <2>1, <2>2, <2>3 DEF PeerIdx
  <1>5. ~NotFound
    <2>1. peer_list[index] \in Peers
      BY <1>1 DEF Peers, ToSet, PeerIdx
    <2> QED
      BY <1>2, <2>1 DEF NotFound, HasPeer, Scks
  <1>6. "OUT" \in Polled.revents => peer_list[index].send # <<>>
    <2>1. index \in Nat
      BY DEF TypeOK
    <2> QED
      BY <1>1, <2>1 DEF TableInv, Polled
  <1> QED
    BY <1>1, <1>2, <1>3, <1>4, <1>5, <1>6

\* What CheckSend does, in terms of the entry it is at.
LEMMA SendEffect ==
    ASSUME TypeOK, PeersInv, TableInv, CheckSend
    PROVE  /\ peer_list[index].send \in Seq(Message)
           /\ peer_list[index].send # <<>>
           /\ Client = sock[peer_list[index].sck] /\ Client \in Clients
           /\ index \in PeerIdx
           /\ LET q == peer_list[index].send
              IN \E n \in 1 .. Units - Head(q).sent :
                    /\ n <= SockCap - unread[Client]
                    /\ peer_list' = [peer_list EXCEPT ![index].send = SentOf(@, n)]
                    /\ unread' = [unread EXCEPT ![Client] = @ + n]
                    /\ stream' = [stream EXCEPT ![Client] = @ \o
                          [k \in 1 .. n |-> <<Head(q).msg, Head(q).sent + k - 1>>]]
                    /\ \/ pc' = "in" /\ index' = index + 1
                       \/ /\ pc' = "sending" /\ index' = index
                          /\ Head(q).sent + n # Units
  <1>1. pc \in {"in", "out", "sending"} /\ index <= Len(polls)
    BY DEF CheckSend, TableInv
  <1>2. /\ index \in PeerIdx /\ peer_list[index] \in Peer /\ PeerAt = index
        /\ Client \in Clients /\ Client = sock[peer_list[index].sck]
        /\ peer_list[index].send # <<>>
    BY <1>1, Lookup DEF CheckSend
  <1>3. peer_list[index].send \in Seq(Message)
    BY <1>2 DEF Peer
  <1> DEFINE head == Head(peer_list[PeerAt].send)
  <1>4. PICK n \in 1 .. Units - head.sent :
          /\ n <= SockCap - unread[Client]
          /\ peer_list' = [peer_list EXCEPT ![PeerAt].send = SentOf(@, n)]
          /\ unread' = [unread EXCEPT ![Client] = @ + n]
          /\ stream' = [stream EXCEPT ![Client] = @ \o
                           [k \in 1 .. n |-> <<head.msg, head.sent + k - 1>>]]
          /\ \/ pc' = "in" /\ index' = index + 1
             \/ /\ pc' = "sending" /\ index' = index
                /\ head.sent + n # Units
    <2>1. PICK n \in 1 .. Units - head.sent :
          /\ n <= SockCap - unread[Client]
          /\ peer_list' = [peer_list EXCEPT ![PeerAt].send = SentOf(@, n)]
          /\ unread' = [unread EXCEPT ![Client] = @ + n]
          /\ stream' = [stream EXCEPT ![Client] = @ \o
                           [k \in 1 .. n |-> <<head.msg, head.sent + k - 1>>]]
          /\ IF head.sent + n = Units THEN NextPolled
             ELSE pc' = "sending" /\ UNCHANGED index
      BY Zenon DEF CheckSend
    <2> HIDE DEF head
    <2>2. \/ pc' = "in" /\ index' = index + 1
          \/ pc' = "sending" /\ index' = index /\ head.sent + n # Units
      BY <2>1, Zenon DEF NextPolled
    <2> QED
      BY <2>1, <2>2, Zenon
  <1>5. head = Head(peer_list[index].send)
    BY <1>2
  <1>6. peer_list' = [peer_list EXCEPT ![index].send = SentOf(@, n)]
    BY <1>2, <1>4
  <1> HIDE DEF head
  <1> QED
    BY <1>2, <1>3, <1>4, <1>5, <1>6, ZenonT(30)

\* The peer at i with another send list.
LEMMA NewSendType ==
    ASSUME peer_list \in Seq(Peer), NEW i \in PeerIdx, NEW q \in Seq(Message),
           peer_list' = [peer_list EXCEPT ![i].send = q]
    PROVE  /\ peer_list' \in Seq(Peer) /\ Len(peer_list') = Len(peer_list)
           /\ \A j \in PeerIdx :
                /\ peer_list'[j].sck = peer_list[j].sck
                /\ peer_list'[j].send = IF j = i THEN q ELSE peer_list[j].send
  <1> DEFINE p == [peer_list[i] EXCEPT !.send = q]
  <1>1. p \in Peer /\ p.sck = peer_list[i].sck /\ p.send = q
    <2>1. peer_list[i] \in Peer
      BY DEF PeerIdx
    <2> QED
      BY <2>1 DEF Peer
  <1>2. peer_list' = [peer_list EXCEPT ![i] = p]
    OBVIOUS
  <1> HIDE DEF p
  <1> QED
    BY <1>1, <1>2 DEF PeerIdx

LEMMA TypeStep == TypeOK /\ PeersInv /\ TableInv /\ [Next]_vars => TypeOK'
  <1> SUFFICES ASSUME TypeOK, PeersInv, TableInv, [Next]_vars PROVE TypeOK'
    OBVIOUS
  <1> USE Constants
  <1>1. CASE TopRead
    <2>1. published \in Nat /\ published' \in 0 .. MaxMsgs
      BY <1>1 DEF TopRead, TypeOK
    <2>2. /\ peer_list' \in Seq(Peer)
          /\ polls' \in Seq(PollFd)
      <3>1. peer_list' \in Seq(Peer)
        BY <1>1, <2>1, EnqueueType DEF TopRead, Top, TypeOK
      <3>2. polls' = polls \/ polls' = PollTable(peer_list')
        BY <1>1 DEF TopRead, Top
      <3> QED
        BY <3>1, <3>2, PollTableType DEF TypeOK
    <2>3. pc' \in {"poll", "overrun"}
          /\ UNCHANGED <<index, restarts, kernel, joinAt, stream>>
      BY <1>1 DEF TopRead, Top
    <2> QED
      BY <2>1, <2>2, <2>3 DEF TypeOK, kernel
  <1>2. CASE TopQuiet
    <2>1. /\ peer_list' = peer_list /\ pc' \in {"poll", "overrun"}
          /\ polls' = polls \/ polls' = PollTable(peer_list)
          /\ UNCHANGED <<index, restarts, kernel, joinAt, stream, published>>
      BY <1>2 DEF TopQuiet, Top
    <2>2. polls' \in Seq(PollFd)
      BY <2>1, PollTableType DEF TypeOK
    <2> QED
      BY <2>1, <2>2 DEF TypeOK, kernel
  <1>3. CASE TopReadFail
    BY <1>3 DEF TopReadFail, TypeOK, daemon, kernel, record
  <1>4. CASE PollIo
    <2>1. polls' \in Seq(PollFd) /\ pc' \in {"top", "in"} /\ index' \in Nat
          /\ UNCHANGED <<restarts, cli, chat, unread, published>>
      <3>1. polls \in Seq(PollFd)
        BY DEF TypeOK
      <3> QED
        BY <1>4, <3>1, ReturnedType DEF PollIo
    <2>2. AcceptOne
      BY <1>4 DEF PollIo
    <2>3. CASE backlog = <<>>
      BY <2>1, <2>2, <2>3 DEF AcceptOne, TypeOK
    <2>4. CASE backlog # <<>>
      <3>1. PICK fd \in Fds : /\ peer_list' = Append(peer_list, NewPeer(fd))
                              /\ sock' = [sock EXCEPT ![fd] = Head(backlog)]
                              /\ backlog' = Tail(backlog)
                              /\ joinAt' = [joinAt EXCEPT ![Head(backlog)] = published]
                              /\ stream' = [stream EXCEPT ![Head(backlog)] = <<>>]
        BY <2>2, <2>4 DEF AcceptOne
      <3>2. NewPeer(fd) \in Peer
        BY DEF NewPeer, Peer
      <3>3. Head(backlog) \in Clients /\ backlog' \in Seq(Clients)
        BY <2>4, <3>1 DEF TypeOK
      <3>4. peer_list' \in Seq(Peer)
        BY <3>1, <3>2 DEF TypeOK
      <3>5. sock' \in [Fds -> Clients \cup {Nobody}]
        BY <3>1, <3>3 DEF TypeOK
      <3>6. joinAt' \in [Clients -> Nat] /\ stream' \in [Clients -> Seq(Nat \X Nat)]
        <4>1. published \in Nat /\ <<>> \in Seq(Nat \X Nat)
          BY DEF TypeOK
        <4> QED
          BY <3>1, <3>3, <4>1 DEF TypeOK
      <3> QED
        BY <2>1, <3>3, <3>4, <3>5, <3>6 DEF TypeOK
    <2> QED
      BY <2>3, <2>4
  <1>5. CASE PollTimeout
    BY <1>5 DEF PollTimeout, TypeOK, daemon, kernel, record
  <1>6. CASE PollHup
    BY <1>6, RelistenType DEF PollHup, TypeOK, daemon, record
  <1>7. CASE PollAcceptFail
    BY <1>7 DEF PollAcceptFail, TypeOK, daemon, kernel, record
  <1>8. CASE SleepDone
    BY <1>8, RelistenType DEF SleepDone, TypeOK, daemon, record
  <1>9. CASE Exit
    <2>1. /\ peer_list' \in Seq(Peer) /\ backlog' \in Seq(Clients)
          /\ sock' \in [Fds -> Clients \cup {Nobody}] /\ pc' = "exit"
          /\ cli' \in [Clients -> {"idle", "up", "closed"}]
          /\ UNCHANGED <<polls, index, restarts, chat, unread, record>>
      BY <1>9 DEF Exit, TypeOK
    <2> QED
      BY <2>1 DEF TypeOK, record
  <1>10. CASE CheckIn
    <2>1. /\ index \in PeerIdx /\ PeerAt = index /\ Client \in Clients
      BY <1>10, Lookup DEF CheckIn
    <2>2. chat' \in [Clients -> BOOLEAN]
      BY <1>10, <2>1 DEF CheckIn, TypeOK
    <2>3. peer_list' \in Seq(Peer)
      <3>1. peer_list' = peer_list \/ DropAt(index)
        BY <1>10, <2>1 DEF CheckIn
      <3>2. peer_list \in Seq(Peer) /\ index \in Int
        BY DEF TypeOK
      <3> QED
        BY <3>1, <3>2, DropAtType
    <2>4. pc' = "out"
          /\ UNCHANGED <<polls, index, restarts, sock, backlog, cli, unread, record>>
      BY <1>10 DEF CheckIn
    <2> QED
      BY <2>2, <2>3, <2>4 DEF TypeOK, record
  <1>11. CASE CheckNoOut
    <2>1. index' \in Nat
      BY <1>11 DEF CheckNoOut, NextPolled, TypeOK
    <2> QED
      BY <1>11, <2>1 DEF CheckNoOut, NextPolled, TypeOK, kernel, record
  <1>12. CASE CheckSend
    <2> DEFINE q == peer_list[index].send
    <2>1. /\ q \in Seq(Message) /\ q # <<>> /\ Client \in Clients
          /\ index \in PeerIdx
      BY <1>12, SendEffect
    <2>2. PICK n \in 1 .. Units - Head(q).sent :
                    /\ n <= SockCap - unread[Client]
                    /\ peer_list' = [peer_list EXCEPT ![index].send = SentOf(@, n)]
                    /\ unread' = [unread EXCEPT ![Client] = @ + n]
                    /\ stream' = [stream EXCEPT ![Client] = @ \o
                          [k \in 1 .. n |-> <<Head(q).msg, Head(q).sent + k - 1>>]]
                    /\ pc' \in {"in", "sending"} /\ index' \in {index, index + 1}
      BY <1>12, SendEffect
    <2>3. peer_list' \in Seq(Peer)
      <3>1. SentOf(q, n) \in Seq(Message)
        BY <2>1, SentOfType
      <3>2. peer_list' = [peer_list EXCEPT ![index].send = SentOf(q, n)]
        BY <2>1, <2>2
      <3> HIDE DEF q
      <3>3. index \in PeerIdx /\ peer_list \in Seq(Peer)
        BY <2>1 DEF TypeOK
      <3> QED
        BY <3>1, <3>2, <3>3, NewSendType
    <2>4. /\ Head(q) \in Message /\ Head(q).msg \in Nat /\ Head(q).sent \in Nat
          /\ n \in Nat \ {0} /\ Head(q).sent + n <= Units
      <3>1. Head(q) \in Message
        BY <2>1
      <3> QED
        BY <3>1 DEF Message
    <2>5. unread' \in [Clients -> 0 .. SockCap]
      <3>1. unread[Client] \in 0 .. SockCap
        BY <2>1 DEF TypeOK
      <3>2. n \in Nat /\ n <= SockCap - unread[Client] /\ SockCap \in Nat
        BY <2>2, <2>4, Constants
      <3> DEFINE got == unread[Client]
      <3>3. got + n \in 0 .. SockCap
        <4> HIDE DEF got
        <4> QED
          BY <3>1, <3>2 DEF got
      <3>4. unread' = [unread EXCEPT ![Client] = got + n]
        BY <2>2
      <3> HIDE DEF got
      <3> QED
        BY <2>1, <3>3, <3>4 DEF TypeOK
    <2>6. stream' \in [Clients -> Seq(Nat \X Nat)]
      <3> DEFINE new == [k \in 1 .. n |-> <<Head(q).msg, Head(q).sent + k - 1>>]
      <3>1. new \in Seq(Nat \X Nat)
        <4> DEFINE m == Head(q).msg
                   o == Head(q).sent
        <4>1. m \in Nat /\ o \in Nat /\ n \in Nat
          BY <2>4
        <4> HIDE DEF m, o
        <4>2. \A k \in 1 .. n : <<m, o + k - 1>> \in Nat \X Nat
          BY <4>1
        <4> QED
          BY <4>1, <4>2 DEF m, o
      <3>2. stream' = [stream EXCEPT ![Client] = stream[Client] \o new]
        BY <2>2
      <3> HIDE DEF new
      <3>3. stream[Client] \in Seq(Nat \X Nat)
        BY <2>1 DEF TypeOK
      <3> DEFINE all == stream[Client] \o new
      <3>4. all \in Seq(Nat \X Nat) /\ stream' = [stream EXCEPT ![Client] = all]
        BY <3>1, <3>2, <3>3
      <3> HIDE DEF all
      <3> QED
        BY <3>4 DEF TypeOK
    <2>7. /\ pc' \in {"in", "sending"} /\ index' \in Nat
          /\ UNCHANGED <<polls, restarts, sock, backlog, cli, chat, published, joinAt>>
      <3>1. UNCHANGED <<polls, restarts, sock, backlog, cli, chat, published, joinAt>>
        BY <1>12, ZenonT(30) DEF CheckSend
      <3>2. index \in Nat
        BY DEF TypeOK
      <3> QED
        BY <2>2, <3>1, <3>2
    <2> QED
      BY <2>3, <2>5, <2>6, <2>7 DEF TypeOK
  <1>13. CASE CheckSendFail
    <2>1. /\ index \in PeerIdx /\ PeerAt = index
      BY <1>13, Lookup DEF CheckSendFail, TableInv
    <2>2. peer_list' \in Seq(Peer)
      BY <1>13, <2>1, DropAtType DEF CheckSendFail, TypeOK
    <2>3. /\ pc' = "in" /\ index' \in Nat
          /\ UNCHANGED <<polls, restarts, kernel, record>>
      BY <1>13 DEF CheckSendFail, NextPolled, TypeOK
    <2> QED
      BY <2>2, <2>3 DEF TypeOK, kernel, record
  <1>14. CASE CheckEnd
    <2>1. index' \in Nat
      BY <1>14 DEF CheckEnd, TypeOK
    <2> QED
      BY <1>14, <2>1 DEF CheckEnd, TypeOK, kernel, record
  <1>15. CASE Sweep
    <2>1. index \in 1 .. Len(peer_list) /\ index' \in Nat
      BY <1>15 DEF Sweep, TypeOK, TableInv
    <2>2. peer_list' \in Seq(Peer)
      BY <1>15, <2>1, SwapRemoveType DEF Sweep, TypeOK
    <2>3. /\ sock' \in [Fds -> Clients \cup {Nobody}]
          /\ cli' \in [Clients -> {"idle", "up", "closed"}]
      BY <1>15 DEF Sweep, Closed, TypeOK
    <2>4. UNCHANGED <<pc, polls, restarts, backlog, chat, unread, record>>
      BY <1>15 DEF Sweep
    <2> QED
      BY <2>1, <2>2, <2>3, <2>4 DEF TypeOK, record
  <1>16. CASE SweepEnd
    BY <1>16 DEF SweepEnd, TypeOK, daemon, kernel, record
  <1>17. ASSUME NEW c \in Clients, ClientStep(c) PROVE TypeOK'
    <2>1. CASE Connect(c)
      <3>1. unread' \in [Clients -> 0 .. SockCap]
        BY <2>1 DEF Connect, TypeOK
      <3>2. backlog' \in Seq(Clients) /\ chat' \in [Clients -> BOOLEAN]
            /\ cli' \in [Clients -> {"idle", "up", "closed"}]
        BY <2>1 DEF Connect, TypeOK
      <3> QED
        BY <2>1, <3>1, <3>2 DEF Connect, TypeOK, daemon, record
    <2>2. CASE Receive(c)
      <3>1. unread' \in [Clients -> 0 .. SockCap]
        BY <2>2 DEF Receive, TypeOK
      <3> QED
        BY <2>2, <3>1 DEF Receive, TypeOK, daemon, record
    <2>3. CASE Chat(c)
      BY <2>3 DEF Chat, TypeOK, daemon, record
    <2>4. CASE Close(c)
      BY <2>4 DEF Close, TypeOK, daemon, record
    <2> QED
      BY <1>17, <2>1, <2>2, <2>3, <2>4 DEF ClientStep
  <1>18. CASE UNCHANGED vars
    BY <1>18 DEF vars, daemon, kernel, record, TypeOK
  <1>19. CASE SendShort
    <2>1. index' \in Nat
      BY <1>19 DEF SendShort, NextPolled, TypeOK
    <2> QED
      BY <1>19, <2>1 DEF SendShort, NextPolled, TypeOK, kernel, record
  <1> QED
    BY <1>19, <1>1, <1>2, <1>3, <1>4, <1>5, <1>6, <1>7, <1>8, <1>9, <1>10, <1>11,
       <1>12, <1>13, <1>14, <1>15, <1>16, <1>17, <1>18
    DEF Next, Check, SendCut, Stopped

\* Whoever is accepted, dropped, cut off or comes, nobody is held twice.
LEMMA HeldStep == TypeOK /\ HeldInv /\ PeersInv /\ TableInv /\ [Next]_vars => HeldInv'
  <1> SUFFICES ASSUME TypeOK, HeldInv, PeersInv, TableInv, [Next]_vars PROVE HeldInv'
    OBVIOUS
  <1> USE Constants
  <1>1. CASE UNCHANGED <<sock, backlog, cli>>
    BY <1>1 DEF HeldInv
  <1>2. CASE PollIo
    <2>1. AcceptOne /\ cli' = cli
      BY <1>2 DEF PollIo
    <2>2. CASE backlog # <<>>
      <3>1. PICK fd \in Fds : /\ sock[fd] = Nobody
                              /\ sock' = [sock EXCEPT ![fd] = Head(backlog)]
                              /\ backlog' = Tail(backlog)
        BY <2>1, <2>2 DEF AcceptOne, LowestFree, FreeFds
      <3>2. /\ Head(backlog) = backlog[1] /\ Len(backlog) \in Nat \ {0}
            /\ Len(backlog') = Len(backlog) - 1
            /\ \A i \in 1 .. Len(backlog) - 1 : backlog'[i] = backlog[i + 1]
        BY <2>2, <3>1 DEF TypeOK
      <3>3. \A f \in Fds : sock'[f] = IF f = fd THEN backlog[1] ELSE sock[f]
        BY <3>1, <3>2 DEF TypeOK
      <3>4. \A i \in 1 .. Len(backlog') : /\ i + 1 \in 1 .. Len(backlog)
                                          /\ i + 1 # 1
                                          /\ backlog'[i] = backlog[i + 1]
        BY <3>2
      <3>5. /\ \A i \in 1 .. Len(backlog') : backlog'[i] # backlog[1]
            /\ \A i, j \in 1 .. Len(backlog') : backlog'[i] = backlog'[j] => i = j
        BY <3>2, <3>4, SMTT(30) DEF HeldInv
      <3>6. 1 \in 1 .. Len(backlog)
        BY <3>2
      <3> QED
        BY <2>1, <3>3, <3>4, <3>5, <3>6, SMTT(30) DEF HeldInv
    <2>3. CASE backlog = <<>>
      BY <2>1, <2>3, <1>1 DEF AcceptOne
    <2> QED
      BY <2>2, <2>3
  <1>3. CASE Relisten
    <2>1. /\ sock' = sock /\ backlog' = <<>> /\ Len(backlog') = 0
          /\ \A c \in Clients : (\A i \in 1 .. Len(backlog) : backlog[i] # c)
                                  => cli'[c] = cli[c]
      BY <1>3 DEF Relisten, ToSet, TypeOK
    <2>2. ASSUME NEW f \in Fds, sock[f] # Nobody PROVE cli'[sock[f]] # "idle"
      <3>1. sock[f] \in Clients
        BY <2>2 DEF TypeOK
      <3>2. \A i \in 1 .. Len(backlog) : backlog[i] # sock[f]
        BY DEF HeldInv
      <3>3. cli'[sock[f]] = cli[sock[f]]
        BY <2>1, <3>1, <3>2
      <3> QED
        BY <2>2, <3>3 DEF HeldInv
    <2>3. 1 .. Len(backlog') = {}
      BY <2>1
    <2> QED
      <3>1. \A f, g \in Fds : sock'[f] # Nobody /\ sock'[f] = sock'[g] => f = g
        BY <2>1 DEF HeldInv
      <3> QED
        BY <2>1, <2>2, <2>3, <3>1 DEF HeldInv
  <1>4. CASE Exit
    <2>1. backlog' = <<>> /\ Len(backlog') = 0 /\ \A f \in Fds : sock'[f] = Nobody
      BY <1>4 DEF Exit
    <2> QED
      BY <2>1 DEF HeldInv
  <1>5. CASE Sweep
    <2>1. CASE peer_list[index].delme
      <3> DEFINE fd == peer_list[index].sck
      <3>1. /\ sock' = [sock EXCEPT ![fd] = Nobody] /\ backlog' = backlog
            /\ cli' = [c \in Clients |->
                            IF c = sock[fd] /\ cli[c] = "closed"
                            THEN "idle" ELSE cli[c]]
        BY <1>5, <2>1 DEF Sweep, Closed
      <3>2. peer_list[index] \in Peer /\ index \in PeerIdx
        BY <1>5 DEF Sweep, TypeOK, TableInv, PeerIdx
      <3>3. fd \in Fds /\ sock[fd] # Nobody
        BY <3>2 DEF Peer, PeersInv
      <3> HIDE DEF fd
      <3>4. \A f \in Fds : sock'[f] = IF f = fd THEN Nobody ELSE sock[f]
        BY <3>1, <3>3 DEF TypeOK
      <3>5. \A f \in Fds : f # fd /\ sock[f] # Nobody => sock[f] # sock[fd]
        BY <3>3 DEF HeldInv
      <3>6. \A f \in Fds : sock'[f] # Nobody => cli'[sock'[f]] # "idle"
        <4> TAKE f \in Fds
        <4> HAVE sock'[f] # Nobody
        <4>1. f # fd /\ sock'[f] = sock[f] /\ sock[f] \in Clients
          BY <3>4 DEF TypeOK
        <4> QED
          BY <3>1, <3>5, <4>1 DEF HeldInv
      <3>7. \A i \in 1 .. Len(backlog) : cli'[backlog[i]] # "idle"
        <4> TAKE i \in 1 .. Len(backlog)
        <4>1. backlog[i] \in Clients /\ backlog[i] # sock[fd]
          BY <3>3, SMTT(30) DEF TypeOK, HeldInv
        <4> QED
          BY <3>1, <4>1 DEF HeldInv
      <3> QED
        BY <3>1, <3>4, <3>6, <3>7, SMTT(30) DEF HeldInv, TypeOK
    <2>2. CASE ~peer_list[index].delme
      BY <1>5, <1>1, <2>2 DEF Sweep
    <2> QED
      BY <2>1, <2>2
  <1>6. ASSUME NEW c \in Clients, Connect(c) PROVE HeldInv'
    <2>1. /\ cli[c] = "idle" /\ sock' = sock /\ backlog' = Append(backlog, c)
          /\ cli' = [cli EXCEPT ![c] = "up"]
      BY <1>6 DEF Connect
    <2>2. \A f \in Fds : sock[f] # c
      BY <2>1 DEF HeldInv
    <2>3. \A i \in 1 .. Len(backlog) : backlog[i] # c
      BY <2>1 DEF HeldInv
    <2>4. /\ Len(backlog') = Len(backlog) + 1 /\ Len(backlog) \in Nat
          /\ \A i \in 1 .. Len(backlog') :
               \/ i \in 1 .. Len(backlog) /\ backlog'[i] = backlog[i]
               \/ i = Len(backlog) + 1 /\ i \notin 1 .. Len(backlog) /\ backlog'[i] = c
      BY <2>1 DEF TypeOK
    <2>5. \A d \in Clients : cli'[d] # "idle" <=> d = c \/ cli[d] # "idle"
      BY <2>1 DEF TypeOK
    <2>6. /\ \A f \in Fds : sock[f] # Nobody => sock[f] \in Clients
          /\ \A i \in 1 .. Len(backlog) : backlog[i] \in Clients
      BY SMTT(30) DEF TypeOK
    <2> QED
      BY <2>1, <2>2, <2>3, <2>4, <2>5, <2>6 DEF HeldInv
  <1>7. ASSUME NEW c \in Clients, Close(c) PROVE HeldInv'
    <2>1. /\ sock' = sock /\ backlog' = backlog
          /\ cli' = [cli EXCEPT ![c] = IF Held(c) THEN "closed" ELSE "idle"]
      BY <1>7 DEF Close
    <2>2. \A f \in Fds : sock[f] = c => Held(c)
      BY DEF Held
    <2>3. \A i \in 1 .. Len(backlog) : backlog[i] = c => Held(c)
      BY DEF Held, ToSet
    <2>4. \A d \in Clients : cli'[d] = "idle" => cli[d] = "idle" \/ (d = c /\ ~Held(c))
      BY <2>1 DEF TypeOK
    <2>5. /\ \A f \in Fds : sock[f] # Nobody => sock[f] \in Clients
          /\ \A i \in 1 .. Len(backlog) : backlog[i] \in Clients
      BY SMTT(30) DEF TypeOK
    <2> QED
      BY <2>1, <2>2, <2>3, <2>4, <2>5 DEF HeldInv
  <1>8. CASE TopRead \/ TopQuiet
    BY <1>1, <1>8 DEF TopRead, TopQuiet, Top, kernel
  <1>9. CASE TopReadFail \/ PollTimeout \/ PollAcceptFail \/ UNCHANGED vars
    BY <1>1, <1>9 DEF TopReadFail, PollTimeout, PollAcceptFail, vars, kernel
  <1>10. CASE CheckIn \/ CheckNoOut \/ CheckSend \/ SendShort
    BY <1>1, <1>10 DEF CheckIn, CheckNoOut, CheckSend, SendShort, kernel
  <1>11. CASE CheckSendFail \/ CheckEnd \/ SweepEnd
    BY <1>1, <1>11 DEF CheckSendFail, CheckEnd, SweepEnd, kernel
  <1>12. ASSUME NEW c \in Clients, Receive(c) \/ Chat(c) PROVE HeldInv'
    BY <1>1, <1>12 DEF Receive, Chat
  <1> QED
    BY <1>2, <1>3, <1>4, <1>5, <1>6, <1>7, <1>8, <1>9, <1>10, <1>11, <1>12
    DEF Next, Check, SendCut, ClientStep, Stopped, PollHup, SleepDone

\* The peers after one more message is queued for each.
LEMMA EnqueueEffect ==
    ASSUME NEW ps \in Seq(Peer), NEW i \in 1 .. Len(ps), published \in Nat
    PROVE  /\ Enqueue(ps[i]).sck = ps[i].sck
           /\ Enqueue(ps[i]).send
                 = Append(ps[i].send, [msg |-> published + 1, sent |-> 0])
  <1>1. ps[i] \in Peer
    OBVIOUS
  <1> DEFINE q == Append(ps[i].send, [msg |-> published + 1, sent |-> 0])
  <1>2. Enqueue(ps[i]) = [ps[i] EXCEPT !.send = q]
    BY DEF Enqueue
  <1> HIDE DEF q
  <1>3. Enqueue(ps[i]).sck = ps[i].sck /\ Enqueue(ps[i]).send = q
    BY <1>1, <1>2 DEF Peer
  <1> QED
    BY <1>3 DEF q

\* Steps that keep every peer in its place with its descriptor.
SamePeers == /\ sock' = sock /\ Len(peer_list') = Len(peer_list)
             /\ \A i \in PeerIdx : peer_list'[i].sck = peer_list[i].sck

\* One peer for each descriptor that is open, whichever peer is accepted or
\* dropped in the course of a round.
LEMMA PeersStep == TypeOK /\ HeldInv /\ PeersInv /\ TableInv /\ [Next]_vars => PeersInv'
  <1> SUFFICES ASSUME TypeOK, HeldInv, PeersInv, TableInv, [Next]_vars PROVE PeersInv'
    OBVIOUS
  <1> USE Constants
  <1>1. CASE SamePeers
    BY <1>1 DEF SamePeers, PeersInv, PeerIdx
  <1>2. CASE UNCHANGED <<peer_list, sock>>
    BY <1>2 DEF PeersInv, PeerIdx
  <1>3. CASE TopRead
    <2>1. /\ peer_list' = [i \in 1 .. Len(peer_list) |-> Enqueue(peer_list[i])]
          /\ sock' = sock
      BY <1>3 DEF TopRead, Top, kernel
    <2>2. \A i \in PeerIdx : Enqueue(peer_list[i]).sck = peer_list[i].sck
      <3>1. peer_list \in Seq(Peer) /\ published \in Nat
        BY DEF TypeOK
      <3> QED
        BY <3>1, EnqueueEffect DEF PeerIdx
    <2>3. /\ Len(peer_list') = Len(peer_list)
          /\ \A i \in PeerIdx : peer_list'[i] = Enqueue(peer_list[i])
      BY <2>1 DEF PeerIdx, TypeOK
    <2> QED
      BY <1>1, <2>1, <2>2, <2>3 DEF SamePeers
  <1>4. CASE PollIo
    <2>1. AcceptOne
      BY <1>4 DEF PollIo
    <2>2. CASE backlog # <<>>
      <3>1. PICK fd \in Fds : /\ sock[fd] = Nobody
                              /\ peer_list' = Append(peer_list, NewPeer(fd))
                              /\ sock' = [sock EXCEPT ![fd] = Head(backlog)]
        BY <2>1, <2>2 DEF AcceptOne, LowestFree, FreeFds
      <3>2. Head(backlog) \in Clients
        BY <2>2 DEF TypeOK
      <3>3. \A f \in Fds : /\ sock'[f] # Nobody <=> f = fd \/ sock[f] # Nobody
        BY <3>1, <3>2 DEF TypeOK
      <3>4. /\ Len(peer_list') = Len(peer_list) + 1 /\ Len(peer_list) \in Nat
            /\ \A i \in 1 .. Len(peer_list') :
                 \/ i \in PeerIdx /\ peer_list'[i] = peer_list[i]
                 \/ /\ i = Len(peer_list) + 1 /\ i \notin PeerIdx
                    /\ peer_list'[i].sck = fd
        BY <3>1, SMTT(30) DEF TypeOK, PeerIdx, NewPeer
      <3>5. \A i \in PeerIdx : peer_list[i].sck \in Fds /\ peer_list[i].sck # fd
        <4>1. \A i \in PeerIdx : peer_list[i] \in Peer
          BY DEF PeerIdx, TypeOK
        <4> QED
          BY <3>1, <4>1 DEF Peer, PeersInv
      <3>6. \A i, j \in 1 .. Len(peer_list') :
               peer_list'[i].sck = peer_list'[j].sck => i = j
        BY <3>4, <3>5 DEF PeersInv
      <3>7. \A i \in 1 .. Len(peer_list') : sock'[peer_list'[i].sck] # Nobody
        BY <3>3, <3>4, <3>5 DEF PeersInv
      <3>8. ASSUME NEW f \in Fds, sock'[f] # Nobody
            PROVE  \E i \in 1 .. Len(peer_list') : peer_list'[i].sck = f
        <4>1. CASE f = fd
          <5>1. Len(peer_list) + 1 \in 1 .. Len(peer_list')
                /\ Len(peer_list) + 1 \notin PeerIdx
            BY <3>4 DEF PeerIdx
          <5> QED
            BY <3>4, <4>1, <5>1
        <4>2. CASE f # fd
          <5>1. PICK i \in PeerIdx : peer_list[i].sck = f
            BY <3>3, <3>8, <4>2 DEF PeersInv
          <5>2. i \in 1 .. Len(peer_list') /\ i # Len(peer_list) + 1
            BY <3>4 DEF PeerIdx
          <5> QED
            BY <3>4, <5>1, <5>2
        <4> QED
          BY <4>1, <4>2
      <3> QED
        BY <3>6, <3>7, <3>8 DEF PeersInv, PeerIdx
    <2>3. CASE backlog = <<>>
      BY <2>1, <2>3, <1>2 DEF AcceptOne
    <2> QED
      BY <2>2, <2>3
  <1>5. CASE Exit
    <2>1. Len(peer_list') = 0 /\ \A f \in Fds : sock'[f] = Nobody
      BY <1>5 DEF Exit
    <2> QED
      BY <2>1 DEF PeersInv, PeerIdx
  <1>6. CASE CheckIn
    <2>1. sock' = sock /\ (peer_list' = peer_list \/ DropAt(PeerAt)) /\ PeerAt = index
      BY <1>6, Lookup DEF CheckIn
    <2>2. peer_list \in Seq(Peer) /\ index \in Int
      BY DEF TypeOK
    <2> QED
      BY <1>1, <1>2, <2>1, <2>2, DropAtType DEF SamePeers, PeerIdx
  <1>7. CASE CheckSend
    <2> DEFINE q == peer_list[index].send
    <2>1. q \in Seq(Message) /\ q # <<>> /\ index \in PeerIdx
      BY <1>7, SendEffect
    <2>2. PICK n \in 1 .. Units - Head(q).sent :
                 peer_list' = [peer_list EXCEPT ![index].send = SentOf(@, n)]
      BY <1>7, SendEffect
    <2>3. SentOf(q, n) \in Seq(Message)
      BY <2>1, SentOfType
    <2>4. peer_list' = [peer_list EXCEPT ![index].send = SentOf(q, n)]
      BY <2>1, <2>2
    <2> HIDE DEF q
    <2>5. /\ Len(peer_list') = Len(peer_list)
          /\ \A j \in PeerIdx : peer_list'[j].sck = peer_list[j].sck
      BY <2>1, <2>3, <2>4, NewSendType DEF TypeOK
    <2>6. sock' = sock
      BY <1>7 DEF CheckSend
    <2> QED
      BY <1>1, <2>5, <2>6 DEF SamePeers
  <1>8. CASE CheckSendFail
    <2>1. sock' = sock /\ DropAt(PeerAt) /\ PeerAt = index
      BY <1>8, Lookup DEF CheckSendFail, TableInv, kernel
    <2>2. peer_list \in Seq(Peer) /\ index \in Int
      BY DEF TypeOK
    <2> QED
      BY <1>1, <2>1, <2>2, DropAtType DEF SamePeers, PeerIdx
  <1>9. CASE Sweep
    <2>1. CASE peer_list[index].delme
      <3>1. index \in PeerIdx /\ index \in 1 .. Len(peer_list)
        BY <1>9 DEF Sweep, TypeOK, TableInv, PeerIdx
      <3>2. /\ sock' = [sock EXCEPT ![peer_list[index].sck] = Nobody]
            /\ peer_list' = SwapRemove(peer_list, index)
        BY <1>9, <2>1 DEF Sweep, Closed
      <3> DEFINE last == Len(peer_list)
                 from(j) == IF j = index THEN last ELSE j
      <3>3. /\ Len(peer_list') = last - 1 /\ last \in Nat \ {0}
            /\ \A j \in 1 .. last - 1 : peer_list'[j] = peer_list[from(j)]
        <4>1. peer_list \in Seq(Peer)
          BY DEF TypeOK
        <4>2. /\ Len(SwapRemove(peer_list, index)) = last - 1
              /\ \A j \in 1 .. last - 1 : SwapRemove(peer_list, index)[j] =
                   IF j = index THEN peer_list[last] ELSE peer_list[j]
          BY <3>1, <4>1, SwapRemoveType, Zenon
        <4>3. last \in Nat \ {0}
          BY <3>1, <4>1
        <4> HIDE DEF last
        <4> QED
          BY <3>2, <4>2, <4>3
      <3>4. \A j \in 1 .. last - 1 : from(j) \in PeerIdx /\ from(j) # index
        BY <3>1, <3>3 DEF PeerIdx
      <3>5. \A i, j \in 1 .. last - 1 : from(i) = from(j) => i = j
        BY <3>1, <3>3
      <3>6. \A i \in PeerIdx : peer_list[i].sck \in Fds
        <4>1. \A i \in PeerIdx : peer_list[i] \in Peer
          BY DEF PeerIdx, TypeOK
        <4> QED
          BY <4>1 DEF Peer
      <3>7. \A i \in PeerIdx : i # index => sock'[peer_list[i].sck] # Nobody
        BY <3>1, <3>2, <3>6 DEF PeersInv, TypeOK
      <3>8. ASSUME NEW f \in Fds, sock'[f] # Nobody
            PROVE  \E j \in 1 .. last - 1 : peer_list'[j].sck = f
        <4>1. f # peer_list[index].sck /\ sock[f] # Nobody
          BY <3>1, <3>2, <3>6, <3>8 DEF TypeOK
        <4>2. PICK i \in PeerIdx : peer_list[i].sck = f
          BY <4>1 DEF PeersInv
        <4>3. i # index
          BY <4>1, <4>2
        <4>4. CASE i = last
          <5>1. index \in 1 .. last - 1 /\ from(index) = last
            BY <3>1, <4>3, <4>4 DEF PeerIdx
          <5> QED
            BY <3>3, <4>2, <4>4, <5>1
        <4>5. CASE i # last
          <5>1. i \in 1 .. last - 1 /\ from(i) = i
            BY <3>3, <4>3, <4>5 DEF PeerIdx
          <5> QED
            BY <3>3, <4>2, <5>1
        <4> QED
          BY <4>4, <4>5
      <3> HIDE DEF from
      <3>9. \A i, j \in 1 .. last - 1 :
               peer_list'[i].sck = peer_list'[j].sck => i = j
        BY <3>3, <3>4, <3>5 DEF PeersInv
      <3>10. \A i \in 1 .. last - 1 : sock'[peer_list'[i].sck] # Nobody
        BY <3>3, <3>4, <3>7
      <3> QED
        BY <3>3, <3>8, <3>9, <3>10 DEF PeersInv, PeerIdx
    <2>2. CASE ~peer_list[index].delme
      BY <1>9, <1>2, <2>2 DEF Sweep
    <2> QED
      BY <2>1, <2>2
  <1>10. CASE TopQuiet \/ TopReadFail \/ PollTimeout \/ PollAcceptFail \/ UNCHANGED vars
    BY <1>2, <1>10 DEF TopQuiet, Top, TopReadFail, PollTimeout, PollAcceptFail,
                       vars, kernel, daemon
  <1>11. CASE PollHup \/ SleepDone
    BY <1>2, <1>11 DEF PollHup, SleepDone, Relisten, daemon
  <1>12. CASE CheckNoOut \/ SendShort \/ CheckEnd \/ SweepEnd
    BY <1>2, <1>12 DEF CheckNoOut, SendShort, CheckEnd, SweepEnd, kernel, daemon
  <1>13. ASSUME NEW c \in Clients, ClientStep(c) PROVE PeersInv'
    BY <1>2, <1>13 DEF ClientStep, Connect, Receive, Chat, Close, daemon
  <1> QED
    BY <1>3, <1>4, <1>5, <1>6, <1>7, <1>8, <1>9, <1>10, <1>11, <1>12, <1>13
    DEF Next, Check, SendCut, Stopped

\* The table goes with the peers: accept adds them behind those it names, and
\* none of those goes, or has its send list emptied, before its turn is over.
LEMMA TableStep == TypeOK /\ PeersInv /\ TableInv /\ [Next]_vars => TableInv'
  <1> SUFFICES ASSUME TypeOK, PeersInv, TableInv, [Next]_vars PROVE TableInv'
    OBVIOUS
  <1> USE Constants
  <1>1. peer_list \in Seq(Peer) /\ polls \in Seq(PollFd) /\ index \in Nat
        /\ published \in Nat
    BY DEF TypeOK
  <1>2. CASE pc' \in {"top", "sleep", "exit", "overrun"}
    BY <1>2 DEF TableInv
  <1>3. CASE UNCHANGED <<pc, polls, peer_list, index>>
    BY <1>3 DEF TableInv, PeerIdx
  <1>4. ASSUME NEW ps \in Seq(Peer), Top(ps) PROVE TableInv'
    <2>1. CASE pc' = "poll"
      <3>1. polls' = PollTable(ps) /\ peer_list' = ps
        BY <1>4, <2>1 DEF Top
      <3> QED
        BY <2>1, <3>1, PollTableType DEF TableInv
    <2>2. CASE pc' = "overrun"
      BY <2>2, <1>2
    <2> QED
      BY <1>4, <2>1, <2>2 DEF Top
  <1>5. CASE TopRead \/ TopQuiet
    BY <1>1, <1>4, <1>5, EnqueueType DEF TopRead, TopQuiet
  <1>6. CASE PollIo
    <2>1. CASE pc' = "in"
      <3>1. /\ Len(polls') = Len(polls)
            /\ \A i \in 1 .. Len(polls) :
                 /\ polls'[i].fd = polls[i].fd
                 /\ polls'[i].revents \subseteq polls[i].events
        BY <1>1, <1>6, ReturnedType DEF PollIo
      <3>2. /\ Len(peer_list') >= Len(peer_list)
            /\ \A i \in PeerIdx : peer_list'[i] = peer_list[i]
        BY <1>1, <1>6 DEF PollIo, AcceptOne, PeerIdx
      <3>3. index' = 1 /\ pc = "poll"
        BY <1>6 DEF PollIo
      <3>4. Len(polls) <= Len(peer_list) /\ Len(polls) \in Nat
            /\ Len(peer_list) \in Nat
        BY <1>1, <3>3 DEF TableInv
      <3>5. Len(polls') <= Len(peer_list') /\ index' >= 1
        BY <3>1, <3>2, <3>3, <3>4, <1>1
      <3>6. \A i \in 1 .. Len(polls') : i \in 1 .. Len(polls) /\ i \in PeerIdx
        BY <3>1, <3>4 DEF PeerIdx
      <3>7. \A i \in 1 .. Len(polls') : polls'[i].fd = peer_list'[i].sck
        BY <3>1, <3>2, <3>3, <3>6 DEF TableInv
      <3>8. \A i \in 1 .. Len(polls') :
               "OUT" \in polls'[i].revents => peer_list'[i].send # <<>>
        BY <3>1, <3>2, <3>3, <3>6 DEF TableInv
      <3> QED
        BY <2>1, <3>5, <3>7, <3>8 DEF TableInv
    <2>2. CASE pc' = "top"
      BY <1>2, <2>2
    <2> QED
      BY <1>6, <2>1, <2>2 DEF PollIo
  <1>7. CASE CheckIn
    <2>1. pc = "in" /\ pc' = "out" /\ index <= Len(polls)
          /\ UNCHANGED <<polls, index>>
          /\ (peer_list' = peer_list \/ DropAt(PeerAt)) /\ PeerAt = index
      BY <1>7, Lookup DEF CheckIn
    <2>2. /\ Len(peer_list') = Len(peer_list)
          /\ \A i \in PeerIdx : /\ peer_list'[i].sck = peer_list[i].sck
                                /\ peer_list'[i].send = peer_list[i].send
      BY <1>1, <2>1, DropAtType DEF PeerIdx
    <2>3. \A i \in 1 .. Len(polls) : i \in PeerIdx
      BY <1>1, <2>1 DEF TableInv, PeerIdx
    <2> QED
      BY <2>1, <2>2, <2>3 DEF TableInv
  <1>8. CASE CheckNoOut
    <2>1. pc = "out" /\ pc' = "in" /\ index' = index + 1
          /\ UNCHANGED <<polls, peer_list>>
      BY <1>8 DEF CheckNoOut, NextPolled
    <2> QED
      BY <1>1, <2>1 DEF TableInv, PeerIdx
  <1>9. CASE CheckSendFail
    <2>1. pc = "out" /\ pc' = "in" /\ index' = index + 1 /\ polls' = polls
          /\ DropAt(PeerAt) /\ PeerAt = index
      BY <1>9, Lookup DEF CheckSendFail, NextPolled, TableInv
    <2>2. /\ Len(peer_list') = Len(peer_list)
          /\ \A i \in PeerIdx : /\ peer_list'[i].sck = peer_list[i].sck
                                /\ peer_list'[i].send = peer_list[i].send
      BY <1>1, <2>1, DropAtType DEF PeerIdx
    <2>3. \A i \in 1 .. Len(polls) : i \in PeerIdx
      BY <1>1, <2>1 DEF TableInv, PeerIdx
    <2> QED
      BY <1>1, <2>1, <2>2, <2>3, SMTT(30) DEF TableInv
  <1>10. CASE CheckSend
    <2> DEFINE q == peer_list[index].send
    <2>1. q \in Seq(Message) /\ q # <<>> /\ index \in PeerIdx
      BY <1>10, SendEffect
    <2>2. PICK n \in 1 .. Units - Head(q).sent :
                 /\ peer_list' = [peer_list EXCEPT ![index].send = SentOf(@, n)]
                 /\ \/ pc' = "in" /\ index' = index + 1
                    \/ /\ pc' = "sending" /\ index' = index
                       /\ Head(q).sent + n # Units
      BY <1>10, SendEffect
    <2> DEFINE r == SentOf(q, n)
    <2>3. r \in Seq(Message)
      BY <2>1, SentOfType
    <2>4. peer_list' = [peer_list EXCEPT ![index].send = r]
      BY <2>1, <2>2
    <2> HIDE DEF q, r
    <2>5. /\ Len(peer_list') = Len(peer_list)
          /\ \A j \in PeerIdx :
               /\ peer_list'[j].sck = peer_list[j].sck
               /\ peer_list'[j].send = IF j = index THEN r ELSE peer_list[j].send
      BY <1>1, <2>1, <2>3, <2>4, NewSendType
    <2>6. /\ pc \in {"out", "sending"} /\ polls' = polls
          /\ \/ pc' = "in" /\ index' = index + 1
             \/ pc' = "sending" /\ index' = index /\ r # <<>>
      <3>1. r # <<>> \/ Head(q).sent + n = Units
        <4>1. CASE Head(q).sent + n # Units
          <5>1. Head(q).sent + n < Units
            <6>1. Head(q) \in Message /\ Units \in Nat
              BY <2>1, Constants
            <6> QED
              BY <2>2, <4>1, <6>1 DEF Message
          <5>2. r = <<[Head(q) EXCEPT !.sent = @ + n]>> \o Tail(q)
            <6>1. ~(Head(q).sent + n >= Units)
              <7>1. Head(q) \in Message /\ Units \in Nat
                BY <2>1, Constants
              <7> QED
                BY <2>2, <5>1, <7>1 DEF Message
            <6> QED
              BY <6>1 DEF SentOf, r
          <5>3. Tail(q) \in Seq(Message)
            BY <2>1
          <5> QED
            BY <5>2, <5>3
        <4> QED
          BY <4>1
      <3>2. pc \in {"out", "sending"} /\ polls' = polls
        BY <1>10, Zenon DEF CheckSend
      <3> QED
        BY <2>2, <3>1, <3>2
    <2>7. \A i \in 1 .. Len(polls) : i \in PeerIdx
      BY <1>1, <2>6 DEF TableInv, PeerIdx
    <2> QED
      BY <1>1, <2>5, <2>6, <2>7, SMTT(30) DEF TableInv
  <1>11. CASE CheckEnd
    BY <1>1, <1>11 DEF CheckEnd, TableInv
  <1>12. CASE Sweep
    <2>1. pc = "sweep" /\ pc' = "sweep" /\ index' = index - 1 /\ index > 0
          /\ index <= Len(peer_list)
          /\ (peer_list' = peer_list \/ peer_list' = SwapRemove(peer_list, index))
      BY <1>12 DEF Sweep, TableInv
    <2>2. Len(peer_list') >= Len(peer_list) - 1
      BY <1>1, <2>1, SwapRemoveType
    <2>3. index' <= Len(peer_list')
      <3>1. Len(peer_list') \in Nat
        BY <1>1, <2>1, SwapRemoveType
      <3> QED
        BY <1>1, <2>1, <2>2, <3>1
    <2> QED
      BY <2>1, <2>3 DEF TableInv
  <1>13. CASE TopReadFail \/ PollTimeout \/ PollHup \/ PollAcceptFail \/ SleepDone
              \/ Exit \/ SweepEnd
    BY <1>2, <1>13 DEF TopReadFail, PollTimeout, PollHup, PollAcceptFail,
                       SleepDone, Exit, SweepEnd
  <1>14. CASE UNCHANGED vars
    BY <1>3, <1>14 DEF vars, daemon
  <1>15. ASSUME NEW c \in Clients, ClientStep(c) PROVE TableInv'
    BY <1>3, <1>15 DEF ClientStep, Connect, Receive, Chat, Close, daemon
  <1>16. CASE SendShort
    <2>1. pc = "sending" /\ pc' = "in" /\ index' = index + 1
          /\ UNCHANGED <<polls, peer_list>>
      BY <1>16 DEF SendShort, NextPolled
    <2> QED
      BY <1>1, <2>1 DEF TableInv, PeerIdx
  <1> QED
    BY <1>16, <1>5, <1>6, <1>7, <1>8, <1>9, <1>10, <1>11, <1>12, <1>13, <1>14, <1>15
    DEF Next, Check, SendCut, Stopped

-----------------------------------------------------------------------------
(* What each client has been sent.                                         *)

\* Whatever a client was sent since it joined is what was promised, and what
\* it still lacks is in the send list of its peer.
StreamInv ==
    /\ \A c \in Clients : IsText(Units, joinAt[c], stream[c])
    /\ \A i \in PeerIdx :
         Lags(Units, joinAt[sock[peer_list[i].sck]], published,
              stream[sock[peer_list[i].sck]], peer_list[i].send)

LEMMA PeerClient ==
    ASSUME TypeOK, PeersInv, NEW i \in PeerIdx
    PROVE  /\ peer_list[i] \in Peer /\ peer_list[i].sck \in Fds
           /\ peer_list[i].send \in Seq(Message)
           /\ sock[peer_list[i].sck] \in Clients
  <1>1. peer_list[i] \in Peer
    BY DEF TypeOK, PeerIdx
  <1>2. peer_list[i].sck \in Fds /\ peer_list[i].send \in Seq(Message)
    BY <1>1 DEF Peer
  <1> QED
    BY <1>1, <1>2 DEF TypeOK, PeersInv

\* Steps that send nothing and keep every send list.
Quiet == /\ UNCHANGED <<sock, published, joinAt, stream>>
         /\ Len(peer_list') = Len(peer_list)
         /\ \A i \in PeerIdx : /\ peer_list'[i].sck = peer_list[i].sck
                               /\ peer_list'[i].send = peer_list[i].send

\* What a client was sent only grows, and by what is promised.
LEMMA StreamStep ==
    TypeOK /\ HeldInv /\ PeersInv /\ TableInv /\ StreamInv /\ [Next]_vars => StreamInv'
  <1> SUFFICES ASSUME TypeOK, HeldInv, PeersInv, TableInv, StreamInv, [Next]_vars
               PROVE  StreamInv'
    OBVIOUS
  <1> USE Constants
  <1>1. /\ peer_list \in Seq(Peer) /\ index \in Int /\ published \in Nat
        /\ Message = Item(Units)
    BY DEF TypeOK, Message, Item
  <1>2. CASE Quiet
    BY <1>2 DEF Quiet, StreamInv, PeerIdx
  <1>3. CASE UNCHANGED <<peer_list, sock, published, joinAt, stream>>
    BY <1>3 DEF StreamInv, PeerIdx
  <1>4. CASE TopRead
    <2>1. /\ peer_list' = [i \in 1 .. Len(peer_list) |-> Enqueue(peer_list[i])]
          /\ UNCHANGED <<sock, joinAt, stream>> /\ published' = published + 1
      BY <1>4 DEF TopRead, Top, kernel
    <2>2. /\ Len(peer_list') = Len(peer_list)
          /\ \A i \in PeerIdx : peer_list'[i] = Enqueue(peer_list[i])
      BY <1>1, <2>1 DEF PeerIdx
    <2>3. ASSUME NEW i \in PeerIdx
          PROVE  Lags(Units, joinAt[sock[peer_list'[i].sck]], published',
                      stream[sock[peer_list'[i].sck]], peer_list'[i].send)
      <3> DEFINE c == sock[peer_list[i].sck]
                 q == peer_list[i].send
      <3>1. c \in Clients /\ q \in Seq(Item(Units))
        BY <1>1, PeerClient
      <3>2. joinAt[c] \in Nat /\ Lags(Units, joinAt[c], published, stream[c], q)
        BY <3>1 DEF TypeOK, StreamInv
      <3>3. /\ peer_list'[i].sck = peer_list[i].sck
            /\ peer_list'[i].send = Append(q, [msg |-> published + 1, sent |-> 0])
        BY <1>1, <2>2, EnqueueEffect DEF PeerIdx
      <3> HIDE DEF c, q
      <3>4. Lags(Units, joinAt[c], published + 1, stream[c],
                 Append(q, [msg |-> published + 1, sent |-> 0]))
        BY <1>1, <3>1, <3>2, LagsPublish
      <3> QED
        BY <2>1, <3>3, <3>4 DEF c
    <2> QED
      BY <2>1, <2>2, <2>3 DEF StreamInv, PeerIdx
  <1>5. CASE PollIo
    <2>1. AcceptOne /\ published' = published
      BY <1>5 DEF PollIo
    <2>2. CASE backlog # <<>>
      <3> DEFINE new == Head(backlog)
      <3>1. PICK fd \in Fds : /\ sock[fd] = Nobody
                              /\ peer_list' = Append(peer_list, NewPeer(fd))
                              /\ sock' = [sock EXCEPT ![fd] = new]
                              /\ joinAt' = [joinAt EXCEPT ![new] = published]
                              /\ stream' = [stream EXCEPT ![new] = <<>>]
        BY <2>1, <2>2 DEF AcceptOne, LowestFree, FreeFds
      <3>2. /\ new \in Clients /\ new = backlog[1] /\ 1 \in 1 .. Len(backlog)
        BY <2>2 DEF TypeOK
      <3>3. \A f \in Fds : sock[f] # new
        BY <3>2 DEF HeldInv
      <3> HIDE DEF new
      <3>4. /\ \A f \in Fds : sock'[f] = IF f = fd THEN new ELSE sock[f]
            /\ \A c \in Clients : c # new => joinAt'[c] = joinAt[c] /\ stream'[c] = stream[c]
            /\ joinAt'[new] = published /\ stream'[new] = <<>>
        BY <3>1, <3>2 DEF TypeOK
      <3>5. Lags(Units, published, published, <<>>, <<>>) /\ IsText(Units, published, <<>>)
        BY <1>1, LagsJoin
      <3>6. \A c \in Clients : IsText(Units, joinAt'[c], stream'[c])
        BY <3>4, <3>5 DEF StreamInv
      <3>7. /\ Len(peer_list') = Len(peer_list) + 1 /\ Len(peer_list) \in Nat
            /\ \A i \in 1 .. Len(peer_list') :
                 \/ i \in PeerIdx /\ peer_list'[i] = peer_list[i]
                 \/ /\ i = Len(peer_list) + 1
                    /\ peer_list'[i].sck = fd /\ peer_list'[i].send = <<>>
        BY <1>1, <3>1 DEF PeerIdx, NewPeer
      <3>8. ASSUME NEW i \in 1 .. Len(peer_list')
            PROVE  Lags(Units, joinAt'[sock'[peer_list'[i].sck]], published,
                        stream'[sock'[peer_list'[i].sck]], peer_list'[i].send)
        <4>1. CASE i \in PeerIdx /\ peer_list'[i] = peer_list[i]
          <5>1. /\ peer_list[i].sck \in Fds /\ sock[peer_list[i].sck] \in Clients
                /\ peer_list[i].sck # fd
            BY <3>1, <4>1, PeerClient DEF PeersInv
          <5>2. /\ sock'[peer_list[i].sck] = sock[peer_list[i].sck]
                /\ sock[peer_list[i].sck] # new
            BY <3>3, <3>4, <5>1
          <5> QED
            BY <3>4, <4>1, <5>1, <5>2 DEF StreamInv
        <4>2. CASE peer_list'[i].sck = fd /\ peer_list'[i].send = <<>>
          BY <3>4, <3>5, <4>2
        <4> QED
          BY <3>7, <4>1, <4>2
      <3> QED
        BY <2>1, <3>6, <3>8 DEF StreamInv, PeerIdx
    <2>3. CASE backlog = <<>>
      BY <2>1, <2>3, <1>3 DEF AcceptOne
    <2> QED
      BY <2>2, <2>3
  <1>6. CASE Exit
    <2>1. Len(peer_list') = 0 /\ UNCHANGED <<published, joinAt, stream>>
      BY <1>6 DEF Exit, record
    <2> QED
      BY <2>1 DEF StreamInv, PeerIdx
  <1>7. CASE CheckIn
    <2>1. /\ (peer_list' = peer_list \/ DropAt(PeerAt)) /\ PeerAt = index
          /\ UNCHANGED <<sock, published, joinAt, stream>>
      BY <1>7, Lookup DEF CheckIn, record
    <2> QED
      BY <1>1, <1>2, <1>3, <2>1, DropAtType DEF Quiet, PeerIdx
  <1>8. CASE CheckSend
    <2> DEFINE q == peer_list[index].send
               c == Client
    <2>1. /\ q \in Seq(Message) /\ q # <<>> /\ index \in PeerIdx
          /\ c \in Clients /\ c = sock[peer_list[index].sck]
      BY <1>8, SendEffect
    <2>2. PICK n \in 1 .. Units - Head(q).sent :
                    /\ peer_list' = [peer_list EXCEPT ![index].send = SentOf(@, n)]
                    /\ stream' = [stream EXCEPT ![c] = @ \o
                          [k \in 1 .. n |-> <<Head(q).msg, Head(q).sent + k - 1>>]]
      BY <1>8, SendEffect
    <2> DEFINE r == SentOf(q, n)
               more == Sent(stream[c], q, n)
    <2>3. r \in Seq(Message) /\ r = Unsent(Units, q, n)
      BY <2>1, SentOfType
    <2>4. peer_list' = [peer_list EXCEPT ![index].send = r]
      BY <2>1, <2>2
    <2>5. UNCHANGED <<sock, published, joinAt>>
      BY <1>8 DEF CheckSend
    <2>6. /\ Lags(Units, joinAt[c], published, stream[c], q)
          /\ IsText(Units, joinAt[c], stream[c])
          /\ joinAt[c] \in Nat /\ stream[c] \in Seq(Nat \X Nat)
      BY <2>1 DEF StreamInv, TypeOK
    <2> HIDE DEF q, c
    <2>7. /\ Lags(Units, joinAt[c], published, more, Unsent(Units, q, n))
          /\ IsText(Units, joinAt[c], more)
      <3>1. q \in Seq(Item(Units))
        BY <1>1, <2>1
      <3> HIDE DEF more
      <3> QED
        BY <1>1, <2>1, <2>6, <3>1, LagsSend DEF more
    <2>8. stream' = [stream EXCEPT ![c] = more]
      BY <2>2 DEF Sent
    <2> HIDE DEF r, more
    <2>9. /\ Len(peer_list') = Len(peer_list)
          /\ \A j \in PeerIdx :
               /\ peer_list'[j].sck = peer_list[j].sck
               /\ peer_list'[j].send = IF j = index THEN r ELSE peer_list[j].send
      BY <1>1, <2>1, <2>3, <2>4, NewSendType
    <2>10. \A d \in Clients : stream'[d] = IF d = c THEN more ELSE stream[d]
      BY <2>1, <2>8 DEF TypeOK
    <2>11. ASSUME NEW j \in PeerIdx
           PROVE  Lags(Units, joinAt[sock[peer_list[j].sck]], published,
                       stream'[sock[peer_list[j].sck]], peer_list'[j].send)
      <3>1. peer_list[j].sck \in Fds /\ sock[peer_list[j].sck] \in Clients
            /\ peer_list[index].sck \in Fds
        BY <2>1, PeerClient
      <3>2. CASE j = index
        BY <2>1, <2>3, <2>7, <2>9, <2>10, <3>2
      <3>3. CASE j # index
        <4>1. sock[peer_list[j].sck] # c
          BY <2>1, <3>1, <3>3 DEF HeldInv, PeersInv
        <4> QED
          BY <2>9, <2>10, <3>1, <3>3, <4>1 DEF StreamInv
      <3> QED
        BY <3>2, <3>3
    <2> QED
      BY <2>5, <2>7, <2>9, <2>10, <2>11 DEF StreamInv, PeerIdx
  <1>9. CASE CheckSendFail
    <2>1. DropAt(PeerAt) /\ PeerAt = index /\ UNCHANGED <<sock, published, joinAt, stream>>
      BY <1>9, Lookup DEF CheckSendFail, TableInv, kernel, record
    <2> QED
      BY <1>1, <1>2, <2>1, DropAtType DEF Quiet, PeerIdx
  <1>10. CASE Sweep
    <2>1. CASE peer_list[index].delme
      <3>1. index \in PeerIdx /\ index \in 1 .. Len(peer_list)
        BY <1>10 DEF Sweep, TypeOK, TableInv, PeerIdx
      <3>2. /\ sock' = [sock EXCEPT ![peer_list[index].sck] = Nobody]
            /\ peer_list' = SwapRemove(peer_list, index)
            /\ UNCHANGED <<published, joinAt, stream>>
        BY <1>10, <2>1 DEF Sweep, Closed, record
      <3>3. /\ Len(peer_list') = Len(peer_list) - 1
            /\ \A j \in 1 .. Len(peer_list) - 1 :
                 peer_list'[j] = IF j = index THEN peer_list[Len(peer_list)]
                                 ELSE peer_list[j]
        BY <1>1, <3>1, <3>2, SwapRemoveType
      <3>4. \A j \in 1 .. Len(peer_list') :
              \E i \in PeerIdx : i # index /\ peer_list'[j] = peer_list[i]
        <4> TAKE j \in 1 .. Len(peer_list')
        <4>1. CASE j = index
          <5>1. Len(peer_list) \in PeerIdx /\ Len(peer_list) # index
            BY <1>1, <3>1, <3>3, <4>1 DEF PeerIdx
          <5> QED
            BY <3>3, <4>1, <5>1
        <4>2. CASE j # index
          <5>1. j \in PeerIdx
            BY <1>1, <3>3 DEF PeerIdx
          <5> QED
            BY <3>3, <4>2, <5>1
        <4> QED
          BY <4>1, <4>2
      <3>5. ASSUME NEW i \in PeerIdx, i # index
            PROVE  sock'[peer_list[i].sck] = sock[peer_list[i].sck]
        <4>1. peer_list[i].sck \in Fds /\ peer_list[i].sck # peer_list[index].sck
          BY <3>1, <3>5, PeerClient DEF PeersInv
        <4> QED
          BY <3>2, <4>1 DEF TypeOK
      <3> QED
        BY <3>2, <3>4, <3>5 DEF StreamInv, PeerIdx
    <2>2. CASE ~peer_list[index].delme
      BY <1>10, <1>3, <2>2 DEF Sweep, record
    <2> QED
      BY <2>1, <2>2
  <1>11. CASE TopQuiet \/ TopReadFail \/ PollTimeout \/ PollAcceptFail \/ UNCHANGED vars
    BY <1>3, <1>11 DEF TopQuiet, Top, TopReadFail, PollTimeout, PollAcceptFail,
                       vars, kernel, daemon, record
  <1>12. CASE PollHup \/ SleepDone
    BY <1>3, <1>12 DEF PollHup, SleepDone, Relisten, daemon, record
  <1>13. CASE CheckNoOut \/ SendShort \/ CheckEnd \/ SweepEnd
    BY <1>3, <1>13 DEF CheckNoOut, SendShort, CheckEnd, SweepEnd, kernel, daemon,
                       record
  <1>14. ASSUME NEW c \in Clients, ClientStep(c) PROVE StreamInv'
    BY <1>3, <1>14 DEF ClientStep, Connect, Receive, Chat, Close, daemon, record
  <1> QED
    BY <1>4, <1>5, <1>6, <1>7, <1>8, <1>9, <1>10, <1>11, <1>12, <1>13, <1>14
    DEF Next, Check, SendCut, Stopped

-----------------------------------------------------------------------------
(* The theorems.                                                           *)

IInv == TypeOK /\ HeldInv /\ PeersInv /\ TableInv /\ StreamInv

LEMMA IInvInit == Init => IInv
  <1> SUFFICES ASSUME Init PROVE IInv
    OBVIOUS
  <1>1. /\ Len(peer_list) = 0 /\ Len(polls) = 0 /\ Len(backlog) = 0
        /\ \A f \in Fds : sock[f] = Nobody
        /\ \A c \in Clients : joinAt[c] = 0 /\ stream[c] = <<>>
        /\ pc = "top"
    BY DEF Init
  <1>2. HeldInv /\ PeersInv /\ TableInv
    BY <1>1 DEF HeldInv, PeersInv, TableInv, PeerIdx
  <1>3. StreamInv
    <2>1. IsText(Units, 0, <<>>)
      BY DEF IsText
    <2> QED
      BY <1>1, <2>1 DEF StreamInv, PeerIdx
  <1> QED
    BY TypeInit, <1>2, <1>3 DEF IInv

\* The peers, their descriptors and the poll table stay in step.
LEMMA IInvStep == IInv /\ [Next]_vars => IInv'
  BY TypeStep, HeldStep, PeersStep, TableStep, StreamStep DEF IInv

\* The invariant the theorems below follow from.
LEMMA Invariance == Spec => []IInv
  BY IInvInit, IInvStep, PTL DEF Spec

\* The variables of the daemon, of the kernel and of the clients never leave
\* the sets TypeOK gives them: no list of messages ever holds a message that
\* is all sent, and no buffer more than it has room for.
THEOREM TypeCorrect == Spec => []TypeOK
  <1>1. IInv => TypeOK
    BY DEF IInv
  <1> QED
    BY Invariance, <1>1, PTL

\* get_peer_by_sck can take the first peer it finds, and no descriptor is
\* leaked: OnePeerPerDescriptor, whatever is accepted, dropped and reopened.
THEOREM OnePeer == Spec => []OnePeerPerDescriptor
  <1>1. TypeOK /\ PeersInv => OnePeerPerDescriptor
    <2> SUFFICES ASSUME TypeOK, PeersInv PROVE OnePeerPerDescriptor
      OBVIOUS
    <2>1. \A f \in Fds : sock[f] # Nobody <=> \E i \in PeerIdx : peer_list[i].sck = f
      BY DEF PeersInv
    <2>2. Scks = {peer_list[i].sck : i \in PeerIdx}
      BY DEF Scks, Peers, ToSet, PeerIdx, TypeOK
    <2>3. Scks \subseteq Fds
      BY <2>2, PeerClient
    <2>4. {fd \in Fds : sock[fd] # Nobody} = Scks
      BY <2>1, <2>2, <2>3
    <2> QED
      BY <2>4 DEF OnePeerPerDescriptor, PeersInv, PeerIdx
  <1>2. IInv => OnePeerPerDescriptor
    BY <1>1 DEF IInv
  <1> QED
    BY Invariance, <1>2, PTL

\* check_peers never meets TtyError.PeerNotFound, although its table is older
\* than what accept has added and what it has marked itself: PeerAlwaysFound.
THEOREM PeerFound == Spec => []PeerAlwaysFound
  <1>1. IInv => PeerAlwaysFound
    <2> SUFFICES ASSUME IInv PROVE ~NotFound
      BY DEF PeerAlwaysFound
    <2>1. CASE pc \in {"in", "out"} /\ index <= Len(polls)
      BY <2>1, Lookup DEF IInv
    <2>2. CASE ~(pc \in {"in", "out"} /\ index <= Len(polls))
      BY <2>2 DEF NotFound
    <2> QED
      BY <2>1, <2>2
  <1> QED
    BY Invariance, <1>1, PTL

-----------------------------------------------------------------------------
(* The refinement.                                                         *)

\* Served are those at the other end of a descriptor.
LEMMA ServedIs ==
    ASSUME NEW ps \in Seq(Peer), NEW sk \in [Fds -> Clients \cup {Nobody}],
           \A i \in 1 .. Len(ps) : sk[ps[i].sck] # Nobody,
           \A f \in Fds : sk[f] # Nobody => \E i \in 1 .. Len(ps) : ps[i].sck = f
    PROVE  {sk[p.sck] : p \in ToSet(ps)} = {sk[f] : f \in Fds} \ {Nobody}
  <1>1. ToSet(ps) = {ps[i] : i \in 1 .. Len(ps)}
    BY DEF ToSet
  <1>2. \A i \in 1 .. Len(ps) : ps[i].sck \in Fds
    <2>1. \A i \in 1 .. Len(ps) : ps[i] \in Peer
      OBVIOUS
    <2> QED
      BY <2>1 DEF Peer
  <1>3. ASSUME NEW p \in ToSet(ps)
        PROVE  sk[p.sck] \in {sk[f] : f \in Fds} \ {Nobody}
    BY <1>1, <1>2
  <1>4. ASSUME NEW f \in Fds, sk[f] # Nobody
        PROVE  \E p \in ToSet(ps) : sk[p.sck] = sk[f]
    BY <1>1, <1>4
  <1> QED
    BY <1>3, <1>4

LEMMA PromiseInit == Init => Promise!Init
  <1> SUFFICES ASSUME Init PROVE Promise!Init
    OBVIOUS
  <1>1. Served = {}
    BY DEF Init, Served, Peers, ToSet
  <1> QED
    BY <1>1 DEF Init, Promise!Init

\* Every step of the program is a step of Feed or changes nothing of it: a
\* read publishes, accept lets one join, a send delivers, and a client leaves
\* when its descriptor is closed.
LEMMA PromiseStep ==
    IInv /\ IInv' /\ [Next]_vars => [Promise!Next]_(Promise!vars)
  <1> SUFFICES ASSUME IInv, IInv', [Next]_vars
               PROVE  Promise!Next \/ UNCHANGED Promise!vars
    OBVIOUS
  <1> USE Constants
  <1> TypeOK /\ HeldInv /\ PeersInv /\ TableInv /\ StreamInv
    BY DEF IInv
  <1>1. Served = {sock[f] : f \in Fds} \ {Nobody}
    <2>1. /\ peer_list \in Seq(Peer) /\ sock \in [Fds -> Clients \cup {Nobody}]
          /\ \A i \in 1 .. Len(peer_list) : sock[peer_list[i].sck] # Nobody
          /\ \A f \in Fds : sock[f] # Nobody =>
                              \E i \in 1 .. Len(peer_list) : peer_list[i].sck = f
      BY DEF TypeOK, PeersInv, PeerIdx
    <2> QED
      BY <2>1, ServedIs, Zenon DEF Served, Peers
  <1>2. Served' = {sock'[f] : f \in Fds} \ {Nobody}
    <2>1. /\ peer_list' \in Seq(Peer) /\ sock' \in [Fds -> Clients \cup {Nobody}]
          /\ \A i \in 1 .. Len(peer_list') : sock'[peer_list'[i].sck] # Nobody
          /\ \A f \in Fds : sock'[f] # Nobody =>
                              \E i \in 1 .. Len(peer_list') : peer_list'[i].sck = f
      BY DEF IInv, TypeOK, PeersInv, PeerIdx
    <2> QED
      BY <2>1, ServedIs, Zenon DEF Served, Peers
  <1>3. sock' = sock => Served' = Served
    BY <1>1, <1>2
  <1>4. CASE UNCHANGED <<sock, published, joinAt, stream>>
    BY <1>3, <1>4 DEF Promise!vars
  <1>5. CASE TopRead
    BY <1>3, <1>5 DEF TopRead, Top, kernel, Promise!Next, Promise!Publish
  <1>6. CASE PollIo
    <2>1. AcceptOne /\ published' = published
      BY <1>6 DEF PollIo
    <2>2. CASE backlog # <<>>
      <3> DEFINE new == Head(backlog)
      <3>1. PICK fd \in Fds : /\ sock[fd] = Nobody
                              /\ sock' = [sock EXCEPT ![fd] = new]
                              /\ joinAt' = [joinAt EXCEPT ![new] = published]
                              /\ stream' = [stream EXCEPT ![new] = <<>>]
        BY <2>1, <2>2 DEF AcceptOne, LowestFree, FreeFds
      <3>2. /\ new \in Clients /\ new = backlog[1] /\ 1 \in 1 .. Len(backlog)
        BY <2>2 DEF TypeOK
      <3>3. \A f \in Fds : sock[f] # new
        BY <3>2 DEF HeldInv
      <3> HIDE DEF new
      <3>4. \A f \in Fds : sock'[f] = IF f = fd THEN new ELSE sock[f]
        BY <3>1 DEF TypeOK
      <3>5. new \notin Served /\ new # Nobody
        BY <1>1, <3>2, <3>3
      <3>6. Served' = Served \cup {new}
        BY <1>1, <1>2, <3>1, <3>4, <3>5
      <3>7. Promise!Join(new)
        BY <2>1, <3>1, <3>5, <3>6 DEF Promise!Join
      <3> QED
        BY <3>2, <3>7 DEF Promise!Next
    <2>3. CASE backlog = <<>>
      BY <1>4, <2>1, <2>3 DEF AcceptOne
    <2> QED
      BY <2>2, <2>3
  <1>7. CASE CheckSend
    <2> DEFINE q == peer_list[index].send
               c == Client
    <2>1. /\ q \in Seq(Message) /\ q # <<>> /\ index \in PeerIdx
          /\ c \in Clients /\ c = sock[peer_list[index].sck]
      BY <1>7, SendEffect
    <2>2. PICK n \in 1 .. Units - Head(q).sent :
             stream' = [stream EXCEPT ![c] = @ \o
                          [k \in 1 .. n |-> <<Head(q).msg, Head(q).sent + k - 1>>]]
      BY <1>7, SendEffect
    <2>3. UNCHANGED <<sock, published, joinAt>>
      BY <1>7 DEF CheckSend
    <2>4. /\ Lags(Units, joinAt[c], published, stream[c], q)
          /\ IsText(Units, joinAt[c], stream[c])
          /\ joinAt[c] \in Nat /\ stream[c] \in Seq(Nat \X Nat)
          /\ published \in Nat /\ q \in Seq(Item(Units))
      BY <2>1 DEF StreamInv, TypeOK, Message, Item
    <2>5. c \in Served
      <3>1. peer_list[index].sck \in Fds
        BY <2>1, PeerClient
      <3> QED
        BY <1>1, <2>1, <3>1
    <2> DEFINE more == Sent(stream[c], q, n)
               due == Units * (published - joinAt[c])
    <2>6. stream' = [stream EXCEPT ![c] = more]
      BY <2>2 DEF Sent
    <2> HIDE DEF q, c
    <2>7. /\ more \in Seq(Nat \X Nat) /\ Len(more) = Len(stream[c]) + n
          /\ IsText(Units, joinAt[c], more)
          /\ n \in 1 .. due - Len(stream[c])
      <3>1. Units \in Nat \ {0} /\ n \in 1 .. Units - Head(q).sent /\ q # <<>>
        BY <2>1
      <3> HIDE DEF more, due
      <3>2. Len(more) = Len(stream[c]) + n
        BY <2>4, <3>1, LagsSend, SMTT(30) DEF more
      <3>3. more \in Seq(Nat \X Nat)
        BY <2>4, <3>1, LagsSend, Zenon DEF more
      <3>4. IsText(Units, joinAt[c], more)
        BY <2>4, <3>1, LagsSend DEF more
      <3>5. n \in 1 .. Units * (published - joinAt[c]) - Len(stream[c])
        BY <2>4, <3>1, LagsSend
      <3> QED
        BY <3>2, <3>4, <3>5, <3>3 DEF due
    <2> HIDE DEF more
    <2>8. due \in Nat
      <3>1. published - joinAt[c] \in Nat
        BY <2>4 DEF Lags
      <3> QED
        BY <3>1, MulFacts
    <2>9. more = SubSeq(Promise!Text(joinAt[c], published), 1, Len(stream[c]) + n)
      <3>1. Promise!Text(joinAt[c], published)
              = [m \in 1 .. due |-> <<joinAt[c] + 1 + (m - 1) \div Units, (m - 1) % Units>>]
        BY DEF Promise!Text
      <3> HIDE DEF due
      <3>2. Len(more) <= due
        BY <2>4, <2>7, <2>8
      <3>3. more = SubSeq([m \in 1 .. due |->
                  <<joinAt[c] + 1 + (m - 1) \div Units, (m - 1) % Units>>], 1, Len(more))
        BY <2>4, <2>7, <2>8, <3>2, TextPrefix
      <3> QED
        BY <2>7, <3>1, <3>3
    <2>10. Promise!Deliver(c)
      <3>1. n \in 1 .. Promise!Behind(c)
        BY <2>7 DEF Promise!Behind
      <3> HIDE DEF due
      <3>2. stream' = [stream EXCEPT ![c] =
                SubSeq(Promise!Text(joinAt[c], published), 1, Len(stream[c]) + n)]
        BY <2>6, <2>9
      <3>3. UNCHANGED <<published, Served, joinAt>>
        BY <1>3, <2>3
      <3> QED
        BY <2>5, <3>1, <3>2, <3>3 DEF Promise!Deliver
    <2> QED
      BY <2>1, <2>10 DEF Promise!Next
  <1>8. CASE Sweep
    <2>1. CASE peer_list[index].delme
      <3> DEFINE fd == peer_list[index].sck
                 gone == {sock[fd]}
      <3>1. index \in PeerIdx
        BY <1>8 DEF Sweep, TypeOK, TableInv, PeerIdx
      <3>2. fd \in Fds /\ sock[fd] # Nobody
        BY <3>1, PeerClient DEF PeersInv
      <3>3. /\ sock' = [sock EXCEPT ![fd] = Nobody]
            /\ UNCHANGED <<published, joinAt, stream>>
        BY <1>8, <2>1 DEF Sweep, Closed, record
      <3> HIDE DEF fd
      <3>4. \A f \in Fds : sock'[f] = IF f = fd THEN Nobody ELSE sock[f]
        BY <3>3 DEF TypeOK
      <3>5. \A f \in Fds : sock[f] = sock[fd] => f = fd
        BY <3>2 DEF HeldInv
      <3>6. Served' = Served \ gone
        BY <1>1, <1>2, <3>2, <3>4, <3>5
      <3>7. gone \in SUBSET Served /\ gone # {}
        BY <1>1, <3>2
      <3>8. Promise!Leave(gone)
        BY <3>3, <3>6, <3>7 DEF Promise!Leave
      <3> QED
        BY <3>7, <3>8 DEF Promise!Next
    <2>2. CASE ~peer_list[index].delme
      BY <1>8, <1>4, <2>2 DEF Sweep, record
    <2> QED
      BY <2>1, <2>2
  <1>9. CASE Exit
    <2>1. (\A f \in Fds : sock'[f] = Nobody) /\ UNCHANGED <<published, joinAt, stream>>
      BY <1>9 DEF Exit, record
    <2>2. Served' = {}
      BY <1>2, <2>1
    <2>3. CASE Served = {}
      BY <2>1, <2>2, <2>3 DEF Promise!vars
    <2>4. CASE Served # {}
      <3>1. Promise!Leave(Served)
        BY <2>1, <2>2, <2>4 DEF Promise!Leave
      <3> QED
        BY <3>1 DEF Promise!Next
    <2> QED
      BY <2>3, <2>4
  <1>10. CASE CheckIn \/ CheckNoOut \/ SendShort \/ CheckSendFail \/ CheckEnd
              \/ SweepEnd
    BY <1>4, <1>10 DEF CheckIn, CheckNoOut, SendShort, CheckSendFail, CheckEnd,
                       SweepEnd, kernel, record
  <1>11. CASE TopQuiet \/ TopReadFail \/ PollTimeout \/ PollAcceptFail \/ UNCHANGED vars
    BY <1>4, <1>11 DEF TopQuiet, Top, TopReadFail, PollTimeout, PollAcceptFail,
                       vars, kernel, record
  <1>12. CASE PollHup \/ SleepDone
    BY <1>4, <1>12 DEF PollHup, SleepDone, Relisten, record
  <1>13. CASE \E c \in Clients : ClientStep(c)
    BY <1>4, <1>13 DEF ClientStep, Connect, Receive, Chat, Close, record
  <1> QED
    BY <1>5, <1>6, <1>7, <1>8, <1>9, <1>10, <1>11, <1>12, <1>13
    DEF Next, Check, SendCut, Stopped

\* Each client gets the messages published from when it was accepted, whole,
\* in order, each once, until its descriptor is closed, whatever the sizes of
\* sends, and whoever else comes, stalls or goes: PeerFanout implements Feed.
THEOREM FanoutImplementsFeed == Spec => FeedSpec
  <1>1. Spec => Promise!Init /\ [][Promise!Next]_(Promise!vars)
    BY Invariance, PromiseInit, PromiseStep, PTL DEF Spec
  <1> QED
    BY <1>1 DEF FeedSpec, Promise!Spec
=============================================================================
