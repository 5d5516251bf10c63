-------------------------------- MODULE Feed --------------------------------
(***************************************************************************)
(* What the publisher promises its clients, without sockets or queues: a   *)
(* client that joins gets the messages published from then on, whole, in   *)
(* order, each once, until it leaves.  It may lag behind.                  *)
(***************************************************************************)
EXTENDS Integers, Sequences

CONSTANTS Clients, Units   \* the pieces a message may be sent in, at least 1

VARIABLES
    published,   \* how many messages there have been
    members,     \* the clients being served
    joinAt,      \* published, when the client joined
    stream       \* all pieces the client was sent since it joined

vars == <<published, members, joinAt, stream>>

\* The pieces of messages a + 1, ..., b: piece k of message m is <<m, k>>.
Text(a, b) == [n \in 1 .. Units * (b - a) |->
                  <<a + 1 + (n - 1) \div Units, (n - 1) % Units>>]

Init == /\ published = 0 /\ members = {}
        /\ joinAt = [c \in Clients |-> 0]
        /\ stream = [c \in Clients |-> <<>>]

Publish == /\ published' = published + 1
           /\ UNCHANGED <<members, joinAt, stream>>

Join(c) == /\ c \notin members /\ members' = members \cup {c}
           /\ joinAt' = [joinAt EXCEPT ![c] = published]
           /\ stream' = [stream EXCEPT ![c] = <<>>]
           /\ UNCHANGED published

Behind(c) == Units * (published - joinAt[c]) - Len(stream[c])

Deliver(c) ==
    /\ c \in members
    /\ \E k \in 1 .. Behind(c) :
          stream' = [stream EXCEPT ![c] =
                        SubSeq(Text(joinAt[c], published), 1, Len(@) + k)]
    /\ UNCHANGED <<published, members, joinAt>>

Leave(gone) == /\ gone # {} /\ members' = members \ gone
               /\ UNCHANGED <<published, joinAt, stream>>

Next == \/ Publish
        \/ \E c \in Clients : Join(c) \/ Deliver(c)
        \/ \E gone \in SUBSET members : Leave(gone)

Spec == Init /\ [][Next]_vars
=============================================================================
