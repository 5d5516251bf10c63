----------------------------- MODULE FeedLemmas -----------------------------
(***************************************************************************)
(* What the proofs about PeerFanout and InfluxForwarder share: both send   *)
(* numbered messages in pieces, and both implement Feed.  Piece n of what  *)
(* a client gets that joined after a messages is piece (n - 1) % units of  *)
(* message a + 1 + (n - 1) \div units.                                     *)
(***************************************************************************)
EXTENDS Integers, Sequences, NaturalsInduction, WellFoundedInduction, TLAPS

Piece(units, a, n) == <<a + 1 + (n - 1) \div units, (n - 1) % units>>

\* A stream that is the beginning of what Feed promises.
IsText(units, a, st) == \A n \in 1 .. Len(st) : st[n] = Piece(units, a, n)

\* The facts about products and quotients that the lemmas below need, which
\* are not linear arithmetic.
LEMMA DivFacts ==
    ASSUME NEW u \in Nat \ {0}, NEW d \in Nat, NEW r \in 0 .. u - 1
    PROVE  (u * d + r) \div u = d /\ (u * d + r) % u = r
  OBVIOUS

\* What multiplying by u does.
LEMMA MulFacts ==
    ASSUME NEW u \in Nat \ {0}, NEW d \in Nat, NEW e \in Nat
    PROVE  /\ u * d \in Nat /\ u * 0 = 0
           /\ u * (d + 1) = u * d + u
           /\ u * (d + e) = u * d + u * e
           /\ e >= 1 => u * e >= u
  OBVIOUS

\* Sequences put together.
LEMMA ConcatLen ==
    ASSUME NEW S, NEW s \in Seq(S), NEW t \in Seq(S)
    PROVE  Len(s \o t) = Len(s) + Len(t) /\ s \o t \in Seq(S)
  OBVIOUS

\* A function on 1 .. n is a sequence.
LEMMA FunIsSeq ==
    ASSUME NEW n \in Nat, NEW S, NEW f \in [1 .. n -> S]
    PROVE  f \in Seq(S) /\ Len(f) = n /\ (n # 0 => f # <<>>)
  OBVIOUS

\* The least element, which proofs by induction over data take a
\* counterexample from.
LEMMA NatLeast ==
    ASSUME NEW T, T \subseteq Nat, T # {}
    PROVE  \E m \in T : \A k \in T : m <= k
  <1>1. PICK m \in T : \A y \in T : ~(<<y, m>> \in OpToRel(<, Nat))
    BY NatLessThanWellFounded, WFMin
  <1>2. \A k \in T : ~(k < m)
    BY <1>1 DEF OpToRel
  <1> QED
    BY <1>2

\* Promised pieces after promised pieces.
LEMMA ConcatText ==
    ASSUME NEW u, NEW a, NEW S, NEW st \in Seq(S), NEW new \in Seq(S),
           IsText(u, a, st),
           \A k \in 1 .. Len(new) : new[k] = Piece(u, a, Len(st) + k)
    PROVE  IsText(u, a, st \o new)
  <1> DEFINE more   == st \o new
             len    == Len(st)
             piece(k) == Piece(u, a, k)
  <1>1. /\ Len(more) = len + Len(new) /\ len \in Nat /\ Len(new) \in Nat
        /\ \A k \in 1 .. len : more[k] = st[k]
        /\ \A k \in 1 .. Len(new) : more[len + k] = new[k]
    OBVIOUS
  <1>2. /\ \A k \in 1 .. len : st[k] = piece(k)
        /\ \A k \in 1 .. Len(new) : new[k] = piece(len + k)
    BY DEF IsText
  <1> HIDE DEF more, len, piece
  <1>3. ASSUME NEW k \in 1 .. Len(more) PROVE more[k] = piece(k)
    <2>1. CASE k <= len
      BY <1>1, <1>2, <2>1
    <2>2. CASE ~(k <= len)
      <3>1. k - len \in 1 .. Len(new) /\ len + (k - len) = k
        BY <1>1, <2>2
      <3> QED
        BY <1>1, <1>2, <3>1
    <2> QED
      BY <2>1, <2>2
  <1> QED
    BY <1>1, <1>3 DEF IsText, more, piece, len

\* After d whole messages and s pieces of the next come the rest of its pieces.
LEMMA NextPiece ==
    ASSUME NEW u \in Nat \ {0}, NEW a \in Nat, NEW d \in Nat,
           NEW s \in 0 .. u - 1, NEW k \in 1 .. u - s
    PROVE  Piece(u, a, u * d + s + k) = <<a + d + 1, s + k - 1>>
  <1> DEFINE r == s + k - 1
             m == u * d + s + k - 1
  <1>1. r \in 0 .. u - 1 /\ m = u * d + r
    BY MulFacts
  <1>2. <<a + d + 1, s + k - 1>> = <<a + 1 + d, r>>
    OBVIOUS
  <1>3. Piece(u, a, u * d + s + k) = <<a + 1 + m \div u, m % u>>
    BY DEF Piece
  <1> HIDE DEF r, m
  <1>4. m \div u = d /\ m % u = r
    BY <1>1, DivFacts
  <1> QED
    BY <1>2, <1>3, <1>4, Zenon

\* A stream that is promised text is the beginning of any longer text.
LEMMA TextPrefix ==
    ASSUME NEW u \in Nat \ {0}, NEW a \in Nat, NEW len \in Nat,
           NEW st \in Seq(Nat \X Nat), Len(st) <= len, IsText(u, a, st)
    PROVE  st = SubSeq([n \in 1 .. len |->
                          <<a + 1 + (n - 1) \div u, (n - 1) % u>>], 1, Len(st))
  <1> DEFINE piece(n) == Piece(u, a, n)
             text == [n \in 1 .. len |-> piece(n)]
             m == Len(st)
  <1>1. [n \in 1 .. len |-> <<a + 1 + (n - 1) \div u, (n - 1) % u>>] = text
    BY Zenon DEF Piece
  <1>2. m \in Nat /\ m <= len /\ \A n \in 1 .. m : st[n] = piece(n)
    BY DEF IsText
  <1>3. st = [n \in 1 .. m |-> st[n]]
    OBVIOUS
  <1> HIDE DEF piece, m
  <1>4. st = [n \in 1 .. m |-> piece(n)]
    BY <1>2, <1>3, Zenon
  <1>5. SubSeq(text, 1, m) = [n \in 1 .. m |-> piece(n)]
    BY <1>2
  <1> HIDE DEF text
  <1>6. st = SubSeq(text, 1, m)
    BY <1>4, <1>5, Zenon
  <1> QED
    BY <1>1, <1>6, Zenon DEF m
-----------------------------------------------------------------------------
(* A send list: numbered messages, each with how much of it is sent.       *)

Item(u) == [msg : Nat, sent : 0 .. u - 1]

\* The list after n > 0 more pieces of its head are sent.
Unsent(u, q, n) ==
    IF Head(q).sent + n >= u THEN Tail(q)
    ELSE <<[Head(q) EXCEPT !.sent = @ + n]>> \o Tail(q)

\* The stream of its client then.
Sent(st, q, n) == st \o [k \in 1 .. n |-> <<Head(q).msg, Head(q).sent + k - 1>>]

\* What a list q and the stream st of a client that joined after a messages
\* have to do with the b messages there are: q is the last of them, only its
\* head may be partly sent, and everything before it is in st.
Lags(u, a, b, st, q) ==
    /\ a + Len(q) <= b
    /\ \A k \in 1 .. Len(q) :
          q[k].msg = b - Len(q) + k /\ (k > 1 => q[k].sent = 0)
    /\ Len(st) = u * (b - a - Len(q)) + (IF q = <<>> THEN 0 ELSE q[1].sent)

\* The head goes when all of it is sent, and else only counts on.
LEMMA UnsentType ==
    ASSUME NEW u \in Nat \ {0}, NEW q \in Seq(Item(u)), q # <<>>,
           NEW n \in 1 .. u - Head(q).sent
    PROVE  /\ Unsent(u, q, n) \in Seq(Item(u))
           /\ Head(q).sent + n = u => Unsent(u, q, n) = Tail(q)
           /\ Head(q).sent + n # u =>
                /\ Len(Unsent(u, q, n)) = Len(q)
                /\ Unsent(u, q, n)[1] = [msg |-> Head(q).msg, sent |-> Head(q).sent + n]
                /\ \A k \in 2 .. Len(q) : Unsent(u, q, n)[k] = q[k]
  <1>1. Head(q) \in Item(u) /\ Head(q) = q[1] /\ Tail(q) \in Seq(Item(u))
        /\ Len(Tail(q)) = Len(q) - 1
        /\ \A k \in 1 .. Len(q) - 1 : Tail(q)[k] = q[k + 1]
    OBVIOUS
  <1>2. /\ Head(q).msg \in Nat /\ Head(q).sent \in Nat /\ n \in Nat \ {0}
        /\ Head(q).sent + n <= u /\ u \in Nat
        /\ Head(q) = [msg |-> Head(q).msg, sent |-> Head(q).sent]
    BY <1>1 DEF Item
  <1>3. CASE Head(q).sent + n >= u
    <2>1. Head(q).sent + n = u
      BY <1>2, <1>3
    <2>2. Unsent(u, q, n) = Tail(q)
      BY <1>3 DEF Unsent
    <2> QED
      BY <1>1, <2>1, <2>2
  <1>4. CASE ~(Head(q).sent + n >= u)
    <2> DEFINE h == [msg |-> Head(q).msg, sent |-> Head(q).sent + n]
    <2>1. h \in Item(u)
      <3>1. Head(q).sent + n \in 0 .. u - 1
        BY <1>2, <1>4
      <3> QED
        BY <1>2, <3>1 DEF Item
    <2>2. Unsent(u, q, n) = <<h>> \o Tail(q)
      <3>1. [Head(q) EXCEPT !.sent = @ + n] = h
        BY <1>2
      <3> QED
        BY <1>4, <3>1 DEF Unsent
    <2>3. /\ Head(q).sent + n # u /\ Len(q) \in Nat \ {0}
          /\ Len(Tail(q)) = Len(q) - 1
      BY <1>2, <1>1, <1>4
    <2> HIDE DEF h
    <2>4. /\ <<h>> \o Tail(q) \in Seq(Item(u))
          /\ Len(<<h>> \o Tail(q)) = Len(q)
          /\ (<<h>> \o Tail(q))[1] = h
          /\ \A k \in 2 .. Len(q) : (<<h>> \o Tail(q))[k] = q[k]
      BY <1>1, <2>1, <2>3
    <2> QED
      BY <2>2, <2>3, <2>4 DEF h
  <1> QED
    BY <1>3, <1>4

\* A client that has just joined.
LEMMA LagsJoin ==
    ASSUME NEW u \in Nat \ {0}, NEW b \in Nat
    PROVE  Lags(u, b, b, <<>>, <<>>) /\ IsText(u, b, <<>>)
  <1>1. u * 0 = 0 /\ b - b - 0 = 0
    BY MulFacts
  <1> QED
    BY <1>1 DEF Lags, IsText

\* One more message.
LEMMA LagsPublish ==
    ASSUME NEW u \in Nat \ {0}, NEW a \in Nat, NEW b \in Nat, NEW st,
           NEW q \in Seq(Item(u)), Lags(u, a, b, st, q)
    PROVE  /\ Append(q, [msg |-> b + 1, sent |-> 0]) \in Seq(Item(u))
           /\ Lags(u, a, b + 1, st, Append(q, [msg |-> b + 1, sent |-> 0]))
  <1> DEFINE m == [msg |-> b + 1, sent |-> 0]
             r == Append(q, m)
             l == Len(q)
  <1>1. m \in Item(u) /\ m.msg = b + 1 /\ m.sent = 0
    BY DEF Item
  <1> HIDE DEF m
  <1>2. /\ r \in Seq(Item(u)) /\ Len(r) = l + 1 /\ l \in Nat
        /\ \A k \in 1 .. l : r[k] = q[k]
        /\ r[l + 1] = m /\ r # <<>>
    BY <1>1
  <1>3. /\ a + l <= b
        /\ \A k \in 1 .. l : q[k].msg = b - l + k /\ (k > 1 => q[k].sent = 0)
        /\ Len(st) = u * (b - a - l) + (IF q = <<>> THEN 0 ELSE q[1].sent)
    BY DEF Lags
  <1>4. q = <<>> <=> l = 0
    OBVIOUS
  <1> HIDE DEF r, l
  <1>5. b + 1 - a - (l + 1) = b - a - l /\ a + Len(r) <= b + 1
    BY <1>2, <1>3
  <1>6. \A k \in 1 .. Len(r) :
          r[k].msg = b + 1 - Len(r) + k /\ (k > 1 => r[k].sent = 0)
    <2> TAKE k \in 1 .. Len(r)
    <2>1. CASE k <= l
      BY <1>2, <1>3, <2>1, SMTT(30)
    <2>2. CASE k = l + 1
      BY <1>1, <1>2, <2>2
    <2> QED
      BY <1>2, <2>1, <2>2
  <1>7. (IF q = <<>> THEN 0 ELSE q[1].sent) = r[1].sent
    <2>1. CASE l = 0
      BY <1>1, <1>2, <1>4, <2>1
    <2>2. CASE l # 0
      BY <1>2, <1>4, <2>2
    <2> QED
      BY <2>1, <2>2
  <1>8. Len(st) = u * (b + 1 - a - Len(r)) + r[1].sent
    BY <1>2, <1>3, <1>5, <1>7
  <1> QED
    BY <1>2, <1>5, <1>6, <1>8, SMTT(30) DEF Lags, r, m

\* What Tail drops.
LEMMA TailFacts ==
    ASSUME NEW S, NEW q \in Seq(S), q # <<>>
    PROVE  /\ Len(Tail(q)) = Len(q) - 1
           /\ \A k \in 1 .. Len(q) - 1 : Tail(q)[k] = q[k + 1]
           /\ Tail(q) # <<>> => 1 \in 1 .. Len(q) - 1
  OBVIOUS

\* Of the all that is due, ul from the message on that is being sent, have
\* is there; n more of that message is no more than what lacks.
LEMMA StillDue ==
    ASSUME NEW u \in Nat, NEW s \in Nat, NEW n \in 1 .. u - s,
           NEW ud \in Nat, NEW ul \in Nat, ul >= u,
           NEW all, all = ud + ul, NEW have, have = ud + s
    PROVE  n \in 1 .. all - have
  OBVIOUS

\* What is sent next is what is promised next.
LEMMA LagsSend ==
    ASSUME NEW u \in Nat \ {0}, NEW a \in Nat, NEW b \in Nat,
           NEW st \in Seq(Nat \X Nat), NEW q \in Seq(Item(u)), q # <<>>,
           NEW n \in 1 .. u - Head(q).sent,
           Lags(u, a, b, st, q), IsText(u, a, st)
    PROVE  /\ Sent(st, q, n) \in Seq(Nat \X Nat)
           /\ Len(Sent(st, q, n)) = Len(st) + n
           /\ Lags(u, a, b, Sent(st, q, n), Unsent(u, q, n))
           /\ IsText(u, a, Sent(st, q, n))
           /\ n \in 1 .. u * (b - a) - Len(st)
  <1> DEFINE r == Unsent(u, q, n)
             more == Sent(st, q, n)
  <1>1. PICK l \in Nat \ {0}, s \in 0 .. u - 1, d \in Nat, ud \in Nat :
          /\ l = Len(q) /\ s = Head(q).sent /\ s = q[1].sent
          /\ d = b - a - l /\ ud = u * d
    <2>1. Head(q) \in Item(u) /\ Head(q) = q[1] /\ Len(q) \in Nat \ {0}
      OBVIOUS
    <2>2. Head(q).sent \in 0 .. u - 1
      BY <2>1 DEF Item
    <2>3. b - a - Len(q) \in Nat
      BY <2>1 DEF Lags
    <2>4. u * (b - a - Len(q)) \in Nat
      BY <2>3, MulFacts
    <2> QED
      BY <2>1, <2>2, <2>3, <2>4
  <1>2. /\ l = Len(q) /\ s = Head(q).sent /\ s = q[1].sent /\ d = b - a - l
        /\ s \in Nat /\ n \in Nat \ {0} /\ n \in 1 .. u - s
    BY <1>1
  <1>3. /\ a + l <= b
        /\ \A k \in 1 .. l : q[k].msg = b - l + k /\ (k > 1 => q[k].sent = 0)
    BY <1>2 DEF Lags
  <1>4. Len(st) = ud + s
    BY <1>1 DEF Lags
  <1>5. Head(q).msg = a + d + 1
    <2>1. Head(q) = q[1] /\ 1 \in 1 .. l
      BY <1>2
    <2> QED
      BY <1>2, <1>3, <2>1
  <1>6. \A k \in 1 .. n : Piece(u, a, Len(st) + k) = <<a + d + 1, s + k - 1>>
    <2> TAKE k \in 1 .. n
    <2>1. k \in 1 .. u - s
      BY <1>2
    <2>2. Piece(u, a, u * d + s + k) = <<a + d + 1, s + k - 1>>
      <3>1. \A j \in 1 .. u - s :
              Piece(u, a, u * d + s + j) = <<a + d + 1, s + j - 1>>
        BY NextPiece, ZenonT(30)
      <3> QED
        BY <2>1, <3>1, Zenon
    <2>3. u * d = ud
      BY <1>1
    <2> QED
      BY <1>4, <2>2, <2>3
  <1>7. more = st \o [k \in 1 .. n |-> <<a + d + 1, s + k - 1>>]
    BY <1>2, <1>5 DEF Sent
  <1>8. Len(more) = Len(st) + n /\ IsText(u, a, more) /\ more \in Seq(Nat \X Nat)
    <2> DEFINE new == [k \in 1 .. n |-> <<a + d + 1, s + k - 1>>]
    <2>1. n \in Nat /\ s \in Nat
      BY <1>2
    <2>2. \A k \in 1 .. n : <<a + d + 1, s + k - 1>> \in Nat \X Nat
      BY <2>1
    <2>3. new \in Seq(Nat \X Nat) /\ Len(new) = n
          /\ \A k \in 1 .. Len(new) : new[k] = <<a + d + 1, s + k - 1>>
      BY <2>1, <2>2
    <2> HIDE DEF new
    <2>4. Len(st \o new) = Len(st) + n /\ st \o new \in Seq(Nat \X Nat)
      BY <2>3, ConcatLen
    <2>5. \A k \in 1 .. Len(new) : new[k] = Piece(u, a, Len(st) + k)
      BY <1>6, <2>3, Zenon
    <2>6. IsText(u, a, st \o new)
      BY <2>3, <2>5, ConcatText
    <2>7. more = st \o new
      BY <1>7 DEF new
    <2> QED
      BY <2>4, <2>6, <2>7
  <1>9. n \in 1 .. u * (b - a) - Len(st)
    <2>1. PICK ul \in Nat : ul = u * l
      BY MulFacts
    <2>2. b - a = d + l /\ l \in Nat /\ l >= 1
      BY <1>2
    <2>3. u * (b - a) = ud + ul /\ ul >= u
      <3>1. u * (d + l) = u * d + u * l
        BY <2>2, MulFacts
      <3>2. u * l >= u
        BY <2>2, MulFacts, Zenon
      <3> QED
        BY <1>1, <2>1, <2>2, <3>1, <3>2, Zenon
    <2> QED
      BY <1>2, <1>4, <2>3, StillDue
  <1>10. Lags(u, a, b, more, r)
    <2>1. CASE s + n = u
      <3>1. r = Tail(q)
        BY <1>2, <2>1, SMTT(30) DEF Unsent
      <3> HIDE DEF r
      <3>2. /\ Len(r) = l - 1 /\ \A k \in 1 .. l - 1 : r[k] = q[k + 1]
            /\ r # <<>> => 1 \in 1 .. l - 1
        BY <1>2, <3>1, TailFacts
      <3>3. \A k \in 1 .. l - 1 : r[k].msg = b - (l - 1) + k /\ r[k].sent = 0
        <4> TAKE k \in 1 .. l - 1
        <4>1. k + 1 \in 1 .. l /\ k + 1 > 1 /\ b - l + (k + 1) = b - (l - 1) + k
          OBVIOUS
        <4> QED
          BY <1>3, <3>2, <4>1
      <3>4. (IF r = <<>> THEN 0 ELSE r[1].sent) = 0
        BY <3>2, <3>3
      <3>5. Len(more) = u * (d + 1) + 0
        <4>1. u * (d + 1) = u * d + u
          BY MulFacts, Zenon
        <4>2. u * (d + 1) = ud + u
          BY <1>1, <4>1, Zenon
        <4> QED
          BY <1>2, <1>4, <1>8, <2>1, <4>2, SMTT(30)
      <3>6. b - a - Len(r) = d + 1 /\ a + Len(r) <= b
        BY <1>2, <1>3, <3>2
      <3> QED
        BY <3>2, <3>3, <3>4, <3>5, <3>6, Zenon DEF Lags
    <2>2. CASE s + n # u
      <3>1. /\ Len(r) = l /\ r[1] = [msg |-> Head(q).msg, sent |-> Head(q).sent + n]
            /\ \A k \in 2 .. l : r[k] = q[k]
        <4>1. Head(q).sent + n # u
          BY <1>2, <2>2
        <4>2. Len(q) = l
          BY <1>2
        <4> QED
          BY <4>1, <4>2, UnsentType, Zenon
      <3> HIDE DEF r
      <3>2. r # <<>> /\ r[1].msg = Head(q).msg /\ r[1].sent = s + n
        BY <1>2, <3>1
      <3>3. \A k \in 1 .. l : r[k].msg = b - l + k /\ (k > 1 => r[k].sent = 0)
        <4> TAKE k \in 1 .. l
        <4>1. CASE k = 1
          BY <1>2, <1>5, <3>2, <4>1
        <4>2. CASE k \in 2 .. l
          BY <1>3, <3>1, <4>2
        <4> QED
          BY <4>1, <4>2
      <3>4. Len(more) = u * d + (s + n)
        <4>1. u * d = ud
          BY <1>1
        <4> QED
          BY <1>2, <1>4, <1>8, <4>1
      <3> QED
        BY <1>2, <1>3, <3>1, <3>2, <3>3, <3>4, Zenon DEF Lags
    <2> QED
      BY <2>1, <2>2
  <1> QED
    BY <1>8, <1>9, <1>10
=============================================================================
