-------------------------- MODULE TomlParser_proofs --------------------------
(***************************************************************************)
(* Proofs about TomlParser and TtyToml, for every file: the calls of the   *)
(* descent work on nodes of the right type, an array's kind tells what it  *)
(* holds, a key has one entry, what was said stays, toml_free frees every  *)
(* node once, and the publisher reads off the tree what it says.  The      *)
(* tree's invariant says that every node but the root is pointed to from   *)
(* one place, in an older node, and that the keys of a table are distinct. *)
(***************************************************************************)
EXTENDS TtyToml, FeedLemmas, FiniteSetTheorems

-----------------------------------------------------------------------------
(* Sequences of whatever elements.                                          *)

IsSeq(s) == \E S : s \in Seq(S)

\* A function on 1 .. n, of whatever values.
LEMMA AnySeq ==
    ASSUME NEW n \in Nat, NEW f, DOMAIN f = 1 .. n, f = [i \in 1 .. n |-> f[i]]
    PROVE  IsSeq(f) /\ Len(f) = n
  <1> DEFINE S == {f[i] : i \in 1 .. n}
  <1>1. f \in [1 .. n -> S]
    OBVIOUS
  <1> HIDE DEF S
  <1> QED
    BY <1>1, FunIsSeq DEF IsSeq

LEMMA SeqIs ==
    ASSUME NEW s, IsSeq(s)
    PROVE  /\ Len(s) \in Nat /\ DOMAIN s = 1 .. Len(s)
           /\ s = [i \in 1 .. Len(s) |-> s[i]]
           /\ (s # <<>> <=> Len(s) # 0)
  <1>1. PICK S : s \in Seq(S)
    BY DEF IsSeq
  <1> QED
    BY <1>1

LEMMA EmptyIs == IsSeq(<<>>) /\ Len(<<>>) = 0
  <1>1. \A S : <<>> \in Seq(S)
    OBVIOUS
  <1> QED
    BY <1>1 DEF IsSeq

LEMMA AppendIs ==
    ASSUME NEW s, IsSeq(s), NEW e
    PROVE  /\ IsSeq(Append(s, e)) /\ Len(Append(s, e)) = Len(s) + 1
           /\ \A i \in 1 .. Len(s) : Append(s, e)[i] = s[i]
           /\ Append(s, e)[Len(s) + 1] = e
  <1> DEFINE S == {s[i] : i \in 1 .. Len(s)} \cup {e}
             n == Len(s)
  <1>1. n \in Nat /\ s \in [1 .. n -> S] /\ e \in S
    BY SeqIs
  <1>2. n = Len(s)
    OBVIOUS
  <1> HIDE DEF S, n
  <1>3. s \in Seq(S)
    BY <1>1, FunIsSeq
  <1>4. /\ Append(s, e) \in Seq(S) /\ Len(Append(s, e)) = Len(s) + 1
        /\ \A i \in 1 .. Len(s) : Append(s, e)[i] = s[i]
        /\ Append(s, e)[Len(s) + 1] = e
    BY <1>1, <1>3
  <1> QED
    BY <1>4 DEF IsSeq

LEMMA ExceptIs ==
    ASSUME NEW s, IsSeq(s), NEW n \in 1 .. Len(s), NEW e
    PROVE  /\ IsSeq([s EXCEPT ![n] = e]) /\ Len([s EXCEPT ![n] = e]) = Len(s)
           /\ \A i \in 1 .. Len(s) : [s EXCEPT ![n] = e][i] = IF i = n THEN e ELSE s[i]
  <1> DEFINE t == [s EXCEPT ![n] = e]
  <1>1. Len(s) \in Nat /\ DOMAIN s = 1 .. Len(s)
    BY SeqIs
  <1>2. DOMAIN t = 1 .. Len(s) /\ t = [i \in 1 .. Len(s) |-> t[i]]
        /\ \A i \in 1 .. Len(s) : t[i] = IF i = n THEN e ELSE s[i]
    BY <1>1
  <1> HIDE DEF t
  <1>3. IsSeq(t) /\ Len(t) = Len(s)
    BY <1>1, <1>2, AnySeq
  <1> QED
    BY <1>2, <1>3 DEF t

LEMMA FrontIs ==
    ASSUME NEW s, IsSeq(s), s # <<>>
    PROVE  /\ IsSeq(Front(s)) /\ Len(Front(s)) = Len(s) - 1
           /\ \A i \in 1 .. Len(s) - 1 : Front(s)[i] = s[i]
           /\ Last(s) = s[Len(s)] /\ Len(s) \in 1 .. Len(s)
  <1>1. PICK S : s \in Seq(S)
    BY DEF IsSeq
  <1> DEFINE m == Len(s) - 1
  <1>2. m \in Nat /\ Len(s) = m + 1
    BY <1>1
  <1>3. Front(s) = SubSeq(s, 1, m)
    BY DEF Front
  <1>4. \A i \in 1 .. m : i \in 1 .. Len(s)
    BY <1>2
  <1> HIDE DEF m
  <1>5. /\ SubSeq(s, 1, m) \in Seq(S) /\ Len(SubSeq(s, 1, m)) = m
        /\ \A i \in 1 .. m : SubSeq(s, 1, m)[i] = s[i]
    BY <1>1, <1>2, <1>4
  <1> QED
    BY <1>2, <1>3, <1>5, SMTT(30) DEF Last, IsSeq

LEMMA ConcatIs ==
    ASSUME NEW s \in Seq(Nat), NEW t \in Seq(Nat)
    PROVE  /\ s \o t \in Seq(Nat) /\ Len(s \o t) = Len(s) + Len(t)
           /\ Len(s) \in Nat /\ Len(t) \in Nat
           /\ \A i \in 1 .. Len(s) + Len(t) :
                 (s \o t)[i] = IF i <= Len(s) THEN s[i] ELSE t[i - Len(s)]
  OBVIOUS

LEMMA MinIs ==
    ASSUME NEW S, S \subseteq Nat, S # {}
    PROVE  Min(S) \in S
  BY NatLeast DEF Min
-----------------------------------------------------------------------------
(* Nodes, and what they point to.                                           *)

ItemForm(item, kind) ==
    /\ item = [val |-> item.val, arr |-> item.arr, tab |-> item.tab]
    /\ \/ item.arr = 0 /\ item.tab = 0
       \/ item.val = <<>> /\ item.arr \in Nat \ {0} /\ item.tab = 0
       \/ item.val = <<>> /\ item.arr = 0 /\ item.tab \in Nat \ {0}
    /\ kind # "0"
    /\ kind = "t" => item.tab # 0
    /\ kind = "a" => item.arr # 0
    /\ kind = "v" => item.arr = 0 /\ item.tab = 0

\* A key is found once among a table's values, arrays and tables.
Once(s) == \A i, j \in 1 .. Len(s) : s[i].key = s[j].key => i = j
Apart(s, u) == \A i \in 1 .. Len(s), j \in 1 .. Len(u) : s[i].key # u[j].key

KeysApart(t) == /\ Once(t.kval) /\ Once(t.arr) /\ Once(t.tab)
                /\ Apart(t.kval, t.arr) /\ Apart(t.kval, t.tab) /\ Apart(t.arr, t.tab)

TableForm(t) ==
    /\ t = [node |-> "table", kval |-> t.kval, arr |-> t.arr, tab |-> t.tab,
            implicit |-> t.implicit, readonly |-> t.readonly]
    /\ IsSeq(t.kval) /\ IsSeq(t.arr) /\ IsSeq(t.tab)
    /\ KeysApart(t)

ArrayForm(t) ==
    /\ t = [node |-> "array", kind |-> t.kind, item |-> t.item]
    /\ IsSeq(t.item)
    /\ \A i \in 1 .. Len(t.item) : ItemForm(t.item[i], t.kind)

Form(t) == t = Freed \/ TableForm(t) \/ ArrayForm(t)

\* The places in t that point to a node, with that node and its type.
Points(t) ==
    CASE t.node = "table" ->
           {<<"arr", i, t.arr[i].node, "array">> : i \in 1 .. Len(t.arr)}
           \cup {<<"tab", i, t.tab[i].node, "table">> : i \in 1 .. Len(t.tab)}
      [] t.node = "array" ->
           {<<"item", i, t.item[i].arr, "array">> :
              i \in {j \in 1 .. Len(t.item) : t.item[j].arr # 0}}
           \cup {<<"item", i, t.item[i].tab, "table">> :
              i \in {j \in 1 .. Len(t.item) : t.item[j].tab # 0}}
      [] OTHER -> {}

\* Every place points to a newer node, of its type, which is not freed; and
\* no other place does.
Downward(h) ==
    \A n \in 1 .. Len(h) : \A p \in Points(h[n]) :
        p[3] \in n + 1 .. Len(h) /\ h[p[3]].node = p[4]

OneOwner(h) ==
    \A m, n \in 1 .. Len(h) : \A p \in Points(h[m]), q \in Points(h[n]) :
        p[3] = q[3] => m = n /\ p = q

Tree(h) == /\ IsSeq(h) /\ Len(h) >= 1
           /\ \A n \in 1 .. Len(h) : Form(h[n])
           /\ Downward(h) /\ OneOwner(h)

Owned(h, m) == \E n \in 1 .. Len(h) : \E p \in Points(h[n]) : p[3] = m

\* A tree that is being built: nothing is freed, all hangs on the root.
Good(h) == /\ Tree(h) /\ h[1].node = "table"
           /\ \A n \in 1 .. Len(h) : h[n] # Freed
           /\ \A m \in 2 .. Len(h) : Owned(h, m)

\* u is what the node t has become by additions to it.
Begins(s, u) == Len(s) <= Len(u) /\ \A i \in 1 .. Len(s) : u[i] = s[i]

Extends(t, u) ==
    /\ u.node = t.node
    /\ t.node = "table" => /\ Begins(t.kval, u.kval) /\ Begins(t.arr, u.arr)
                           /\ Begins(t.tab, u.tab)
    /\ t.node = "array" => Begins(t.item, u.item)

\* h2 is a tree that h has grown into.
Grows(h, h2) == /\ Good(h2) /\ Len(h) <= Len(h2)
                /\ \A n \in 1 .. Len(h) : Extends(h[n], h2[n])

TableIn(h, n) == n \in 1 .. Len(h) /\ h[n].node = "table"
ArrayIn(h, n) == n \in 1 .. Len(h) /\ h[n].node = "array"

\* A node is a table, an array, or freed, and its field node says which.
LEMMA NodeForms ==
    ASSUME NEW t, Form(t)
    PROVE  /\ t.node \in {"table", "array", "freed"}
           /\ t.node = "table" <=> TableForm(t)
           /\ t.node = "array" <=> ArrayForm(t)
           /\ t.node = "freed" <=> t = Freed
  BY DEF Form, TableForm, ArrayForm, Freed

LEMMA BeginsSelf == ASSUME NEW s, IsSeq(s) PROVE Begins(s, s)
  BY SeqIs DEF Begins

LEMMA BeginsOn ==
    ASSUME NEW s, NEW t, NEW u, IsSeq(s), IsSeq(t), IsSeq(u), Begins(s, t), Begins(t, u)
    PROVE  Begins(s, u)
  <1>1. Len(s) \in Nat /\ Len(t) \in Nat /\ Len(u) \in Nat
    BY SeqIs
  <1>2. \A i \in 1 .. Len(s) : i \in 1 .. Len(t)
    BY <1>1 DEF Begins
  <1> QED
    BY <1>1, <1>2 DEF Begins

LEMMA BeginsAppend ==
    ASSUME NEW s, IsSeq(s), NEW e PROVE Begins(s, Append(s, e))
  BY AppendIs, SeqIs DEF Begins

LEMMA ExtendsSelf == ASSUME NEW t, Form(t) PROVE Extends(t, t)
  <1>1. t.node = "table" => IsSeq(t.kval) /\ IsSeq(t.arr) /\ IsSeq(t.tab)
    BY NodeForms DEF TableForm
  <1>2. t.node = "array" => IsSeq(t.item)
    BY NodeForms DEF ArrayForm
  <1> QED
    BY <1>1, <1>2, BeginsSelf DEF Extends

LEMMA ExtendsOn ==
    ASSUME NEW t, NEW u, NEW v, Form(t), Form(u), Form(v), Extends(t, u), Extends(u, v)
    PROVE  Extends(t, v)
  <1>1. \A x \in {t, u, v} : x.node = "table" => IsSeq(x.kval) /\ IsSeq(x.arr) /\ IsSeq(x.tab)
    BY NodeForms DEF TableForm
  <1>2. \A x \in {t, u, v} : x.node = "array" => IsSeq(x.item)
    BY NodeForms DEF ArrayForm
  <1>3. CASE t.node = "table"
    <2>1. u.node = "table" /\ v.node = "table"
      BY <1>3 DEF Extends
    <2>2. Begins(t.kval, v.kval) /\ Begins(t.arr, v.arr) /\ Begins(t.tab, v.tab)
      BY <1>1, <1>3, <2>1, BeginsOn DEF Extends
    <2> QED
      BY <1>3, <2>1, <2>2 DEF Extends
  <1>4. CASE t.node = "array"
    <2>1. u.node = "array" /\ v.node = "array"
      BY <1>4 DEF Extends
    <2>2. Begins(t.item, v.item)
      BY <1>2, <1>4, <2>1, BeginsOn DEF Extends
    <2> QED
      BY <1>4, <2>1, <2>2 DEF Extends
  <1> QED
    BY <1>3, <1>4 DEF Extends

\* A tree grows step by step.
LEMMA GrowsOn ==
    ASSUME NEW h, NEW h2, NEW h3, Good(h), Grows(h, h2), Grows(h2, h3)
    PROVE  Grows(h, h3)
  <1>1. Len(h) \in Nat /\ Len(h2) \in Nat /\ Len(h3) \in Nat
    BY SeqIs DEF Grows, Good, Tree
  <1>2. ASSUME NEW n \in 1 .. Len(h) PROVE Extends(h[n], h3[n])
    <2>1. n \in 1 .. Len(h2) /\ n \in 1 .. Len(h3)
      BY <1>1 DEF Grows
    <2>2. Form(h[n]) /\ Form(h2[n]) /\ Form(h3[n])
      BY <2>1 DEF Grows, Good, Tree
    <2>3. Extends(h[n], h2[n]) /\ Extends(h2[n], h3[n])
      BY <2>1 DEF Grows
    <2> QED
      BY <2>2, <2>3, ExtendsOn
  <1> QED
    BY <1>1, <1>2 DEF Grows

LEMMA GrowsSelf ==
    ASSUME NEW h, Good(h) PROVE Grows(h, h)
  <1>1. Len(h) \in Nat
    BY SeqIs DEF Good, Tree
  <1>2. \A n \in 1 .. Len(h) : Extends(h[n], h[n])
    BY ExtendsSelf DEF Good, Tree
  <1> QED
    BY <1>1, <1>2 DEF Grows

\* A node changes, and points to what it did.
LEMMA Changes ==
    ASSUME NEW h, Good(h), NEW n \in 1 .. Len(h), NEW t, Form(t),
           Extends(h[n], t), Points(t) = Points(h[n])
    PROVE  Grows(h, [h EXCEPT ![n] = t])
  <1> DEFINE h2 == [h EXCEPT ![n] = t]
  <1>1. /\ IsSeq(h2) /\ Len(h2) = Len(h) /\ Len(h) \in Nat /\ Len(h) >= 1
        /\ \A i \in 1 .. Len(h) : h2[i] = IF i = n THEN t ELSE h[i]
    BY ExceptIs, SeqIs DEF Good, Tree
  <1> HIDE DEF h2
  <1>2. \A i \in 1 .. Len(h) : Points(h2[i]) = Points(h[i]) /\ h2[i].node = h[i].node
    BY <1>1 DEF Extends
  <1>3. \A i \in 1 .. Len(h) : Form(h2[i])
    BY <1>1 DEF Good, Tree
  <1>4. \A i \in 1 .. Len(h) : h2[i] # Freed
    <2>1. Freed.node = "freed" /\ \A i \in 1 .. Len(h) : h[i].node # "freed"
      BY NodeForms DEF Good, Tree, Freed
    <2> QED
      BY <1>2, <2>1
  <1>5. Downward(h2) /\ OneOwner(h2)
    <2>1. Downward(h) /\ OneOwner(h)
      BY DEF Good, Tree
    <2>2. Downward(h2)
      BY <1>1, <1>2, <1>4, <2>1 DEF Downward
    <2>3. OneOwner(h2)
      BY <1>1, <1>2, <2>1 DEF OneOwner
    <2> QED
      BY <2>2, <2>3
  <1>6. \A m \in 2 .. Len(h) : Owned(h2, m)
    BY <1>1, <1>2 DEF Good, Owned
  <1>7. 1 \in 1 .. Len(h)
    BY <1>1
  <1>8. Tree(h2) /\ h2[1].node = "table"
    BY <1>1, <1>2, <1>3, <1>5, <1>7 DEF Good, Tree
  <1>9. \A i \in 1 .. Len(h) : Extends(h[i], h2[i])
    BY <1>1, ExtendsSelf DEF Good, Tree
  <1>10. Grows(h, h2)
    BY <1>1, <1>4, <1>6, <1>8, <1>9 DEF Good, Grows
  <1> QED
    BY <1>10 DEF h2

\* A node gets one more place, which points to a new node.
LEMMA Adds ==
    ASSUME NEW h, Good(h), NEW n \in 1 .. Len(h), NEW t, Form(t),
           Extends(h[n], t),
           NEW made, Form(made), made # Freed, Points(made) = {},
           NEW place, NEW i,
           Points(t) = Points(h[n]) \cup {<<place, i, Len(h) + 1, made.node>>}
    PROVE  Grows(h, Append([h EXCEPT ![n] = t], made))
  <1> DEFINE h1 == [h EXCEPT ![n] = t]
             h2 == Append(h1, made)
             new == Len(h) + 1
             p2 == <<place, i, new, made.node>>
  <1>1. /\ IsSeq(h1) /\ Len(h1) = Len(h) /\ Len(h) \in Nat /\ Len(h) >= 1
        /\ \A k \in 1 .. Len(h) : h1[k] = IF k = n THEN t ELSE h[k]
    BY ExceptIs, SeqIs DEF Good, Tree
  <1> HIDE DEF h1
  <1>2. /\ IsSeq(h2) /\ Len(h2) = new
        /\ \A k \in 1 .. Len(h) : h2[k] = IF k = n THEN t ELSE h[k]
        /\ h2[new] = made
    BY <1>1, AppendIs
  <1>3. p2[3] = new /\ p2[4] = made.node
    OBVIOUS
  <1>4. Points(t) = Points(h[n]) \cup {p2}
    OBVIOUS
  <1> HIDE DEF h2, p2
  <1>5. \A k \in 1 .. new : k \in 1 .. Len(h) \/ k = new
    BY <1>1
  <1>6. \A k \in 1 .. Len(h) : /\ h2[k].node = h[k].node
                               /\ Points(h2[k]) = IF k = n THEN Points(h[n]) \cup {p2}
                                                  ELSE Points(h[k])
    BY <1>2, <1>4 DEF Extends
  <1>7. \A k \in 1 .. new : Form(h2[k]) /\ h2[k] # Freed
    <2>1. Freed.node = "freed" /\ \A k \in 1 .. Len(h) : h[k].node # "freed" /\ Form(h[k])
      BY NodeForms DEF Good, Tree, Freed
    <2>2. \A k \in 1 .. Len(h) : Form(h2[k]) /\ h2[k] # Freed
      <3>1. \A k \in 1 .. Len(h) : Form(h2[k])
        BY <1>2, <2>1
      <3>2. \A k \in 1 .. Len(h) : h2[k].node # "freed"
        BY <1>6, <2>1
      <3> QED
        BY <2>1, <3>1, <3>2
    <2> QED
      BY <1>2, <1>5, <2>2
  <1>8. \A k \in 1 .. Len(h) : \A p \in Points(h[k]) :
            p[3] \in k + 1 .. Len(h) /\ h[p[3]].node = p[4] /\ p[3] # new /\ p[3] \in 1 .. Len(h)
    BY <1>1 DEF Good, Tree, Downward
  <1>9. Downward(h2)
    <2> SUFFICES ASSUME NEW k \in 1 .. new, NEW p \in Points(h2[k])
                 PROVE  p[3] \in k + 1 .. new /\ h2[p[3]].node = p[4]
      BY <1>2 DEF Downward
    <2>1. k \in 1 .. Len(h)
      BY <1>2, <1>5
    <2>2. CASE p \in Points(h[k])
      BY <1>1, <1>6, <1>8, <2>1, <2>2
    <2>3. CASE p = p2
      BY <1>1, <1>2, <1>3, <2>1, <2>3
    <2> QED
      BY <1>6, <2>1, <2>2, <2>3
  <1>10. OneOwner(h2)
    <2> SUFFICES ASSUME NEW k \in 1 .. new, NEW l \in 1 .. new, NEW p \in Points(h2[k]),
                        NEW q \in Points(h2[l]), p[3] = q[3]
                 PROVE  k = l /\ p = q
      BY <1>2 DEF OneOwner
    <2>1. k \in 1 .. Len(h) /\ l \in 1 .. Len(h)
      BY <1>2, <1>5
    <2>2. /\ p \in Points(h[k]) \/ (p = p2 /\ k = n)
          /\ q \in Points(h[l]) \/ (q = p2 /\ l = n)
      <3>1. \A j \in 1 .. Len(h) : \A r \in Points(h2[j]) :
                r \in Points(h[j]) \/ (r = p2 /\ j = n)
        BY <1>6
      <3> QED
        BY <2>1, <3>1
    <2>3. CASE p \in Points(h[k]) /\ q \in Points(h[l])
      BY <2>1, <2>3 DEF Good, Tree, OneOwner
    <2>4. CASE (p = p2 /\ k = n) \/ (q = p2 /\ l = n)
      BY <1>3, <1>8, <2>1, <2>2, <2>4
    <2> QED
      BY <2>2, <2>3, <2>4
  <1>11. \A m \in 2 .. new : Owned(h2, m)
    <2> SUFFICES ASSUME NEW m \in 2 .. new PROVE Owned(h2, m)
      OBVIOUS
    <2>1. CASE m = new
      <3>1. p2 \in Points(h2[n]) /\ n \in 1 .. new
        BY <1>1, <1>6
      <3> QED
        BY <1>2, <1>3, <2>1, <3>1 DEF Owned
    <2>2. CASE m # new
      <3>1. m \in 2 .. Len(h)
        BY <1>1, <2>2
      <3>2. PICK k \in 1 .. Len(h) : \E p \in Points(h[k]) : p[3] = m
        BY <3>1 DEF Good, Owned
      <3>3. k \in 1 .. new /\ Points(h[k]) \subseteq Points(h2[k])
        BY <1>1, <1>6, <3>2
      <3> QED
        BY <1>2, <3>2, <3>3 DEF Owned
    <2> QED
      BY <2>1, <2>2
  <1>12. 1 \in 1 .. Len(h) /\ Len(h2) >= 1
    BY <1>1, <1>2
  <1>13. Tree(h2) /\ h2[1].node = "table" /\ Len(h) <= Len(h2)
    BY <1>1, <1>2, <1>6, <1>7, <1>9, <1>10, <1>12 DEF Good, Tree
  <1>14. \A k \in 1 .. Len(h) : Extends(h[k], h2[k])
    BY <1>2, ExtendsSelf DEF Good, Tree
  <1>15. Grows(h, h2)
    BY <1>2, <1>7, <1>11, <1>13, <1>14 DEF Good, Grows
  <1> QED
    BY <1>15 DEF h2, h1

-----------------------------------------------------------------------------
(* What the create functions do to a tree.                                  *)

\* A key that was absent is found once when it has been added.
LEMMA OnceMore ==
    ASSUME NEW s, IsSeq(s), Once(s), NEW e, ~HasKey(s, e.key)
    PROVE  Once(Append(s, e))
  <1> DEFINE n == Len(s)
             u == Append(s, e)
  <1>1. /\ n \in Nat /\ Len(u) = n + 1 /\ u[n + 1] = e
        /\ \A i \in 1 .. n : u[i] = s[i] /\ s[i].key # e.key
    BY AppendIs, SeqIs DEF HasKey
  <1>2. \A i, j \in 1 .. n : s[i].key = s[j].key => i = j
    BY DEF Once
  <1>3. \A i \in 1 .. n + 1 : i \in 1 .. n \/ i = n + 1
    BY <1>1
  <1> HIDE DEF n, u
  <1>4. Once(u)
    BY <1>1, <1>2, <1>3 DEF Once
  <1> QED
    BY <1>4 DEF u

LEMMA ApartMore ==
    ASSUME NEW s, IsSeq(s), NEW t, IsSeq(t), Apart(s, t), NEW e
    PROVE  /\ ~HasKey(s, e.key) => Apart(s, Append(t, e))
           /\ ~HasKey(t, e.key) => Apart(Append(s, e), t)
  <1>1. ASSUME NEW u, IsSeq(u)
        PROVE  /\ Len(Append(u, e)) = Len(u) + 1 /\ Append(u, e)[Len(u) + 1] = e
               /\ \A i \in 1 .. Len(u) : Append(u, e)[i] = u[i]
               /\ \A i \in 1 .. Len(u) + 1 : i \in 1 .. Len(u) \/ i = Len(u) + 1
    BY <1>1, AppendIs, SeqIs
  <1>2. ~HasKey(s, e.key) => Apart(s, Append(t, e))
    BY <1>1 DEF Apart, HasKey
  <1>3. ~HasKey(t, e.key) => Apart(Append(s, e), t)
    BY <1>1 DEF Apart, HasKey
  <1> QED
    BY <1>2, <1>3

\* What the create functions have asked of check_key.
NoKey(t, key) == ~HasKey(t.kval, key) /\ ~HasKey(t.arr, key) /\ ~HasKey(t.tab, key)

LEMMA AbsentIs ==
    ASSUME NEW h, NEW tab, NEW key
    PROVE  check_key(h, tab, key) = "none" => NoKey(h[tab], key)
  BY DEF check_key, NoKey

\* A table that differs in a flag or a value points to what it did.
LEMMA Flagged ==
    ASSUME NEW t, TableForm(t), NEW b,
           NEW u \in {[t EXCEPT !.implicit = b], [t EXCEPT !.readonly = b]}
    PROVE  /\ TableForm(u) /\ u.node = "table" /\ u.arr = t.arr /\ u.tab = t.tab
           /\ Points(u) = Points(t) /\ Extends(t, u)
  <1>1. \E a, c : u = [node |-> "table", kval |-> t.kval, arr |-> t.arr, tab |-> t.tab,
                       implicit |-> a, readonly |-> c]
    BY DEF TableForm
  <1>2. /\ u.node = "table" /\ u.arr = t.arr /\ u.tab = t.tab /\ u.kval = t.kval
        /\ t.node = "table"
        /\ u = [node |-> "table", kval |-> u.kval, arr |-> u.arr, tab |-> u.tab,
                implicit |-> u.implicit, readonly |-> u.readonly]
    BY <1>1 DEF TableForm
  <1>3. TableForm(u)
    BY <1>2 DEF TableForm, KeysApart
  <1>4. Extends(t, u)
    BY <1>2, BeginsSelf DEF TableForm, Extends
  <1> QED
    BY <1>2, <1>3, <1>4 DEF Points

\* A key and its value are added to a table.
LEMMA Valued ==
    ASSUME NEW t, TableForm(t), NEW e, NoKey(t, e.key)
    PROVE  LET u == [t EXCEPT !.kval = Append(t.kval, e)]
           IN  TableForm(u) /\ Extends(t, u) /\ Points(u) = Points(t)
  <1> DEFINE u == [t EXCEPT !.kval = Append(t.kval, e)]
  <1>1. u = [node |-> "table", kval |-> Append(t.kval, e), arr |-> t.arr, tab |-> t.tab,
             implicit |-> t.implicit, readonly |-> t.readonly]
    BY SMTT(30) DEF TableForm
  <1>2. IsSeq(Append(t.kval, e))
    BY AppendIs DEF TableForm
  <1> HIDE DEF u
  <1>3. /\ u.node = "table" /\ u.arr = t.arr /\ u.tab = t.tab /\ t.node = "table"
        /\ u.kval = Append(t.kval, e)
    BY <1>1 DEF TableForm
  <1>4. KeysApart(u)
    BY <1>3, OnceMore, ApartMore DEF TableForm, KeysApart, NoKey
  <1>5. TableForm(u)
    BY <1>1, <1>2, <1>3, <1>4 DEF TableForm
  <1>6. Extends(t, u)
    BY <1>3, BeginsSelf, BeginsAppend DEF Extends, TableForm
  <1>7. Points(u) = Points(t)
    BY <1>3 DEF Points
  <1> QED
    BY <1>5, <1>6, <1>7 DEF u

\* New nodes have nothing in them.
LEMMA NewNodes ==
    /\ TableForm(NewTable) /\ Points(NewTable) = {} /\ NewTable.node = "table"
    /\ TableForm([NewTable EXCEPT !.implicit = TRUE])
    /\ Points([NewTable EXCEPT !.implicit = TRUE]) = {}
    /\ [NewTable EXCEPT !.implicit = TRUE].node = "table"
    /\ \A kind : /\ ArrayForm(NewArray(kind)) /\ Points(NewArray(kind)) = {}
                 /\ NewArray(kind).node = "array"
  <1> DEFINE named == [NewTable EXCEPT !.implicit = TRUE]
  <1>1. 1 .. Len(<<>>) = {} /\ IsSeq(<<>>)
    BY EmptyIs
  <1>2. \A t : t.node = "table" /\ t.arr = <<>> /\ t.tab = <<>> => Points(t) = {}
    BY <1>1 DEF Points
  <1>3. \A t : t.node = "array" /\ t.item = <<>> => Points(t) = {}
    BY <1>1 DEF Points
  <1>4. NewTable.node = "table" /\ NewTable.arr = <<>> /\ NewTable.tab = <<>>
    BY DEF NewTable
  <1>5. TableForm(NewTable)
    <2>1. Once(<<>>) /\ Apart(<<>>, <<>>)
      BY <1>1 DEF Once, Apart
    <2> QED
      BY <1>1, <2>1 DEF TableForm, KeysApart, NewTable
  <1>6. PICK b : named = [NewTable EXCEPT !.implicit = b]
    BY Zenon
  <1> HIDE DEF named
  <1>7. TableForm(named) /\ named.node = "table" /\ named.arr = <<>> /\ named.tab = <<>>
    BY <1>4, <1>5, <1>6, Flagged
  <1>8. \A kind : NewArray(kind).node = "array" /\ NewArray(kind).item = <<>>
    BY DEF NewArray
  <1>9. \A kind : ArrayForm(NewArray(kind))
    <2>1. \A i \in 1 .. Len(<<>>) : FALSE
      BY <1>1
    <2> QED
      BY <1>1, <2>1 DEF ArrayForm, NewArray
  <1>10. Points(NewTable) = {} /\ Points(named) = {} /\ \A kind : Points(NewArray(kind)) = {}
    BY <1>2, <1>3, <1>4, <1>7, <1>8
  <1> QED
    BY <1>4, <1>5, <1>7, <1>8, <1>9, <1>10 DEF named

\* An entry more in a table's tab or arr.
LEMMA EntryTab ==
    ASSUME NEW t, TableForm(t), NEW e, NoKey(t, e.key)
    PROVE  LET u == [t EXCEPT !.tab = Append(t.tab, e)]
           IN /\ TableForm(u) /\ Extends(t, u)
              /\ Points(u) = Points(t) \cup {<<"tab", Len(t.tab) + 1, e.node, "table">>}
  <1> DEFINE u == [t EXCEPT !.tab = Append(t.tab, e)]
             n == Len(t.tab)
  <1>1. /\ u = [node |-> "table", kval |-> t.kval, arr |-> t.arr, tab |-> Append(t.tab, e),
                implicit |-> t.implicit, readonly |-> t.readonly]
        /\ t.node = "table"
    BY SMTT(30) DEF TableForm
  <1> HIDE DEF u
  <1>2. /\ u.node = "table" /\ u.kval = t.kval /\ u.arr = t.arr
        /\ u.tab = Append(t.tab, e) /\ u.implicit = t.implicit /\ u.readonly = t.readonly
    BY <1>1
  <1>3. KeysApart(u) /\ Extends(t, u)
    <2>1. KeysApart(u)
      BY <1>2, OnceMore, ApartMore DEF TableForm, KeysApart, NoKey
    <2>2. Extends(t, u)
      BY <1>1, <1>2, BeginsSelf, BeginsAppend DEF Extends, TableForm
    <2> QED
      BY <2>1, <2>2
  <1>4. /\ n \in Nat /\ IsSeq(u.tab) /\ Len(u.tab) = n + 1
        /\ \A i \in 1 .. n : u.tab[i] = t.tab[i]
        /\ u.tab[n + 1] = e
    BY <1>2, AppendIs, SeqIs DEF TableForm
  <1>5. TableForm(u)
    BY <1>3, <1>1, <1>2, <1>4 DEF TableForm
  <1> DEFINE arrs  == {<<"arr", i, t.arr[i].node, "array">> : i \in 1 .. Len(t.arr)}
             tabs  == {<<"tab", i, t.tab[i].node, "table">> : i \in 1 .. n}
             tabs2 == {<<"tab", i, u.tab[i].node, "table">> : i \in 1 .. n + 1}
             new   == <<"tab", n + 1, e.node, "table">>
  <1>6. Points(t) = arrs \cup tabs /\ Points(u) = arrs \cup tabs2
    BY <1>1, <1>2, <1>4 DEF Points
  <1>7. \A i \in 1 .. n + 1 : i \in 1 .. n \/ i = n + 1
    BY <1>4
  <1>8. 1 .. n \subseteq 1 .. n + 1 /\ n + 1 \in 1 .. n + 1
    BY <1>4
  <1> HIDE DEF n
  <1>9. tabs2 = tabs \cup {new}
    BY <1>4, <1>7, <1>8
  <1> HIDE DEF tabs, tabs2, arrs, new
  <1>10. Points(u) = Points(t) \cup {new}
    BY <1>6, <1>9
  <1> QED
    BY <1>3, <1>5, <1>10 DEF u, new, n

\* A table gets a key whose node is a new array.
LEMMA EntryArr ==
    ASSUME NEW t, TableForm(t), NEW e, NoKey(t, e.key)
    PROVE  LET u == [t EXCEPT !.arr = Append(t.arr, e)]
           IN /\ TableForm(u) /\ Extends(t, u)
              /\ Points(u) = Points(t) \cup {<<"arr", Len(t.arr) + 1, e.node, "array">>}
  <1> DEFINE u == [t EXCEPT !.arr = Append(t.arr, e)]
             n == Len(t.arr)
  <1>1. /\ u = [node |-> "table", kval |-> t.kval, arr |-> Append(t.arr, e), tab |-> t.tab,
                implicit |-> t.implicit, readonly |-> t.readonly]
        /\ t.node = "table"
    BY SMTT(30) DEF TableForm
  <1> HIDE DEF u
  <1>2. /\ u.node = "table" /\ u.kval = t.kval /\ u.tab = t.tab
        /\ u.arr = Append(t.arr, e) /\ u.implicit = t.implicit /\ u.readonly = t.readonly
    BY <1>1
  <1>3. KeysApart(u) /\ Extends(t, u)
    <2>1. KeysApart(u)
      BY <1>2, OnceMore, ApartMore DEF TableForm, KeysApart, NoKey
    <2>2. Extends(t, u)
      BY <1>1, <1>2, BeginsSelf, BeginsAppend DEF Extends, TableForm
    <2> QED
      BY <2>1, <2>2
  <1>4. /\ n \in Nat /\ IsSeq(u.arr) /\ Len(u.arr) = n + 1
        /\ \A i \in 1 .. n : u.arr[i] = t.arr[i]
        /\ u.arr[n + 1] = e
    BY <1>2, AppendIs, SeqIs DEF TableForm
  <1>5. TableForm(u)
    BY <1>3, <1>1, <1>2, <1>4 DEF TableForm
  <1> DEFINE tabs  == {<<"tab", i, t.tab[i].node, "table">> : i \in 1 .. Len(t.tab)}
             arrs  == {<<"arr", i, t.arr[i].node, "array">> : i \in 1 .. n}
             arrs2 == {<<"arr", i, u.arr[i].node, "array">> : i \in 1 .. n + 1}
             new   == <<"arr", n + 1, e.node, "array">>
  <1>6. Points(t) = arrs \cup tabs /\ Points(u) = arrs2 \cup tabs
    BY <1>1, <1>2, <1>4 DEF Points
  <1>7. \A i \in 1 .. n + 1 : i \in 1 .. n \/ i = n + 1
    BY <1>4
  <1>8. 1 .. n \subseteq 1 .. n + 1 /\ n + 1 \in 1 .. n + 1
    BY <1>4
  <1> HIDE DEF n
  <1>9. arrs2 = arrs \cup {new}
    BY <1>4, <1>7, <1>8
  <1> HIDE DEF tabs, arrs2, arrs, new
  <1>10. Points(u) = Points(t) \cup {new}
    BY <1>6, <1>9
  <1> QED
    BY <1>3, <1>5, <1>10 DEF u, new, n

\* An item more in an array, whose kind takes note of it.
WithKind(t, kind, item) == [node |-> "array", kind |-> kind, item |-> Append(t.item, item)]

AddedItem(t, added, item) == WithKind(t, KindWith(t.kind, added), item)

\* An item is appended to an array, whose kind takes account of it.
LEMMA ItemAdded ==
    ASSUME NEW t, ArrayForm(t), NEW added \in {"v", "a", "t"}, NEW item,
           ItemForm(item, added)
    PROVE  LET u == AddedItem(t, added, item)
           IN /\ ArrayForm(u) /\ Extends(t, u)
              /\ item.arr = 0 /\ item.tab = 0 => Points(u) = Points(t)
              /\ item.arr # 0 => Points(u) = Points(t)
                        \cup {<<"item", Len(t.item) + 1, item.arr, "array">>}
              /\ item.tab # 0 => Points(u) = Points(t)
                        \cup {<<"item", Len(t.item) + 1, item.tab, "table">>}
  <1> DEFINE u == AddedItem(t, added, item)
             n == Len(t.item)
             arrs(s, m) == {<<"item", i, s[i].arr, "array">> : i \in {j \in 1 .. m : s[j].arr # 0}}
             tabs(s, m) == {<<"item", i, s[i].tab, "table">> : i \in {j \in 1 .. m : s[j].tab # 0}}
             newarr == IF item.arr # 0 THEN {<<"item", n + 1, item.arr, "array">>} ELSE {}
             newtab == IF item.tab # 0 THEN {<<"item", n + 1, item.tab, "table">>} ELSE {}
  <1>1. /\ u = [node |-> "array", kind |-> u.kind, item |-> u.item] /\ u.node = "array"
        /\ u.item = Append(t.item, item) /\ u.kind = KindWith(t.kind, added)
        /\ t.node = "array"
    BY DEF ArrayForm, AddedItem, WithKind
  <1> HIDE DEF u
  <1>2. /\ n \in Nat /\ IsSeq(u.item) /\ Len(u.item) = n + 1
        /\ \A i \in 1 .. n : u.item[i] = t.item[i]
        /\ u.item[n + 1] = item
    BY <1>1, AppendIs, SeqIs DEF ArrayForm
  <1>3. \A i \in 1 .. n + 1 : i \in 1 .. n \/ i = n + 1
    BY <1>2
  <1>4. 1 .. n \subseteq 1 .. n + 1 /\ n + 1 \in 1 .. n + 1
    BY <1>2
  <1>5. ItemForm(item, u.kind) /\ \A i \in 1 .. n : ItemForm(t.item[i], u.kind)
    BY <1>1 DEF ArrayForm, ItemForm, KindWith
  <1>6. ArrayForm(u)
    BY <1>1, <1>2, <1>3, <1>5 DEF ArrayForm
  <1>7. Points(t) = arrs(t.item, n) \cup tabs(t.item, n)
        /\ Points(u) = arrs(u.item, n + 1) \cup tabs(u.item, n + 1)
    BY <1>1, <1>2 DEF Points
  <1>8. arrs(u.item, n + 1) = arrs(t.item, n) \cup newarr
    <2> HIDE DEF n
    <2> QED
      BY <1>2, <1>3, <1>4
  <1>9. tabs(u.item, n + 1) = tabs(t.item, n) \cup newtab
    <2> HIDE DEF n
    <2> QED
      BY <1>2, <1>3, <1>4
  <1> HIDE DEF arrs, tabs, newarr, newtab
  <1>10. Points(u) = Points(t) \cup newarr \cup newtab
    BY <1>7, <1>8, <1>9
  <1>11. (item.arr = 0 => newarr = {}) /\ (item.tab = 0 => newtab = {})
         /\ (item.arr = 0 \/ item.tab = 0)
    BY DEF newarr, newtab, ItemForm
  <1>12. /\ item.arr = 0 /\ item.tab = 0 => Points(u) = Points(t)
         /\ item.arr # 0 => Points(u) = Points(t) \cup newarr
         /\ item.tab # 0 => Points(u) = Points(t) \cup newtab
    BY <1>10, <1>11
  <1>13. Extends(t, u)
    BY <1>1, BeginsAppend DEF Extends, ArrayForm
  <1> QED
    BY <1>6, <1>12, <1>13 DEF u, newarr, newtab, n

LEMMA Nodes1 ==
    ASSUME NEW h, Good(h)
    PROVE  /\ Len(h) \in Nat /\ 1 \in 1 .. Len(h) /\ TableIn(h, 1)
           /\ \A n : TableIn(h, n) => n \in 1 .. Len(h) /\ n # 0 /\ TableForm(h[n])
           /\ \A n : ArrayIn(h, n) => n \in 1 .. Len(h) /\ n # 0 /\ ArrayForm(h[n])
  <1>1. Len(h) \in Nat /\ 1 \in 1 .. Len(h)
    BY SeqIs DEF Good, Tree
  <1>2. \A n \in 1 .. Len(h) : Form(h[n])
    BY DEF Good, Tree
  <1> QED
    BY <1>1, <1>2, NodeForms DEF Good, TableIn, ArrayIn

\* What a key stands for among a table's tables or arrays.
LEMMA Found ==
    ASSUME NEW entries, IsSeq(entries), NEW key
    PROVE  /\ HasKey(entries, key) =>
                 \E i \in 1 .. Len(entries) : NodeOf(entries, key) = entries[i].node
           /\ ~HasKey(entries, key) => NodeOf(entries, key) = 0
  <1> DEFINE at == {i \in 1 .. Len(entries) : entries[i].key = key}
  <1>1. CASE HasKey(entries, key)
    <2>1. at \subseteq Nat /\ at # {}
      BY <1>1, SeqIs DEF HasKey
    <2>2. NodeOf(entries, key) = entries[Min(at)].node
      BY <1>1 DEF NodeOf
    <2> HIDE DEF at
    <2>3. Min(at) \in at
      BY <2>1, MinIs
    <2> QED
      BY <1>1, <2>2, <2>3 DEF at
  <1>2. CASE ~HasKey(entries, key)
    BY <1>2 DEF NodeOf
  <1> QED
    BY <1>1, <1>2

\* What toml_table_in and toml_array_in find is in the tree.
LEMMA TableFound ==
    ASSUME NEW h, Good(h), NEW n, TableIn(h, n), NEW key
    PROVE  /\ HasKey(h[n].tab, key) => TableIn(h, toml_table_in(h, n, key))
           /\ ~HasKey(h[n].tab, key) => toml_table_in(h, n, key) = 0
           /\ HasKey(h[n].arr, key) => ArrayIn(h, toml_array_in(h, n, key))
           /\ ~HasKey(h[n].arr, key) => toml_array_in(h, n, key) = 0
  <1>1. n \in 1 .. Len(h) /\ TableForm(h[n]) /\ h[n].node = "table" /\ Len(h) \in Nat
    BY Nodes1 DEF TableIn
  <1>2. \A p \in Points(h[n]) : p[3] \in 1 .. Len(h) /\ h[p[3]].node = p[4]
    BY <1>1 DEF Good, Tree, Downward
  <1>3. ASSUME NEW i \in 1 .. Len(h[n].tab) PROVE TableIn(h, h[n].tab[i].node)
    <2> DEFINE p == <<"tab", i, h[n].tab[i].node, "table">>
    <2>1. p \in Points(h[n]) /\ p[3] = h[n].tab[i].node /\ p[4] = "table"
      BY <1>1 DEF Points
    <2> HIDE DEF p
    <2> QED
      BY <1>2, <2>1 DEF TableIn
  <1>4. ASSUME NEW i \in 1 .. Len(h[n].arr) PROVE ArrayIn(h, h[n].arr[i].node)
    <2> DEFINE p == <<"arr", i, h[n].arr[i].node, "array">>
    <2>1. p \in Points(h[n]) /\ p[3] = h[n].arr[i].node /\ p[4] = "array"
      BY <1>1 DEF Points
    <2> HIDE DEF p
    <2> QED
      BY <1>2, <2>1 DEF ArrayIn
  <1>5. IsSeq(h[n].tab) /\ IsSeq(h[n].arr)
    BY <1>1 DEF TableForm
  <1> QED
    BY <1>3, <1>4, <1>5, Found DEF toml_table_in, toml_array_in

\* Each create function lets the tree grow; the node that it returns is of
\* the type it says.
LEMMA WithTableGrows ==
    ASSUME NEW h, Good(h), NEW tab, TableIn(h, tab), NEW key, NoKey(h[tab], key),
           NEW made \in {NewTable, [NewTable EXCEPT !.implicit = TRUE]}
    PROVE  /\ Grows(h, WithTable(h, tab, key, made).heap)
           /\ TableIn(WithTable(h, tab, key, made).heap, WithTable(h, tab, key, made).node)
  <1> DEFINE e  == [key |-> key, node |-> Len(h) + 1]
             t  == [h[tab] EXCEPT !.tab = Append(h[tab].tab, e)]
             h2 == Append([h EXCEPT ![tab] = t], made)
  <1>1. WithTable(h, tab, key, made) = [heap |-> h2, node |-> Len(h) + 1]
    BY DEF WithTable
  <1>2. tab \in 1 .. Len(h) /\ TableForm(h[tab]) /\ h[tab].node = "table" /\ Len(h) \in Nat
    BY Nodes1 DEF TableIn
  <1>3. e.node = Len(h) + 1 /\ e.key = key
    OBVIOUS
  <1>4. TableForm(made) /\ Points(made) = {} /\ made.node = "table"
    BY NewNodes
  <1> HIDE DEF e
  <1>5. /\ TableForm(t) /\ Extends(h[tab], t)
        /\ Points(t) = Points(h[tab]) \cup {<<"tab", Len(h[tab].tab) + 1, Len(h) + 1, "table">>}
    BY <1>2, <1>3, EntryTab
  <1> HIDE DEF t
  <1>6. made # Freed /\ Form(made) /\ Form(t)
    BY <1>4, <1>5 DEF Form, Freed
  <1>7. Grows(h, h2)
    BY <1>2, <1>4, <1>5, <1>6, Adds
  <1>8. TableIn(h2, Len(h) + 1)
    <2>1. IsSeq(h) /\ tab \in 1 .. Len(h)
      BY <1>2 DEF Good, Tree
    <2>2. IsSeq([h EXCEPT ![tab] = t]) /\ Len([h EXCEPT ![tab] = t]) = Len(h)
      BY <2>1, ExceptIs
    <2>3. Len(h2) = Len(h) + 1 /\ h2[Len(h) + 1] = made
      BY <2>2, AppendIs
    <2> QED
      BY <1>2, <1>4, <2>3 DEF TableIn
  <1> HIDE DEF h2
  <1> QED
    BY <1>1, <1>7, <1>8

LEMMA KeytableGrows ==
    ASSUME NEW h, Good(h), NEW tab, TableIn(h, tab), NEW key,
           create_keytable_in_table(h, tab, key).node # 0
    PROVE  /\ Grows(h, create_keytable_in_table(h, tab, key).heap)
           /\ TableIn(create_keytable_in_table(h, tab, key).heap,
                      create_keytable_in_table(h, tab, key).node)
  <1> DEFINE made  == create_keytable_in_table(h, tab, key)
             there == toml_table_in(h, tab, key)
  <1>1. CASE Absent(h, tab, key)
    <2>1. made = WithTable(h, tab, key, NewTable)
      BY <1>1 DEF create_keytable_in_table
    <2> QED
      BY <1>1, <2>1, AbsentIs, WithTableGrows DEF Absent
  <1>2. CASE ~Absent(h, tab, key)
    <2>1. /\ check_key(h, tab, key) = "t"
          /\ made = [heap |-> [h EXCEPT ![there].implicit = FALSE], node |-> there]
      BY <1>2 DEF create_keytable_in_table, Nothing
    <2>2. TableIn(h, there)
      BY <2>1, TableFound DEF check_key
    <2> DEFINE t == [h[there] EXCEPT !.implicit = FALSE]
    <2>3. PICK b : t = [h[there] EXCEPT !.implicit = b]
      BY Zenon
    <2>4. made.heap = [h EXCEPT ![there] = t] /\ made.node = there
      BY <2>1
    <2> HIDE DEF t, made, there
    <2>5. there \in 1 .. Len(h) /\ TableForm(h[there]) /\ h[there].node = "table"
      BY <2>2, Nodes1 DEF TableIn
    <2>6. TableForm(t) /\ Extends(h[there], t) /\ Points(t) = Points(h[there])
      BY <2>3, <2>5, Flagged
    <2>7. Form(t)
      BY <2>6 DEF Form
    <2>8. Grows(h, made.heap)
      BY <2>4, <2>5, <2>6, <2>7, Changes
    <2>9. TableIn(made.heap, made.node)
      BY <2>4, <2>5, <2>8, Nodes1 DEF Grows, Extends, TableIn
    <2> QED
      BY <2>8, <2>9 DEF made
  <1> QED
    BY <1>1, <1>2

LEMMA KeyarrayGrows ==
    ASSUME NEW h, Good(h), NEW tab, TableIn(h, tab), NEW key, NEW kind,
           create_keyarray_in_table(h, tab, key, kind).node # 0
    PROVE  /\ Grows(h, create_keyarray_in_table(h, tab, key, kind).heap)
           /\ ArrayIn(create_keyarray_in_table(h, tab, key, kind).heap,
                      create_keyarray_in_table(h, tab, key, kind).node)
  <1> DEFINE e  == [key |-> key, node |-> Len(h) + 1]
             t  == [h[tab] EXCEPT !.arr = Append(h[tab].arr, e)]
             made == NewArray(kind)
             h2 == Append([h EXCEPT ![tab] = t], made)
  <1>1. create_keyarray_in_table(h, tab, key, kind) = [heap |-> h2, node |-> Len(h) + 1]
    BY DEF create_keyarray_in_table, Nothing
  <1>2. tab \in 1 .. Len(h) /\ TableForm(h[tab]) /\ h[tab].node = "table" /\ Len(h) \in Nat
    BY Nodes1 DEF TableIn
  <1>3. e.node = Len(h) + 1 /\ e.key = key
    OBVIOUS
  <1>4. ArrayForm(made) /\ Points(made) = {} /\ made.node = "array"
    BY NewNodes
  <1> HIDE DEF e, made
  <1>5. /\ TableForm(t) /\ Extends(h[tab], t)
        /\ Points(t) = Points(h[tab]) \cup {<<"arr", Len(h[tab].arr) + 1, Len(h) + 1, "array">>}
    <2>1. NoKey(h[tab], key)
      BY AbsentIs DEF create_keyarray_in_table, Nothing, Absent
    <2> QED
      BY <1>2, <1>3, <2>1, EntryArr
  <1> HIDE DEF t
  <1>6. made # Freed /\ Form(made) /\ Form(t)
    BY <1>4, <1>5 DEF Form, Freed
  <1>7. Grows(h, h2)
    BY <1>2, <1>4, <1>5, <1>6, Adds
  <1>8. ArrayIn(h2, Len(h) + 1)
    <2>1. IsSeq(h) /\ tab \in 1 .. Len(h)
      BY <1>2 DEF Good, Tree
    <2>2. IsSeq([h EXCEPT ![tab] = t]) /\ Len([h EXCEPT ![tab] = t]) = Len(h)
      BY <2>1, ExceptIs
    <2>3. Len(h2) = Len(h) + 1 /\ h2[Len(h) + 1] = made
      BY <2>2, AppendIs
    <2> QED
      BY <1>2, <1>4, <2>3 DEF ArrayIn
  <1> HIDE DEF h2
  <1> QED
    BY <1>1, <1>7, <1>8

LEMMA KeyvalGrows ==
    ASSUME Good(heap), NEW tab, TableIn(heap, tab), NEW key, NEW val,
           create_keyval_in_table(tab, key, val).node # 0
    PROVE  Grows(heap, create_keyval_in_table(tab, key, val).heap)
  <1> DEFINE e  == [key |-> key, val |-> val]
             t  == [heap[tab] EXCEPT !.kval = Append(heap[tab].kval, e)]
  <1>1. create_keyval_in_table(tab, key, val).heap = [heap EXCEPT ![tab] = t]
    BY DEF create_keyval_in_table, Nothing
  <1>2. tab \in 1 .. Len(heap) /\ TableForm(heap[tab]) /\ heap[tab].node = "table"
    BY Nodes1 DEF TableIn
  <1>3. NoKey(heap[tab], e.key)
    BY AbsentIs DEF create_keyval_in_table, Nothing, Absent
  <1> HIDE DEF e
  <1>4. TableForm(t) /\ Extends(heap[tab], t) /\ Points(t) = Points(heap[tab])
    BY <1>3, <1>2, Valued
  <1> HIDE DEF t
  <1>5. Form(t)
    BY <1>4 DEF Form
  <1> QED
    BY <1>1, <1>2, <1>4, <1>5, Changes

\* parse_inline_table's end.
LEMMA ReadonlyGrows ==
    ASSUME Good(heap), NEW tab, TableIn(heap, tab)
    PROVE  Grows(heap, [heap EXCEPT ![tab].readonly = TRUE])
  <1> DEFINE t  == [heap[tab] EXCEPT !.readonly = TRUE]
  <1>1. [heap EXCEPT ![tab].readonly = TRUE] = [heap EXCEPT ![tab] = t]
    OBVIOUS
  <1>2. tab \in 1 .. Len(heap) /\ TableForm(heap[tab]) /\ heap[tab].node = "table"
    BY Nodes1 DEF TableIn
  <1>3. PICK b : t = [heap[tab] EXCEPT !.readonly = b]
    BY Zenon
  <1> HIDE DEF t
  <1>4. TableForm(t) /\ Extends(heap[tab], t) /\ Points(t) = Points(heap[tab])
    BY <1>2, <1>3, Flagged
  <1>5. Form(t)
    BY <1>4 DEF Form
  <1> QED
    BY <1>1, <1>2, <1>4, <1>5, Changes

\* An item is added to an array: the array becomes AddedItem.
LEMMA ItemGrows ==
    ASSUME NEW h, Good(h), NEW arr, ArrayIn(h, arr), NEW val
    PROVE  LET h1 == [h EXCEPT ![arr] = AddedItem(h[arr], "v", [val |-> val, arr |-> 0, tab |-> 0])]
           IN  Grows(h, h1)
  <1> DEFINE item == [val |-> val, arr |-> 0, tab |-> 0]
             t == AddedItem(h[arr], "v", item)
  <1>1. arr \in 1 .. Len(h) /\ ArrayForm(h[arr]) /\ h[arr].node = "array"
    BY Nodes1 DEF ArrayIn
  <1>2. ItemForm(item, "v") /\ item.arr = 0 /\ item.tab = 0
    BY DEF ItemForm
  <1> HIDE DEF item
  <1>3. ArrayForm(t) /\ Extends(h[arr], t) /\ Points(t) = Points(h[arr])
    BY <1>1, <1>2, ItemAdded
  <1> HIDE DEF t
  <1>4. Form(t)
    BY <1>3 DEF Form
  <1>5. Grows(h, [h EXCEPT ![arr] = t])
    BY <1>1, <1>3, <1>4, Changes
  <1> QED
    BY <1>5 DEF t, item

LEMMA SubarrayGrows ==
    ASSUME NEW h, Good(h), NEW arr, ArrayIn(h, arr)
    PROVE  LET h1 == [h EXCEPT ![arr] = AddedItem(h[arr], "a",
                                [val |-> <<>>, arr |-> Len(h) + 1, tab |-> 0])]
           IN  /\ Grows(h, Append(h1, NewArray("0")))
               /\ ArrayIn(Append(h1, NewArray("0")), Len(h) + 1)
  <1> DEFINE item == [val |-> <<>>, arr |-> Len(h) + 1, tab |-> 0]
             t == AddedItem(h[arr], "a", item)
             made == NewArray("0")
             h2 == Append([h EXCEPT ![arr] = t], made)
  <1>1. arr \in 1 .. Len(h) /\ ArrayForm(h[arr]) /\ h[arr].node = "array" /\ Len(h) \in Nat
    BY Nodes1 DEF ArrayIn
  <1>2. ItemForm(item, "a") /\ item.arr = Len(h) + 1 /\ item.tab = 0 /\ item.arr # 0
    BY <1>1 DEF ItemForm
  <1>3. ArrayForm(made) /\ Points(made) = {} /\ made.node = "array"
    BY NewNodes
  <1> HIDE DEF item, made
  <1>4. /\ ArrayForm(t) /\ Extends(h[arr], t)
        /\ Points(t) = Points(h[arr]) \cup {<<"item", Len(h[arr].item) + 1, Len(h) + 1, "array">>}
    BY <1>1, <1>2, ItemAdded
  <1> HIDE DEF t
  <1>5. made # Freed /\ Form(made) /\ Form(t)
    BY <1>3, <1>4 DEF Form, Freed
  <1>6. Grows(h, h2)
    BY <1>1, <1>3, <1>4, <1>5, Adds
  <1>7. ArrayIn(h2, Len(h) + 1)
    <2>1. IsSeq(h) /\ arr \in 1 .. Len(h)
      BY <1>1 DEF Good, Tree
    <2>2. IsSeq([h EXCEPT ![arr] = t]) /\ Len([h EXCEPT ![arr] = t]) = Len(h)
      BY <2>1, ExceptIs
    <2>3. Len(h2) = Len(h) + 1 /\ h2[Len(h) + 1] = made
      BY <2>2, AppendIs
    <2> QED
      BY <1>1, <1>3, <2>3 DEF ArrayIn
  <1>8. Grows(h, h2) /\ ArrayIn(h2, Len(h) + 1)
    BY <1>6, <1>7
  <1> QED
    BY <1>8 DEF h2, t, item, made

LEMMA SubtableGrows ==
    ASSUME NEW h, Good(h), NEW arr, ArrayIn(h, arr)
    PROVE  LET h1 == [h EXCEPT ![arr] = AddedItem(h[arr], "t",
                                [val |-> <<>>, arr |-> 0, tab |-> Len(h) + 1])]
           IN  /\ Grows(h, Append(h1, NewTable))
               /\ TableIn(Append(h1, NewTable), Len(h) + 1)
  <1> DEFINE item == [val |-> <<>>, arr |-> 0, tab |-> Len(h) + 1]
             t == AddedItem(h[arr], "t", item)
             made == NewTable
             h2 == Append([h EXCEPT ![arr] = t], made)
  <1>1. arr \in 1 .. Len(h) /\ ArrayForm(h[arr]) /\ h[arr].node = "array" /\ Len(h) \in Nat
    BY Nodes1 DEF ArrayIn
  <1>2. ItemForm(item, "t") /\ item.tab = Len(h) + 1 /\ item.arr = 0 /\ item.tab # 0
    BY <1>1 DEF ItemForm
  <1>3. TableForm(made) /\ Points(made) = {} /\ made.node = "table"
    BY NewNodes
  <1> HIDE DEF item, made
  <1>4. /\ ArrayForm(t) /\ Extends(h[arr], t)
        /\ Points(t) = Points(h[arr]) \cup {<<"item", Len(h[arr].item) + 1, Len(h) + 1, "table">>}
    BY <1>1, <1>2, ItemAdded
  <1> HIDE DEF t
  <1>5. made # Freed /\ Form(made) /\ Form(t)
    BY <1>3, <1>4 DEF Form, Freed
  <1>6. Grows(h, h2)
    BY <1>1, <1>3, <1>4, <1>5, Adds
  <1>7. TableIn(h2, Len(h) + 1)
    <2>1. IsSeq(h) /\ arr \in 1 .. Len(h)
      BY <1>1 DEF Good, Tree
    <2>2. IsSeq([h EXCEPT ![arr] = t]) /\ Len([h EXCEPT ![arr] = t]) = Len(h)
      BY <2>1, ExceptIs
    <2>3. Len(h2) = Len(h) + 1 /\ h2[Len(h) + 1] = made
      BY <2>2, AppendIs
    <2> QED
      BY <1>1, <1>3, <2>3 DEF TableIn
  <1>8. Grows(h, h2) /\ TableIn(h2, Len(h) + 1)
    BY <1>6, <1>7
  <1> QED
    BY <1>8 DEF h2, t, item, made

\* parse_array's three kinds of items, and parse_select's elements.
LEMMA ItemsAre ==
    ASSUME Good(heap), NEW arr, ArrayIn(heap, arr), NEW kind, NEW val, NEW a, NEW t
    PROVE  /\ WithItem(SetKind(arr, kind), arr, val, a, t) =
                [heap EXCEPT ![arr] = AddedItem(heap[arr], kind,
                                        [val |-> val, arr |-> a, tab |-> t])]
           /\ Len(SetKind(arr, kind)) = Len(heap)
  <1> DEFINE h1 == SetKind(arr, kind)
             item == [val |-> val, arr |-> a, tab |-> t]
             node == [heap[arr] EXCEPT !.kind = KindWith(heap[arr].kind, kind)]
  <1>1. /\ arr \in 1 .. Len(heap) /\ ArrayForm(heap[arr]) /\ IsSeq(heap)
        /\ DOMAIN heap = 1 .. Len(heap)
    BY Nodes1, SeqIs DEF Good, Tree
  <1>2. h1 = [heap EXCEPT ![arr] = node]
    BY DEF SetKind
  <1>3. Len(h1) = Len(heap) /\ IsSeq(h1) /\ h1[arr] = node
    <2> HIDE DEF h1, node
    <2> QED
      BY <1>1, <1>2, ExceptIs
  <1>4. node = [node |-> "array", kind |-> KindWith(heap[arr].kind, kind),
                item |-> heap[arr].item]
    BY <1>1 DEF ArrayForm
  <1> HIDE DEF item, node, h1
  <1>5. WithItem(h1, arr, val, a, t) = [h1 EXCEPT ![arr] = [h1[arr] EXCEPT !.item = Append(h1[arr].item, item)]]
    BY DEF WithItem, item
  <1>6. [h1[arr] EXCEPT !.item = Append(h1[arr].item, item)] = AddedItem(heap[arr], kind, item)
    <2>1. \A k, x, y : [[node |-> "array", kind |-> k, item |-> x] EXCEPT !.item = y]
                        = [node |-> "array", kind |-> k, item |-> y]
      OBVIOUS
    <2>2. h1[arr].item = heap[arr].item
      BY <1>3, <1>4
    <2> QED
      BY <1>3, <1>4, <2>1, <2>2 DEF AddedItem, WithKind
  <1>7. [h1 EXCEPT ![arr] = AddedItem(heap[arr], kind, item)]
          = [heap EXCEPT ![arr] = AddedItem(heap[arr], kind, item)]
    BY <1>1, <1>2
  <1> QED
    BY <1>3, <1>5, <1>6, <1>7 DEF h1, item

-----------------------------------------------------------------------------
(* walk_tabpath.                                                            *)

\* What an array's kind t says of its last item.
LEMMA LastIsTable ==
    ASSUME NEW h, Good(h), NEW arr, ArrayIn(h, arr), h[arr].kind = "t",
           h[arr].item # <<>>
    PROVE  TableIn(h, LastTable(h[arr].item))
  <1> DEFINE i == Len(h[arr].item)
             last == h[arr].item[i]
             p == <<"item", i, last.tab, "table">>
  <1>1. arr \in 1 .. Len(h) /\ ArrayForm(h[arr]) /\ h[arr].node = "array" /\ Len(h) \in Nat
    BY Nodes1 DEF ArrayIn
  <1>2. i \in 1 .. Len(h[arr].item) /\ LastTable(h[arr].item) = last.tab
    BY <1>1, FrontIs DEF ArrayForm, LastTable
  <1>3. last.tab # 0
    BY <1>1, <1>2 DEF ArrayForm, ItemForm
  <1>4. p \in Points(h[arr]) /\ p[3] = last.tab /\ p[4] = "table"
    <2> HIDE DEF i
    <2> QED
      BY <1>1, <1>2, <1>3 DEF Points
  <1> HIDE DEF p
  <1>5. p[3] \in arr + 1 .. Len(h) /\ h[p[3]].node = p[4]
    BY <1>1, <1>4 DEF Good, Tree, Downward
  <1> HIDE DEF i, last
  <1> QED
    BY <1>1, <1>2, <1>4, <1>5 DEF TableIn

\* Where the walk may be.
Walking(at) ==
    /\ at = [heap |-> at.heap, tab |-> at.tab] /\ Grows(heap, at.heap)
    /\ at.tab = 0 \/ TableIn(at.heap, at.tab)

\* One entry of the path leads from a table to a table, or to none.
LEMMA WalkStep ==
    ASSUME Good(heap), NEW at, Walking(at), NEW key
    PROVE  Walking(Walk(at, key))
  <1> DEFINE h == at.heap
             arr == toml_array_in(h, at.tab, key)
             kind == check_key(h, at.tab, key)
             new == [NewTable EXCEPT !.implicit = TRUE]
             made == WithTable(h, at.tab, key, new)
  <1>1. CASE at.tab = 0
    BY <1>1 DEF Walk
  <1>2. CASE at.tab # 0
    <2>1. Grows(heap, h) /\ Good(h) /\ TableIn(h, at.tab)
      BY <1>2 DEF Walking, Grows
    <2>2. \A n : [at EXCEPT !.tab = n] = [heap |-> h, tab |-> n]
      BY DEF Walking
    <2>3. \A n : n = 0 \/ TableIn(h, n) => Walking([at EXCEPT !.tab = n])
      BY <2>1, <2>2 DEF Walking
    <2>4. CASE kind = "t"
      <3>1. Walk(at, key) = [at EXCEPT !.tab = toml_table_in(h, at.tab, key)]
        BY <1>2, <2>4 DEF Walk
      <3>2. TableIn(h, toml_table_in(h, at.tab, key))
        BY <2>1, <2>4, TableFound DEF check_key
      <3> QED
        BY <2>3, <3>1, <3>2
    <2>5. CASE kind = "a"
      <3> DEFINE to == IF h[arr].kind = "t" /\ h[arr].item # <<>>
                       THEN LastTable(h[arr].item) ELSE 0
      <3>1. Walk(at, key) = [at EXCEPT !.tab = to]
        BY <1>2, <2>5 DEF Walk
      <3>2. ArrayIn(h, arr)
        BY <2>1, <2>5, TableFound DEF check_key
      <3>3. to = 0 \/ TableIn(h, to)
        <4> HIDE DEF arr, h
        <4> QED
          BY <2>1, <3>2, LastIsTable
      <3> HIDE DEF to
      <3> QED
        BY <2>3, <3>1, <3>3
    <2>6. CASE kind = "v"
      <3>1. Walk(at, key) = [at EXCEPT !.tab = 0]
        BY <1>2, <2>6 DEF Walk
      <3> QED
        BY <2>3, <3>1
    <2>7. CASE kind = "none"
      <3>1. Walk(at, key) = [heap |-> made.heap, tab |-> made.node]
        BY <1>2, <2>7 DEF Walk
      <3>2. Grows(h, made.heap) /\ TableIn(made.heap, made.node)
        <4>1. NoKey(h[at.tab], key)
          BY <2>7, AbsentIs
        <4> HIDE DEF h
        <4> QED
          BY <2>1, <4>1, WithTableGrows
      <3> HIDE DEF made, h
      <3>3. Grows(heap, made.heap)
        BY <2>1, <3>2, GrowsOn
      <3> QED
        BY <3>1, <3>2, <3>3 DEF Walking
    <2>8. kind \in {"t", "a", "v", "none"}
      BY DEF check_key
    <2> QED
      BY <2>4, <2>5, <2>6, <2>7, <2>8
  <1> QED
    BY <1>1, <1>2

\* The recursion along the path has a solution, whose every part is a walk:
\* else the shortest beginning of the path that had none would have one.
LEMMA WalkIs ==
    ASSUME Good(heap), NEW path, IsSeq(path)
    PROVE  Walking(walk_tabpath(path))
  <1> DEFINE start == [heap |-> heap, tab |-> 1]
             value(i, f) == IF i = 0 THEN start ELSE Walk(f[i - 1], path[i])
             Upto(n, f) == f = [i \in 0 .. n |-> value(i, f)]
             len == Len(path)
  <1>1. len \in Nat
    BY SeqIs
  <1>2. \A n \in Nat : \E f : Upto(n, f)
    <2> DEFINE T == {n \in Nat : ~ \E f : Upto(n, f)}
    <2> SUFFICES ASSUME T # {} PROVE FALSE
      OBVIOUS
    <2>1. PICK n \in T : \A j \in T : n <= j
      BY NatLeast
    <2>2. CASE n = 0
      <3>1. Upto(0, [i \in 0 .. 0 |-> start])
        OBVIOUS
      <3> QED
        BY <2>1, <2>2, <3>1
    <2>3. CASE n # 0
      <3>1. n \in Nat /\ n - 1 \in Nat /\ n - 1 \notin T
        <4>1. n \in Nat /\ n - 1 \in Nat
          BY <2>1, <2>3
        <4> HIDE DEF T
        <4> QED
          BY <2>1, <4>1
      <3>2. PICK f : Upto(n - 1, f)
        BY <3>1
      <3> DEFINE g == [i \in 0 .. n |-> IF i = n THEN Walk(f[n - 1], path[n]) ELSE f[i]]
      <3>3. \A i \in 0 .. n - 1 : f[i] = value(i, f) /\ g[i] = f[i]
        <4>1. f = [i \in 0 .. n - 1 |-> value(i, f)]
          BY <3>2
        <4> HIDE DEF value
        <4> QED
          BY <3>1, <4>1, SMTT(30)
      <3>4. \A i \in 0 .. n : g[i] = value(i, g)
        <4> TAKE i \in 0 .. n
        <4>1. CASE i = 0
          <5>1. 0 \in 0 .. n - 1
            BY <2>3, <3>1
          <5> QED
            BY <3>3, <4>1, <5>1
        <4>2. CASE i \in 1 .. n - 1
          <5>1. i \in 0 .. n - 1 /\ i - 1 \in 0 .. n - 1 /\ i # 0
            BY <3>1, <4>2
          <5>2. g[i] = Walk(f[i - 1], path[i]) /\ g[i - 1] = f[i - 1]
            BY <3>3, <5>1
          <5> QED
            BY <5>1, <5>2
        <4>3. CASE i = n
          <5>1. n - 1 \in 0 .. n - 1 /\ n \in 0 .. n
            BY <3>1
          <5>2. g[n] = Walk(f[n - 1], path[n]) /\ g[n - 1] = f[n - 1]
            BY <3>3, <5>1
          <5> QED
            BY <2>3, <4>3, <5>2
        <4> QED
          BY <3>1, <4>1, <4>2, <4>3
      <3>5. g = [i \in 0 .. n |-> g[i]]
        OBVIOUS
      <3> HIDE DEF g, value
      <3>6. Upto(n, g)
        BY <3>4, <3>5
      <3> QED
        BY <2>1, <3>6
    <2> QED
      BY <2>2, <2>3
  <1>3. PICK at : Upto(len, at) /\ walk_tabpath(path) = at[len]
    <2> DEFINE at == CHOOSE f : Upto(len, f)
    <2>1. Upto(len, at)
      BY <1>1, <1>2
    <2>2. walk_tabpath(path) = at[len]
      BY Zenon DEF walk_tabpath
    <2> HIDE DEF at
    <2> QED
      BY <2>1, <2>2
  <1>4. \A i \in 0 .. len : at[i] = value(i, at)
    <2>1. at = [i \in 0 .. len |-> value(i, at)]
      BY <1>3
    <2> HIDE DEF value
    <2> QED
      BY <2>1
  <1>5. Walking(start)
    BY GrowsSelf, Nodes1 DEF Walking
  <1>6. \A i \in 0 .. len : Walking(at[i])
    <2> DEFINE T == {i \in 0 .. len : ~Walking(at[i])}
    <2> SUFFICES ASSUME T # {} PROVE FALSE
      OBVIOUS
    <2>1. PICK i \in T : \A j \in T : i <= j
      <3>1. T \subseteq Nat
        BY <1>1
      <3> HIDE DEF T
      <3> QED
        BY <3>1, NatLeast
    <2>2. CASE i = 0
      BY <1>4, <1>5, <2>1, <2>2
    <2>3. CASE i # 0
      <3>1. i \in 0 .. len /\ i - 1 \in 0 .. len /\ ~(i <= i - 1)
        BY <1>1, <2>1, <2>3
      <3>2. Walking(at[i - 1])
        BY <2>1, <3>1
      <3>3. at[i] = Walk(at[i - 1], path[i])
        BY <1>4, <2>3, <3>1
      <3> QED
        BY <2>1, <3>2, <3>3, WalkStep
    <2> QED
      BY <2>2, <2>3
  <1> QED
    BY <1>1, <1>3, <1>6

LEMMA FrontSeq == ASSUME NEW s, IsSeq(s) PROVE IsSeq(Front(s))
  <1>1. CASE s = <<>>
    <2>1. \A S : <<>> \in Seq(S) /\ SubSeq(<<>>, 1, 0 - 1) \in Seq(S)
      OBVIOUS
    <2>2. Front(s) = SubSeq(<<>>, 1, 0 - 1)
      BY <1>1, EmptyIs DEF Front
    <2> QED
      BY <2>1, <2>2 DEF IsSeq
  <1>2. CASE s # <<>>
    BY <1>2, FrontIs
  <1> QED
    BY <1>1, <1>2

\* A table is appended to an array of tables.
LEMMA ElementIs ==
    ASSUME NEW h, Good(h), NEW arr, ArrayIn(h, arr), h[arr].kind = "t"
    PROVE  /\ Grows(h, create_table_in_array(h, arr))
           /\ TableIn(create_table_in_array(h, arr), Len(h) + 1)
  <1> DEFINE item == [val |-> <<>>, arr |-> 0, tab |-> Len(h) + 1]
             h1 == [h EXCEPT ![arr] = AddedItem(h[arr], "t", item)]
  <1>1. ArrayForm(h[arr])
    BY Nodes1
  <1>2. \A x : [h[arr] EXCEPT !.item = x] = [node |-> "array", kind |-> "t", item |-> x]
    BY <1>1 DEF ArrayForm
  <1> HIDE DEF item
  <1>3. [h[arr] EXCEPT !.item = Append(h[arr].item, item)] = AddedItem(h[arr], "t", item)
    BY <1>2 DEF AddedItem, WithKind, KindWith
  <1>4. WithItem(h, arr, <<>>, 0, Len(h) + 1)
          = [h EXCEPT ![arr] = [h[arr] EXCEPT !.item = Append(h[arr].item, item)]]
    BY DEF WithItem, item
  <1>5. create_table_in_array(h, arr) = Append(h1, NewTable)
    BY <1>3, <1>4 DEF create_table_in_array
  <1>6. Grows(h, Append(h1, NewTable)) /\ TableIn(Append(h1, NewTable), Len(h) + 1)
    BY SubtableGrows DEF item
  <1> HIDE DEF h1
  <1> QED
    BY <1>5, <1>6

\* What parse_select makes its current table is a table of the tree.
LEMMA SelectedGrows ==
    ASSUME Good(heap), IsSeq(Top.path)
    PROVE  /\ Grows(heap, Selected.heap)
           /\ Selected.node # 0 => TableIn(Selected.heap, Selected.node)
  <1> DEFINE at == walk_tabpath(Front(Top.path))
             z  == Last(Top.path)
             there == toml_array_in(at.heap, at.tab, z)
             arr == IF there # 0 THEN [heap |-> at.heap, node |-> there]
                    ELSE create_keyarray_in_table(at.heap, at.tab, z, "t")
  <1>1. Walking(at)
    BY FrontSeq, WalkIs
  <1>2. CASE at.tab = 0
    <2>1. Selected = Nothing(at.heap)
      BY <1>2 DEF Selected
    <2> QED
      BY <1>1, <2>1 DEF Walking, Nothing
  <1>3. CASE at.tab # 0
    <2>1. Selected = IF Top.llb THEN SelectElement(at, z) ELSE SelectTable(at, z)
      BY <1>3 DEF Selected
    <2> HIDE DEF at, z
    <2>2. Grows(heap, at.heap) /\ TableIn(at.heap, at.tab) /\ Good(at.heap)
      BY <1>1, <1>3 DEF Walking, Grows
    <2> SUFFICES /\ Grows(at.heap, Selected.heap)
                 /\ Selected.node # 0 => TableIn(Selected.heap, Selected.node)
      BY <2>2, GrowsOn
    <2>3. CASE Top.llb
      <3>1. Selected = SelectElement(at, z)
        BY <2>1, <2>3
      <3> DEFINE refused == arr.node = 0 \/ arr.heap[arr.node].kind # "t"
      <3>2. Selected = IF refused THEN Nothing(arr.heap)
                       ELSE [heap |-> create_table_in_array(arr.heap, arr.node),
                             node |-> Len(arr.heap) + 1]
        BY <3>1 DEF SelectElement
      <3>3. Grows(at.heap, arr.heap) /\ (arr.node = 0 \/ ArrayIn(arr.heap, arr.node))
        <4>1. CASE there # 0
          BY <2>2, <4>1, TableFound, GrowsSelf
        <4>2. CASE there = 0 /\ arr.node # 0
          BY <2>2, <4>2, KeyarrayGrows
        <4>3. CASE there = 0 /\ arr.node = 0
          <5>1. arr = create_keyarray_in_table(at.heap, at.tab, z, "t")
            BY <4>3
          <5>2. arr = Nothing(at.heap)
            <6>1. \/ arr = Nothing(at.heap)
                  \/ arr.node = Len(at.heap) + 1
              BY <5>1 DEF create_keyarray_in_table
            <6>2. Len(at.heap) \in Nat
              BY <2>2, SeqIs DEF Good, Tree
            <6> HIDE DEF arr
            <6> QED
              BY <4>3, <6>1, <6>2
          <5> HIDE DEF arr
          <5> QED
            BY <2>2, <4>3, <5>2, GrowsSelf DEF Nothing
        <4> QED
          BY <4>1, <4>2, <4>3
      <3> HIDE DEF arr
      <3>4. CASE refused
        BY <3>2, <3>3, <3>4 DEF Nothing
      <3>5. CASE ~refused
        <4>1. /\ Selected.heap = create_table_in_array(arr.heap, arr.node)
              /\ Selected.node = Len(arr.heap) + 1 /\ arr.heap[arr.node].kind = "t"
              /\ ArrayIn(arr.heap, arr.node)
          BY <3>2, <3>3, <3>5
        <4>2. Good(arr.heap)
          BY <3>3 DEF Grows
        <4>3. Grows(arr.heap, Selected.heap) /\ TableIn(Selected.heap, Selected.node)
          BY <4>1, <4>2, ElementIs
        <4> QED
          BY <2>2, <3>3, <4>3, GrowsOn
      <3> QED
        BY <3>4, <3>5
    <2>4. CASE ~Top.llb
      <3>1. Selected = create_keytable_in_table(at.heap, at.tab, z)
        BY <2>1, <2>4 DEF SelectTable
      <3>2. CASE Selected.node # 0
        BY <2>2, <3>1, <3>2, KeytableGrows
      <3>3. CASE Selected.node = 0
        <4> DEFINE sub == toml_table_in(at.heap, at.tab, z)
        <4>1. \/ Selected = Nothing(at.heap)
              \/ Selected.node = Len(at.heap) + 1
              \/ Selected.node = sub /\ check_key(at.heap, at.tab, z) = "t"
          BY <3>1 DEF create_keytable_in_table, WithTable
        <4>2. Len(at.heap) \in Nat
          BY <2>2, SeqIs DEF Good, Tree
        <4>3. check_key(at.heap, at.tab, z) = "t" => sub \in 1 .. Len(at.heap)
          BY <2>2, TableFound DEF TableIn, check_key
        <4> HIDE DEF sub
        <4>4. Selected = Nothing(at.heap)
          BY <3>3, <4>1, <4>2, <4>3
        <4> QED
          BY <2>2, <3>3, <4>4, GrowsSelf DEF Nothing
      <3> QED
        BY <3>2, <3>3
    <2> QED
      BY <2>3, <2>4
  <1> QED
    BY <1>2, <1>3

-----------------------------------------------------------------------------
(* The descent: its calls work on nodes of their types.                     *)

FrameOK(h, f) ==
    \/ /\ f = [proc |-> f.proc, node |-> f.node]
       /\ \/ f.proc \in {"array", "arraynext"} /\ ArrayIn(h, f.node)
          \/ f.proc \in {"keyval", "inline", "inlinenext"} /\ TableIn(h, f.node)
          \/ f.proc = "endline"
    \/ /\ f = [proc |-> f.proc, node |-> f.node, key |-> f.key]
       /\ f.proc \in {"afterkey", "value"} /\ TableIn(h, f.node)
    \/ /\ f = [proc |-> f.proc, llb |-> f.llb, path |-> f.path]
       /\ f.proc \in {"bracket", "path", "pathnext", "close", "selected"}
       /\ IsSeq(f.path)

CallsOK(h, c) == IsSeq(c) /\ \A i \in 1 .. Len(c) : FrameOK(h, c[i])

Building == /\ Good(heap) /\ TableIn(heap, curtab) /\ CallsOK(heap, calls)
            /\ work = <<>>

\* The parser gives up, with what a refused header had linked by then.
GivesUp == Grows(heap, heap') /\ FailWith(heap')

\* What a call works on stays what it is while the tree grows.
LEMMA NodesGrow ==
    ASSUME NEW h, NEW h2, Grows(h, h2), NEW n
    PROVE  (TableIn(h, n) => TableIn(h2, n)) /\ (ArrayIn(h, n) => ArrayIn(h2, n))
  <1>1. Len(h2) \in Nat /\ Len(h) <= Len(h2)
    BY SeqIs DEF Grows, Good, Tree
  <1>2. \A i \in 1 .. Len(h) : i \in 1 .. Len(h2) /\ h2[i].node = h[i].node
    <2>1. \A i \in 1 .. Len(h) : h2[i].node = h[i].node
      BY DEF Grows, Extends
    <2>2. ASSUME NEW i \in 1 .. Len(h) PROVE i \in 1 .. Len(h2)
      BY <1>1
    <2> QED
      BY <2>1, <2>2
  <1> QED
    BY <1>2 DEF TableIn, ArrayIn

LEMMA FramesGrow ==
    ASSUME NEW h, NEW h2, Grows(h, h2), NEW f, FrameOK(h, f)
    PROVE  FrameOK(h2, f)
  BY NodesGrow DEF FrameOK

\* Goto, GoCall and Return.
LEMMA CallsGrow ==
    ASSUME NEW h, NEW h2, Grows(h, h2), NEW c, CallsOK(h, c)
    PROVE  /\ CallsOK(h2, c)
           /\ c # <<>> =>
                 /\ CallsOK(h2, Front(c)) /\ FrameOK(h, Last(c))
                 /\ \A f : FrameOK(h2, f) => CallsOK(h2, Append(Front(c), f))
                 /\ \A f, g : FrameOK(h2, f) /\ FrameOK(h2, g) =>
                        CallsOK(h2, Append(Append(Front(c), f), g))
  <1>1. \A i \in 1 .. Len(c) : FrameOK(h2, c[i])
    BY FramesGrow DEF CallsOK
  <1>2. ASSUME c # <<>> PROVE CallsOK(h2, Front(c)) /\ FrameOK(h, Last(c))
    <2>1. /\ IsSeq(Front(c)) /\ Len(Front(c)) = Len(c) - 1 /\ Len(c) \in Nat
          /\ \A i \in 1 .. Len(c) - 1 : Front(c)[i] = c[i]
          /\ Last(c) = c[Len(c)] /\ Len(c) \in 1 .. Len(c)
      BY <1>2, FrontIs, SeqIs DEF CallsOK
    <2> QED
      BY <1>1, <2>1 DEF CallsOK
  <1>3. ASSUME NEW d, CallsOK(h2, d), NEW f, FrameOK(h2, f) PROVE CallsOK(h2, Append(d, f))
    <2>1. /\ IsSeq(Append(d, f)) /\ Len(Append(d, f)) = Len(d) + 1 /\ Len(d) \in Nat
          /\ \A i \in 1 .. Len(d) : Append(d, f)[i] = d[i]
          /\ Append(d, f)[Len(d) + 1] = f
      BY <1>3, AppendIs, SeqIs DEF CallsOK
    <2>2. \A i \in 1 .. Len(d) + 1 : i \in 1 .. Len(d) \/ i = Len(d) + 1
      BY <2>1
    <2> QED
      BY <1>3, <2>1, <2>2 DEF CallsOK
  <1>4. CallsOK(h2, c)
    BY <1>1 DEF CallsOK
  <1> QED
    BY <1>2, <1>3, <1>4

\* The calls that the actions make.
LEMMA FramesMade ==
    ASSUME NEW h
    PROVE  /\ FrameOK(h, Frame("endline", 0))
           /\ \A n : ArrayIn(h, n) => /\ FrameOK(h, Frame("array", n))
                                      /\ FrameOK(h, Frame("arraynext", n))
           /\ \A n : TableIn(h, n) =>
                /\ FrameOK(h, Frame("keyval", n)) /\ FrameOK(h, Frame("inline", n))
                /\ FrameOK(h, Frame("inlinenext", n))
                /\ \A k : /\ FrameOK(h, [proc |-> "afterkey", node |-> n, key |-> k])
                          /\ FrameOK(h, [proc |-> "value", node |-> n, key |-> k])
           /\ \A p, b, q : IsSeq(p) /\ q \in {"bracket", "path", "pathnext", "close", "selected"}
                => FrameOK(h, [proc |-> q, llb |-> b, path |-> p])
  BY DEF FrameOK, Frame

LEMMA FrameForms ==
    ASSUME NEW h, NEW f, FrameOK(h, f)
    PROVE  /\ f.proc \in {"array", "arraynext"} => ArrayIn(h, f.node)
           /\ f.proc \in {"keyval", "inline", "inlinenext", "afterkey", "value"} =>
                TableIn(h, f.node)
           /\ f.proc \in {"afterkey", "value"} => \A x :
                [f EXCEPT !.proc = x] = [proc |-> x, node |-> f.node, key |-> f.key]
           /\ f.proc \in {"bracket", "path", "pathnext", "close", "selected"} =>
                /\ IsSeq(f.path)
                /\ \A x : [f EXCEPT !.proc = x] = [proc |-> x, llb |-> f.llb, path |-> f.path]
                /\ \A x, y : [f EXCEPT !.proc = x, !.path = y]
                                = [proc |-> x, llb |-> f.llb, path |-> y]
  <1>1. CASE /\ f = [proc |-> f.proc, node |-> f.node]
             /\ \/ f.proc \in {"array", "arraynext"} /\ ArrayIn(h, f.node)
                \/ f.proc \in {"keyval", "inline", "inlinenext"} /\ TableIn(h, f.node)
                \/ f.proc = "endline"
    BY <1>1
  <1>2. CASE /\ f = [proc |-> f.proc, node |-> f.node, key |-> f.key]
             /\ f.proc \in {"afterkey", "value"} /\ TableIn(h, f.node)
    <2>1. PICK a, b, c : f = [proc |-> a, node |-> b, key |-> c]
      BY <1>2
    <2>2. \A x : [f EXCEPT !.proc = x] = [proc |-> x, node |-> f.node, key |-> f.key]
      BY <2>1
    <2> QED
      BY <1>2, <2>2
  <1>3. CASE /\ f = [proc |-> f.proc, llb |-> f.llb, path |-> f.path]
             /\ f.proc \in {"bracket", "path", "pathnext", "close", "selected"}
             /\ IsSeq(f.path)
    <2>1. PICK a, b, c : f = [proc |-> a, llb |-> b, path |-> c]
      BY <1>3
    <2>2. \A x : [f EXCEPT !.proc = x] = [proc |-> x, llb |-> f.llb, path |-> f.path]
      BY <2>1
    <2>3. ASSUME NEW x, NEW y
          PROVE  [f EXCEPT !.proc = x, !.path = y] = [proc |-> x, llb |-> f.llb, path |-> y]
      <3> DEFINE g == [f EXCEPT !.proc = x]
      <3>1. g = [proc |-> x, llb |-> b, path |-> c]
        BY <2>1
      <3> HIDE DEF g
      <3>2. [g EXCEPT !.path = y] = [proc |-> x, llb |-> b, path |-> y]
        BY <3>1
      <3>3. [g EXCEPT !.path = y] = [f EXCEPT !.proc = x, !.path = y]
        BY DEF g
      <3> QED
        BY <2>1, <3>2, <3>3
    <2> QED
      BY <1>3, <2>2, <2>3
  <1> QED
    BY <1>1, <1>2, <1>3 DEF FrameOK

\* What every step of the descent starts from.
LEMMA TopIs ==
    ASSUME Building, NEW proc, In(proc)
    PROVE  /\ FrameOK(heap, Top) /\ Top.proc = proc /\ Good(heap) /\ Grows(heap, heap)
           /\ calls # <<>> /\ TableIn(heap, curtab) /\ CallsOK(heap, calls)
           /\ result = "none" /\ work = <<>>
  BY CallsGrow, GrowsSelf DEF Building, In, Top

\* What every step of the descent ends with.
LEMMA Built ==
    ASSUME Building, calls # <<>>, Grows(heap, heap'), UNCHANGED <<work, result>>, result = "none",
           TableIn(heap', curtab') \/ UNCHANGED curtab,
           \/ Return
           \/ \E f : FrameOK(heap', f) /\ Goto(f)
           \/ \E f, g : FrameOK(heap', f) /\ FrameOK(heap', g) /\ GoCall(f, g)
           \/ UNCHANGED calls
    PROVE  Building' /\ result' = "none" /\ Grows(heap, heap')
  <1>1. CallsOK(heap', calls')
    BY CallsGrow DEF Building, Return, Goto, GoCall, Outer
  <1>2. TableIn(heap', curtab') /\ Good(heap')
    BY NodesGrow DEF Building, Grows
  <1> QED
    BY <1>1, <1>2 DEF Building

\* Every step of toml_parse keeps a whole tree, or fails; the calls of the
\* descent likewise, group by group.
LEMMA MainBuilds ==
    ASSUME Building, result = "none", MainNewline \/ MainKeyval \/ MainSelect \/ EndLine
    PROVE  Fail \/ (Building' /\ result' = "none" /\ Grows(heap, heap'))
  <1>1. Grows(heap, heap) /\ Good(heap) /\ TableIn(heap, curtab) /\ IsSeq(<<>>)
    BY GrowsSelf, EmptyIs DEF Building
  <1>2. CASE MainNewline
    BY <1>2, <1>1 DEF MainNewline, Parses, Keeps, Building
  <1>3. CASE MainKeyval
    <2>1. calls' = <<Frame("endline", 0), Frame("keyval", curtab)>>
          /\ UNCHANGED <<heap, curtab, work, result>>
      BY <1>3 DEF MainKeyval, Parses, Keeps
    <2>2. FrameOK(heap, Frame("endline", 0)) /\ FrameOK(heap, Frame("keyval", curtab))
      BY <1>1, FramesMade
    <2>3. \A f, g : IsSeq(<<f, g>>) /\ Len(<<f, g>>) = 2 /\ <<f, g>>[1] = f /\ <<f, g>>[2] = g
      <3>1. \A f, g : <<f, g>> \in Seq({f, g})
        OBVIOUS
      <3> QED
        BY <3>1 DEF IsSeq
    <2>4. CallsOK(heap, calls')
      BY <2>1, <2>2, <2>3 DEF CallsOK
    <2> QED
      BY <1>1, <2>1, <2>4 DEF Building
  <1>4. CASE MainSelect
    <2>1. UNCHANGED <<heap, curtab, work, result>>
      BY <1>4 DEF MainSelect, Parses, Keeps
    <2> DEFINE proc == IF Adjacent("[") THEN "bracket" ELSE "path"
    <2>2. PICK q : q = proc
      OBVIOUS
    <2>3. PICK b : b = Adjacent("[")
      OBVIOUS
    <2>4. q \in {"bracket", "path"}
      BY <2>2
    <2>5. calls' = <<[proc |-> q, llb |-> b, path |-> <<>>]>>
      BY <1>4, <2>2, <2>3, Zenon DEF MainSelect
    <2>6. FrameOK(heap, [proc |-> q, llb |-> b, path |-> <<>>])
      BY <1>1, <2>4, <2>5, FramesMade
    <2>7. \A f : IsSeq(<<f>>) /\ Len(<<f>>) = 1 /\ <<f>>[1] = f
      <3>1. \A f : <<f>> \in Seq({f})
        OBVIOUS
      <3> QED
        BY <3>1 DEF IsSeq
    <2>8. CallsOK(heap, calls')
      BY <2>4, <2>5, <2>6, <2>7 DEF CallsOK
    <2> QED
      BY <1>1, <2>1, <2>8 DEF Building
  <1>5. CASE EndLine
    <2>1. CASE Is("NEWLINE")
      <3>1. /\ Return /\ UNCHANGED <<heap, curtab, work, result>> /\ calls # <<>>
        BY <1>5, <2>1 DEF EndLine, Parses, Keeps, In
      <3> QED
        BY <1>1, <3>1, Built
    <2>2. CASE ~Is("NEWLINE")
      BY <1>5, <2>2 DEF EndLine
    <2> QED
      BY <2>1, <2>2
  <1> QED
    BY <1>2, <1>3, <1>4, <1>5

LEMMA KeyvalBuilds ==
    ASSUME Building, Keyval
    PROVE  Fail \/ (Building' /\ result' = "none" /\ Grows(heap, heap'))
  <1>1. CASE KeyvalKey
    <2>1. In("keyval")
      BY <1>1 DEF KeyvalKey
    <2>2. TableIn(heap, Top.node)
      BY <2>1, TopIs, FrameForms
    <2>3. CASE ~Fail
      <3>1. /\ Goto([proc |-> "afterkey", node |-> Top.node, key |-> normalize_key(tok.word)])
            /\ UNCHANGED <<heap, curtab, work, result>>
        BY <1>1, <2>3 DEF KeyvalKey, Parses, Keeps
      <3>2. FrameOK(heap, [proc |-> "afterkey", node |-> Top.node, key |-> normalize_key(tok.word)])
        BY <2>2, FramesMade
      <3> QED
        BY <2>1, <3>1, <3>2, TopIs, Built
    <2> QED
      BY <2>3
  <1>2. CASE KeyvalDot
    <2> DEFINE there == toml_table_in(heap, Top.node, Top.key)
               made == create_keytable_in_table(heap, Top.node, Top.key)
               subtab == IF there # 0 THEN [heap |-> heap, node |-> there] ELSE made
    <2>1. In("afterkey")
      BY <1>2 DEF KeyvalDot
    <2>2. TableIn(heap, Top.node) /\ Good(heap) /\ Grows(heap, heap)
      BY <2>1, TopIs, FrameForms
    <2>3. CASE ~Fail
      <3>1. /\ subtab.node # 0 /\ heap' = subtab.heap /\ Goto(Frame("keyval", subtab.node))
            /\ UNCHANGED <<curtab, work, result>>
        BY <1>2, <2>3 DEF KeyvalDot, Parses
      <3>2. Grows(heap, subtab.heap) /\ TableIn(subtab.heap, subtab.node)
        BY <2>2, <3>1, TableFound, KeytableGrows
      <3> HIDE DEF subtab
      <3>3. FrameOK(heap', Frame("keyval", subtab.node))
        BY <3>1, <3>2, FramesMade
      <3> QED
        BY <2>1, <3>1, <3>2, <3>3, TopIs, Built
    <2> QED
      BY <2>3
  <1>3. CASE KeyvalEqual
    <2> DEFINE f == [Top EXCEPT !.proc = "value"]
    <2>1. In("afterkey") /\ Goto(f) /\ UNCHANGED <<heap, curtab, work, result>>
      BY <1>3 DEF KeyvalEqual, Parses, Keeps
    <2>2. /\ TableIn(heap, Top.node)
          /\ f = [proc |-> "value", node |-> Top.node, key |-> Top.key]
      BY <2>1, TopIs, FrameForms
    <2> HIDE DEF f
    <2>3. FrameOK(heap, f)
      BY <2>2, FramesMade
    <2> QED
      BY <2>1, <2>3, TopIs, Built
  <1>4. CASE KeyvalNoEqual \/ ValueFail
    BY <1>4 DEF KeyvalNoEqual, ValueFail
  <1>5. CASE ValueString
    <2> DEFINE made == create_keyval_in_table(Top.node, Top.key, tok.word)
    <2>1. In("value")
      BY <1>5 DEF ValueString
    <2>2. TableIn(heap, Top.node) /\ Good(heap)
      BY <2>1, TopIs, FrameForms
    <2>3. CASE ~Fail
      <3>1. made.node # 0 /\ heap' = made.heap /\ Return /\ UNCHANGED <<curtab, work, result>>
        BY <1>5, <2>3 DEF ValueString, Parses
      <3>2. Grows(heap, heap')
        BY <2>2, <3>1, KeyvalGrows
      <3> QED
        BY <2>1, <3>1, <3>2, TopIs, Built
    <2> QED
      BY <2>3
  <1>6. CASE ValueArray
    <2> DEFINE made == create_keyarray_in_table(heap, Top.node, Top.key, "0")
    <2>1. In("value")
      BY <1>6 DEF ValueArray
    <2>2. TableIn(heap, Top.node) /\ Good(heap)
      BY <2>1, TopIs, FrameForms
    <2>3. CASE ~Fail
      <3>1. made.node # 0 /\ heap' = made.heap /\ Goto(Frame("array", made.node))
            /\ UNCHANGED <<curtab, work, result>>
        BY <1>6, <2>3 DEF ValueArray, Parses
      <3>2. Grows(heap, heap') /\ ArrayIn(heap', made.node)
        BY <2>2, <3>1, KeyarrayGrows
      <3> HIDE DEF made
      <3>3. FrameOK(heap', Frame("array", made.node))
        BY <3>2, FramesMade
      <3> QED
        BY <2>1, <3>1, <3>2, <3>3, TopIs, Built
    <2> QED
      BY <2>3
  <1>7. CASE ValueTable
    <2> DEFINE made == create_keytable_in_table(heap, Top.node, Top.key)
    <2>1. In("value")
      BY <1>7 DEF ValueTable
    <2>2. TableIn(heap, Top.node) /\ Good(heap)
      BY <2>1, TopIs, FrameForms
    <2>3. CASE ~Fail
      <3>1. made.node # 0 /\ heap' = made.heap /\ Goto(Frame("inline", made.node))
            /\ UNCHANGED <<curtab, work, result>>
        BY <1>7, <2>3 DEF ValueTable, Parses
      <3>2. Grows(heap, heap') /\ TableIn(heap', made.node)
        BY <2>2, <3>1, KeytableGrows
      <3> HIDE DEF made
      <3>3. FrameOK(heap', Frame("inline", made.node))
        BY <3>2, FramesMade
      <3> QED
        BY <2>1, <3>1, <3>2, <3>3, TopIs, Built
    <2> QED
      BY <2>3
  <1> QED
    BY <1>1, <1>2, <1>3, <1>4, <1>5, <1>6, <1>7 DEF Keyval

LEMMA InlineBuilds ==
    ASSUME Building, Inline
    PROVE  Fail \/ (Building' /\ result' = "none" /\ Grows(heap, heap'))
  <1>1. CASE InlineEntry
    <2>1. In("inline") /\ UNCHANGED <<heap, curtab, work, result>>
          /\ GoCall(Frame("inlinenext", Top.node), Frame("keyval", Top.node))
      BY <1>1 DEF InlineEntry, Parses, Keeps
    <2>2. FrameOK(heap, Frame("inlinenext", Top.node)) /\ FrameOK(heap, Frame("keyval", Top.node))
      <3>1. TableIn(heap, Top.node)
        BY <2>1, TopIs, FrameForms
      <3> QED
        BY <3>1, FramesMade
    <2> QED
      BY <2>1, <2>2, TopIs, Built
  <1>2. CASE InlineComma
    <2>1. In("inlinenext") /\ UNCHANGED <<heap, curtab, work, result>>
          /\ Goto(Frame("inline", Top.node))
      BY <1>2 DEF InlineComma, Parses, Keeps
    <2>2. FrameOK(heap, Frame("inline", Top.node))
      <3>1. TableIn(heap, Top.node)
        BY <2>1, TopIs, FrameForms
      <3> QED
        BY <3>1, FramesMade
    <2> QED
      BY <2>1, <2>2, TopIs, Built
  <1>3. CASE InlineEnd
    <2>1. PICK proc \in {"inline", "inlinenext"} : In(proc)
      BY <1>3 DEF InlineEnd
    <2>2. heap' = [heap EXCEPT ![Top.node].readonly = TRUE] /\ Return
          /\ UNCHANGED <<curtab, work, result>>
      BY <1>3 DEF InlineEnd, Parses
    <2>3. TableIn(heap, Top.node) /\ Good(heap)
      BY <2>1, TopIs, FrameForms
    <2>4. Grows(heap, heap')
      BY <2>2, <2>3, ReadonlyGrows
    <2> QED
      BY <2>1, <2>2, <2>4, TopIs, Built
  <1>4. CASE InlineFail
    BY <1>4 DEF InlineFail
  <1> QED
    BY <1>1, <1>2, <1>3, <1>4 DEF Inline

LEMMA ArrayBuilds ==
    ASSUME Building, Array
    PROVE  Fail \/ (Building' /\ result' = "none" /\ Grows(heap, heap'))
  <1>1. CASE ArrayNewline
    <2>1. PICK proc \in {"array", "arraynext"} : In(proc)
      BY <1>1 DEF ArrayNewline
    <2>2. UNCHANGED <<heap, curtab, work, result, calls>>
      BY <1>1 DEF ArrayNewline, Parses, Keeps
    <2> QED
      BY <2>1, <2>2, TopIs, Built
  <1>2. CASE ArrayValue
    <2>1. /\ In("array") /\ Goto(Frame("arraynext", Top.node)) /\ UNCHANGED <<curtab, work, result>>
          /\ heap' = WithItem(SetKind(Top.node, "v"), Top.node, tok.word, 0, 0)
      BY <1>2 DEF ArrayValue, Parses, AfterItem, create_value_in_array
    <2>2. ArrayIn(heap, Top.node) /\ Good(heap)
      BY <2>1, TopIs, FrameForms
    <2>3. Grows(heap, heap')
      <3>1. heap' = [heap EXCEPT ![Top.node] =
                        AddedItem(heap[Top.node], "v", [val |-> tok.word, arr |-> 0, tab |-> 0])]
        BY <2>1, <2>2, ItemsAre
      <3> QED
        BY <2>2, <3>1, ItemGrows
    <2>4. FrameOK(heap', Frame("arraynext", Top.node))
      BY <2>2, <2>3, NodesGrow, FramesMade
    <2> QED
      BY <2>1, <2>3, <2>4, TopIs, Built
  <1>3. CASE ArrayArray
    <2> DEFINE h1 == SetKind(Top.node, "a")
    <2>1. /\ In("array") /\ UNCHANGED <<curtab, work, result>>
          /\ GoCall(Frame("arraynext", Top.node), Frame("array", Len(heap) + 1))
          /\ heap' = Append(WithItem(h1, Top.node, <<>>, Len(h1) + 1, 0), NewArray("0"))
      BY <1>3 DEF ArrayArray, Parses, AfterItem, create_array_in_array
    <2>2. ArrayIn(heap, Top.node) /\ Good(heap)
      BY <2>1, TopIs, FrameForms
    <2>3. Grows(heap, heap') /\ ArrayIn(heap', Len(heap) + 1)
      <3>1. heap' = Append([heap EXCEPT ![Top.node] =
                        AddedItem(heap[Top.node], "a", [val |-> <<>>, arr |-> Len(heap) + 1, tab |-> 0])], NewArray("0"))
        <4>1. Len(h1) = Len(heap)
          BY <2>2, ItemsAre
        <4>2. WithItem(h1, Top.node, <<>>, Len(heap) + 1, 0)
                = [heap EXCEPT ![Top.node] =
                        AddedItem(heap[Top.node], "a", [val |-> <<>>, arr |-> Len(heap) + 1, tab |-> 0])]
          BY <2>2, ItemsAre
        <4> HIDE DEF h1
        <4> QED
          BY <2>1, <4>1, <4>2
      <3> QED
        BY <2>2, <3>1, SubarrayGrows
    <2>4. FrameOK(heap', Frame("arraynext", Top.node)) /\ FrameOK(heap', Frame("array", Len(heap) + 1))
      BY <2>2, <2>3, NodesGrow, FramesMade
    <2> QED
      BY <2>1, <2>3, <2>4, TopIs, Built
  <1>4. CASE ArrayTable
    <2> DEFINE h1 == SetKind(Top.node, "t")
    <2>1. /\ In("array") /\ UNCHANGED <<curtab, work, result>>
          /\ GoCall(Frame("arraynext", Top.node), Frame("inline", Len(heap) + 1))
          /\ heap' = Append(WithItem(h1, Top.node, <<>>, 0, Len(h1) + 1), NewTable)
      BY <1>4 DEF ArrayTable, Parses, AfterItem, create_table_in_array
    <2>2. ArrayIn(heap, Top.node) /\ Good(heap)
      BY <2>1, TopIs, FrameForms
    <2>3. Grows(heap, heap') /\ TableIn(heap', Len(heap) + 1)
      <3>1. heap' = Append([heap EXCEPT ![Top.node] =
                        AddedItem(heap[Top.node], "t", [val |-> <<>>, arr |-> 0, tab |-> Len(heap) + 1])], NewTable)
        <4>1. Len(h1) = Len(heap)
          BY <2>2, ItemsAre
        <4>2. WithItem(h1, Top.node, <<>>, 0, Len(heap) + 1)
                = [heap EXCEPT ![Top.node] =
                        AddedItem(heap[Top.node], "t", [val |-> <<>>, arr |-> 0, tab |-> Len(heap) + 1])]
          BY <2>2, ItemsAre
        <4> HIDE DEF h1
        <4> QED
          BY <2>1, <4>1, <4>2
      <3> QED
        BY <2>2, <3>1, SubtableGrows
    <2>4. FrameOK(heap', Frame("arraynext", Top.node)) /\ FrameOK(heap', Frame("inline", Len(heap) + 1))
      BY <2>2, <2>3, NodesGrow, FramesMade
    <2> QED
      BY <2>1, <2>3, <2>4, TopIs, Built
  <1>5. CASE ArrayComma
    <2>1. In("arraynext") /\ UNCHANGED <<heap, curtab, work, result>>
          /\ Goto(Frame("array", Top.node))
      BY <1>5 DEF ArrayComma, Parses, Keeps
    <2>2. FrameOK(heap, Frame("array", Top.node))
      <3>1. ArrayIn(heap, Top.node)
        BY <2>1, TopIs, FrameForms
      <3> QED
        BY <3>1, FramesMade
    <2> QED
      BY <2>1, <2>2, TopIs, Built
  <1>6. CASE ArrayEnd
    <2>1. PICK proc \in {"array", "arraynext"} : In(proc)
      BY <1>6 DEF ArrayEnd
    <2>2. Return /\ UNCHANGED <<heap, curtab, work, result>>
      BY <1>6 DEF ArrayEnd, Parses, Keeps
    <2> QED
      BY <2>1, <2>2, TopIs, Built
  <1>7. CASE ArrayFail
    BY <1>7 DEF ArrayFail
  <1> QED
    BY <1>1, <1>2, <1>3, <1>4, <1>5, <1>6, <1>7 DEF Array

LEMMA GivingUp == ASSUME Building, Fail PROVE GivesUp
  <1>1. heap' = heap
    BY DEF Fail, FailWith
  <1> QED
    BY <1>1, GrowsSelf DEF Building, Fail, GivesUp

LEMMA SelectBuilds ==
    ASSUME Building, Select
    PROVE  GivesUp \/ (Building' /\ result' = "none" /\ Grows(heap, heap'))
  <1>1. CASE SelectBracket \/ PathDot
    <2> DEFINE f == [Top EXCEPT !.proc = "path"]
    <2>1. PICK proc \in {"bracket", "pathnext"} : In(proc)
      BY <1>1 DEF SelectBracket, PathDot
    <2>2. Goto(f) /\ UNCHANGED <<heap, curtab, work, result>>
      BY <1>1 DEF SelectBracket, PathDot, Parses, Keeps
    <2>3. f = [proc |-> "path", llb |-> Top.llb, path |-> Top.path] /\ IsSeq(Top.path)
      BY <2>1, TopIs, FrameForms
    <2> HIDE DEF f
    <2>4. FrameOK(heap, f)
      BY <2>3, FramesMade
    <2> QED
      BY <2>1, <2>2, <2>4, TopIs, Built
  <1>2. CASE PathKey
    <2> DEFINE path == Append(Top.path, normalize_key(tok.word))
               f == [Top EXCEPT !.proc = "pathnext", !.path = path]
    <2>1. In("path")
      BY <1>2 DEF PathKey
    <2>2. /\ IsSeq(Top.path)
          /\ \A x, y : [Top EXCEPT !.proc = x, !.path = y]
                            = [proc |-> x, llb |-> Top.llb, path |-> y]
      BY <2>1, TopIs, FrameForms
    <2>3. CASE ~Fail
      <3>1. Goto(f) /\ UNCHANGED <<heap, curtab, work, result>>
        BY <1>2, <2>2, <2>3 DEF PathKey, Parses, Keeps
      <3>2. f = [proc |-> "pathnext", llb |-> Top.llb, path |-> path] /\ IsSeq(path)
        BY <2>2, AppendIs
      <3> HIDE DEF f, path
      <3>3. FrameOK(heap, f)
        BY <3>2, FramesMade
      <3> QED
        BY <2>1, <3>1, <3>3, TopIs, Built
    <2> QED
      BY <2>3, GivingUp
  <1>3. CASE PathFail
    BY <1>3, GivingUp DEF PathFail
  <1>4. CASE SelectEnd
    <2> DEFINE proc == IF Top.llb THEN "close" ELSE "selected"
               f == [Top EXCEPT !.proc = proc]
    <2>1. In("pathnext")
      BY <1>4 DEF SelectEnd
    <2>2. /\ f = [proc |-> proc, llb |-> Top.llb, path |-> Top.path]
          /\ IsSeq(Top.path) /\ Good(heap)
      BY <2>1, TopIs, FrameForms
    <2>3. CASE ~FailWith(Selected.heap)
      <3>1. /\ Selected.node # 0 /\ heap' = Selected.heap /\ curtab' = Selected.node
            /\ Goto(f) /\ UNCHANGED <<work, result>>
        BY <1>4, <2>3 DEF SelectEnd, Parses
      <3>2. Grows(heap, heap') /\ TableIn(heap', curtab')
        BY <2>2, <3>1, SelectedGrows
      <3>3. proc \in {"close", "selected"}
        OBVIOUS
      <3> HIDE DEF f, proc
      <3>4. FrameOK(heap', f)
        BY <2>2, <3>3, FramesMade
      <3> QED
        BY <2>1, <3>1, <3>2, <3>4, TopIs, Built
    <2>4. CASE FailWith(Selected.heap)
      <3>1. Grows(heap, Selected.heap) /\ heap' = Selected.heap
        BY <2>2, <2>4, SelectedGrows DEF FailWith
      <3> QED
        BY <2>4, <3>1 DEF GivesUp
    <2> QED
      BY <2>3, <2>4
  <1>5. CASE SelectClose
    <2> DEFINE f == [Top EXCEPT !.proc = "selected"]
    <2>1. In("close") /\ Goto(f) /\ UNCHANGED <<heap, curtab, work, result>>
      BY <1>5 DEF SelectClose, Parses, Keeps
    <2>2. f = [proc |-> "selected", llb |-> Top.llb, path |-> Top.path] /\ IsSeq(Top.path)
      BY <2>1, TopIs, FrameForms
    <2> HIDE DEF f
    <2>3. FrameOK(heap, f)
      BY <2>2, FramesMade
    <2> QED
      BY <2>1, <2>3, TopIs, Built
  <1>6. CASE SelectLine
    <2>1. CASE Is("NEWLINE")
      <3>1. In("selected") /\ Return /\ UNCHANGED <<heap, curtab, work, result>>
        BY <1>6, <2>1 DEF SelectLine, Parses, Keeps
      <3> QED
        BY <3>1, TopIs, Built
    <2>2. CASE ~Is("NEWLINE")
      BY <1>6, <2>2, GivingUp DEF SelectLine
    <2> QED
      BY <2>1, <2>2
  <1> QED
    BY <1>1, <1>2, <1>3, <1>4, <1>5, <1>6 DEF Select

-----------------------------------------------------------------------------
(* toml_free: what is pending is what nothing points to any more.           *)

Loose(h, m) == m \in 1 .. Len(h) /\ h[m] # Freed /\ ~Owned(h, m)

Pending(h, w) ==
    /\ w \in Seq(Nat)
    /\ \A i \in 1 .. Len(w) : w[i] # 0 => Loose(h, w[i])
    /\ \A i, j \in 1 .. Len(w) : w[i] # 0 /\ w[i] = w[j] => i = j
    /\ \A m : Loose(h, m) => (\E i \in 1 .. Len(w) : w[i] = m) \/ (m = 1 /\ w = <<>>)

\* The nodes that are freed next are those that t points to, each once.
LEMMA ChildrenArePoints ==
    ASSUME NEW t, TableForm(t) \/ ArrayForm(t),
           \A p \in Points(t) : p[3] \in Nat \ {0},
           \A p, q \in Points(t) : p[3] = q[3] => p = q
    PROVE  /\ Children(t) \in Seq(Nat)
           /\ \A k \in 1 .. Len(Children(t)) : Children(t)[k] # 0 =>
                    \E p \in Points(t) : p[3] = Children(t)[k]
           /\ \A p \in Points(t) : \E k \in 1 .. Len(Children(t)) : Children(t)[k] = p[3]
           /\ \A k, l \in 1 .. Len(Children(t)) :
                    Children(t)[k] # 0 /\ Children(t)[k] = Children(t)[l] => k = l
  <1> DEFINE c == Children(t)
  <1>1. CASE TableForm(t)
    <2> DEFINE a == Nodes(t.arr)
               b == Nodes(t.tab)
               m == Len(t.arr)
               n == Len(t.tab)
               arr(i) == <<"arr", i, t.arr[i].node, "array">>
               tab(i) == <<"tab", i, t.tab[i].node, "table">>
    <2>1. m \in Nat /\ n \in Nat /\ t.node = "table"
      BY <1>1, SeqIs DEF TableForm
    <2>2. Points(t) = {arr(i) : i \in 1 .. m} \cup {tab(i) : i \in 1 .. n}
      BY <2>1 DEF Points
    <2>3. /\ \A i \in 1 .. m : arr(i) \in Points(t) /\ arr(i)[3] = t.arr[i].node
          /\ \A i \in 1 .. n : tab(i) \in Points(t) /\ tab(i)[3] = t.tab[i].node
      BY <2>2
    <2>4. a \in [1 .. m -> Nat] /\ b \in [1 .. n -> Nat]
      BY <2>3 DEF Nodes
    <2>5. /\ a \in Seq(Nat) /\ Len(a) = m /\ b \in Seq(Nat) /\ Len(b) = n
          /\ \A i \in 1 .. m : a[i] = t.arr[i].node
          /\ \A i \in 1 .. n : b[i] = t.tab[i].node
      BY <2>1, <2>4, FunIsSeq DEF Nodes
    <2>6. c = a \o b
      BY <2>1 DEF Children
    <2> HIDE DEF a, b, c
    <2>7. /\ c \in Seq(Nat) /\ Len(c) = m + n
          /\ \A i \in 1 .. m + n : c[i] = IF i <= m THEN a[i] ELSE b[i - m]
      <3>1. a \in Seq(Nat) /\ b \in Seq(Nat) /\ Len(a) = m /\ Len(b) = n
        BY <2>5
      <3> HIDE DEF m, n
      <3>2. /\ a \o b \in Seq(Nat) /\ Len(a \o b) = Len(a) + Len(b)
            /\ \A i \in 1 .. Len(a) + Len(b) :
                  (a \o b)[i] = IF i <= Len(a) THEN a[i] ELSE b[i - Len(a)]
        BY <3>1, ConcatIs
      <3> QED
        BY <2>6, <3>1, <3>2
    <2>8. /\ \A i, j \in 1 .. m : arr(i) = arr(j) => i = j
          /\ \A i, j \in 1 .. n : tab(i) = tab(j) => i = j
          /\ \A i \in 1 .. m, j \in 1 .. n : arr(i) # tab(j)
      OBVIOUS
    <2> HIDE DEF arr, tab, m, n
    <2> DEFINE place(k) == IF k <= m THEN arr(k) ELSE tab(k - m)
    <2>9. \A k \in 1 .. m + n : /\ place(k) \in Points(t) /\ place(k)[3] = c[k]
      <3> TAKE k \in 1 .. m + n
      <3>1. CASE k <= m
        <4>1. k \in 1 .. m
          BY <2>1, <3>1
        <4> QED
          BY <2>3, <2>5, <2>7, <3>1, <4>1
      <3>2. CASE ~(k <= m)
        <4>1. k - m \in 1 .. n
          BY <2>1, <3>2
        <4> QED
          BY <2>3, <2>5, <2>7, <3>2, <4>1
      <3> QED
        BY <3>1, <3>2
    <2>10. \A k, l \in 1 .. m + n : place(k) = place(l) => k = l
      <3> SUFFICES ASSUME NEW k \in 1 .. m + n, NEW l \in 1 .. m + n, place(k) = place(l)
                   PROVE  k = l
        OBVIOUS
      <3>1. /\ k <= m => k \in 1 .. m
            /\ ~(k <= m) => k - m \in 1 .. n
            /\ l <= m => l \in 1 .. m
            /\ ~(l <= m) => l - m \in 1 .. n
        BY <2>1
      <3>2. (k <= m) <=> (l <= m)
        BY <2>8, <3>1
      <3>3. CASE k <= m
        BY <2>8, <3>1, <3>2, <3>3
      <3>4. CASE ~(k <= m)
        <4>1. k - m = l - m
          BY <2>8, <3>1, <3>2, <3>4
        <4> QED
          BY <2>1, <4>1
      <3> QED
        BY <3>3, <3>4
    <2>11. \A p \in Points(t) : \E k \in 1 .. m + n : c[k] = p[3]
      <3> SUFFICES ASSUME NEW p \in Points(t) PROVE \E k \in 1 .. m + n : c[k] = p[3]
        OBVIOUS
      <3>1. CASE \E i \in 1 .. m : p = arr(i)
        <4>1. PICK i \in 1 .. m : p = arr(i)
          BY <3>1
        <4>2. i \in 1 .. m + n /\ i <= m
          BY <2>1
        <4> QED
          BY <2>9, <4>1, <4>2
      <3>2. CASE \E i \in 1 .. n : p = tab(i)
        <4>1. PICK i \in 1 .. n : p = tab(i)
          BY <3>2
        <4> DEFINE k == m + i
        <4>2. k \in 1 .. m + n /\ ~(k <= m) /\ k - m = i
          BY <2>1
        <4> HIDE DEF k
        <4>3. place(k) = tab(i)
          BY <4>2
        <4> QED
          BY <2>9, <4>1, <4>2, <4>3
      <3> QED
        BY <2>2, <3>1, <3>2
    <2> HIDE DEF place
    <2>12. \A k, l \in 1 .. m + n : c[k] = c[l] => k = l
      BY <2>9, <2>10
    <2> QED
      BY <2>7, <2>9, <2>11, <2>12 DEF c
  <1>2. CASE ArrayForm(t)
    <2> DEFINE n == Len(t.item)
               node(i) == NodeIn(t.item[i])
               type(i) == IF t.item[i].arr # 0 THEN "array" ELSE "table"
               place(i) == <<"item", i, node(i), type(i)>>
    <2>1. n \in Nat /\ t.node = "array"
      BY <1>2, SeqIs DEF ArrayForm
    <2>2. \A i \in 1 .. n : /\ t.item[i].arr # 0 => node(i) = t.item[i].arr
                            /\ t.item[i].tab # 0 => node(i) = t.item[i].tab
                            /\ t.item[i].tab # 0 => t.item[i].arr = 0
                            /\ node(i) # 0 => t.item[i].arr # 0 \/ t.item[i].tab # 0
                            /\ node(i) \in Nat
      <3> SUFFICES ASSUME NEW i \in 1 .. n
                   PROVE  LET item == t.item[i]
                          IN /\ item.arr # 0 => NodeIn(item) = item.arr
                             /\ item.tab # 0 => NodeIn(item) = item.tab
                             /\ item.tab # 0 => item.arr = 0
                             /\ NodeIn(item) # 0 => item.arr # 0 \/ item.tab # 0
                             /\ NodeIn(item) \in Nat
        OBVIOUS
      <3>1. ItemForm(t.item[i], t.kind)
        BY <1>2 DEF ArrayForm
      <3> DEFINE item == t.item[i]
      <3>2. \/ item.arr = 0 /\ item.tab = 0
            \/ item.val = <<>> /\ item.arr \in Nat \ {0} /\ item.tab = 0
            \/ item.val = <<>> /\ item.arr = 0 /\ item.tab \in Nat \ {0}
        BY <3>1 DEF ItemForm
      <3> HIDE DEF item, n
      <3>3. /\ item.arr # 0 => NodeIn(item) = item.arr
            /\ item.tab # 0 => NodeIn(item) = item.tab
            /\ item.tab # 0 => item.arr = 0
            /\ NodeIn(item) # 0 => item.arr # 0 \/ item.tab # 0
            /\ NodeIn(item) \in Nat
        BY <3>2 DEF NodeIn
      <3> QED
        BY <3>3 DEF item
    <2>3. Points(t) = {<<"item", i, t.item[i].arr, "array">> :
                            i \in {j \in 1 .. n : t.item[j].arr # 0}}
                      \cup {<<"item", i, t.item[i].tab, "table">> :
                            i \in {j \in 1 .. n : t.item[j].tab # 0}}
      BY <2>1 DEF Points
    <2>4. c = [i \in 1 .. n |-> node(i)]
      BY <2>1 DEF Children
    <2> HIDE DEF node, c
    <2>5. c \in [1 .. n -> Nat] /\ \A i \in 1 .. n : c[i] = node(i)
      BY <2>2, <2>4
    <2>6. c \in Seq(Nat) /\ Len(c) = n
      BY <2>1, <2>5, FunIsSeq
    <2> HIDE DEF n
    <2>7. \A i \in 1 .. n : node(i) # 0 => place(i) \in Points(t)
      BY <2>2, <2>3
    <2>8. \A p \in Points(t) : \E i \in 1 .. n : p[3] = node(i)
      BY <2>2, <2>3
    <2>9. \A i, j \in 1 .. n : /\ place(i)[3] = node(i)
                               /\ place(i) = place(j) => i = j
      OBVIOUS
    <2> HIDE DEF place
    <2>10. \A k, l \in 1 .. n : c[k] # 0 /\ c[k] = c[l] => k = l
      BY <2>5, <2>7, <2>9
    <2>11. \A k \in 1 .. n : c[k] # 0 => \E p \in Points(t) : p[3] = c[k]
      BY <2>5, <2>7, <2>9
    <2>12. \A p \in Points(t) : \E k \in 1 .. n : c[k] = p[3]
      BY <2>5, <2>8
    <2> QED
      BY <2>6, <2>10, <2>11, <2>12 DEF c
  <1> QED
    BY <1>1, <1>2

\* What a place points to is a node, of a type.
LEMMA PlacesSay ==
    ASSUME NEW t, NEW p \in Points(t) PROVE p[4] \in {"array", "table"}
  BY DEF Points

\* A node that nothing points to is freed: what it pointed to is loose.
LEMMA FreedTree ==
    ASSUME NEW h, Tree(h), NEW n, Loose(h, n), NEW h2, h2 = [h EXCEPT ![n] = Freed]
    PROVE  /\ Tree(h2) /\ Len(h2) = Len(h)
           /\ \A m : Loose(h, m) /\ m # n => Loose(h2, m)
           /\ \A p \in Points(h[n]) : Loose(h2, p[3]) /\ ~Loose(h, p[3])
           /\ \A m : Loose(h2, m) => /\ m # n
                                     /\ \/ Loose(h, m)
                                        \/ \E p \in Points(h[n]) : p[3] = m
  <1>1. n \in 1 .. Len(h) /\ h[n] # Freed /\ ~Owned(h, n)
    BY DEF Loose
  <1>2. /\ IsSeq(h2) /\ Len(h2) = Len(h) /\ Len(h) \in Nat /\ Len(h) >= 1
        /\ \A i \in 1 .. Len(h) : h2[i] = IF i = n THEN Freed ELSE h[i]
    BY <1>1, ExceptIs, SeqIs DEF Tree
  <1>3. Points(Freed) = {} /\ Freed.node = "freed" /\ Form(Freed)
    BY DEF Points, Freed, Form
  <1>4. \A i \in 1 .. Len(h) : Points(h2[i]) = IF i = n THEN {} ELSE Points(h[i])
    <2> TAKE i \in 1 .. Len(h)
    <2>1. h2[i] = IF i = n THEN Freed ELSE h[i]
      BY <1>2
    <2>2. CASE i = n
      <3>1. h2[i] = Freed
        BY <2>1, <2>2
      <3> QED
        BY <1>3, <2>2, <3>1
    <2>3. CASE i # n
      <3>1. h2[i] = h[i]
        BY <2>1, <2>3
      <3> QED
        BY <2>3, <3>1
    <2> QED
      BY <2>2, <2>3
  <1>5. \A i \in 1 .. Len(h) : \A p \in Points(h[i]) :
            /\ p[3] \in i + 1 .. Len(h) /\ p[3] \in 1 .. Len(h) /\ p[3] # n
            /\ h2[p[3]] = h[p[3]] /\ h[p[3]].node = p[4] /\ h[p[3]] # Freed
    <2> SUFFICES ASSUME NEW i \in 1 .. Len(h), NEW p \in Points(h[i])
                 PROVE  /\ p[3] \in i + 1 .. Len(h) /\ p[3] \in 1 .. Len(h) /\ p[3] # n
                        /\ h2[p[3]] = h[p[3]] /\ h[p[3]].node = p[4] /\ h[p[3]] # Freed
      OBVIOUS
    <2>1. p[3] \in i + 1 .. Len(h) /\ h[p[3]].node = p[4]
      BY DEF Tree, Downward
    <2>2. p[3] # n
      BY <1>1 DEF Owned
    <2>3. p[3] \in 1 .. Len(h)
      BY <1>2, <2>1
    <2>4. h[p[3]] # Freed
      BY <1>3, <2>1, PlacesSay
    <2> QED
      BY <1>2, <2>1, <2>2, <2>3, <2>4
  <1>6. Tree(h2)
    <2>1. \A i \in 1 .. Len(h) : Form(h2[i])
      BY <1>2, <1>3 DEF Tree
    <2>2. Downward(h2)
      BY <1>2, <1>4, <1>5 DEF Downward
    <2>3. OneOwner(h2)
      BY <1>2, <1>4 DEF Tree, OneOwner
    <2> QED
      BY <1>2, <2>1, <2>2, <2>3 DEF Tree
  <1>7. \A m : Owned(h2, m) => Owned(h, m)
    BY <1>2, <1>4 DEF Owned
  <1>8. \A p \in Points(h[n]) : ~Owned(h2, p[3])
    <2> SUFFICES ASSUME NEW p \in Points(h[n]), NEW i \in 1 .. Len(h),
                        NEW q \in Points(h2[i]), q[3] = p[3]
                 PROVE  FALSE
      BY <1>2 DEF Owned
    <2>1. i # n /\ q \in Points(h[i])
      BY <1>4
    <2> QED
      BY <1>1, <2>1 DEF Tree, OneOwner
  <1>9. \A m : Owned(h, m) /\ ~Owned(h2, m) => \E p \in Points(h[n]) : p[3] = m
    BY <1>2, <1>4 DEF Owned
  <1>10. \A m : Loose(h, m) /\ m # n => Loose(h2, m)
    BY <1>2, <1>7 DEF Loose
  <1>11. \A p \in Points(h[n]) : Loose(h2, p[3]) /\ ~Loose(h, p[3])
    <2> TAKE p \in Points(h[n])
    <2>1. Loose(h2, p[3])
      BY <1>1, <1>2, <1>5, <1>8 DEF Loose
    <2>2. Owned(h, p[3])
      BY <1>1 DEF Owned
    <2> QED
      BY <2>1, <2>2 DEF Loose
  <1>12. ASSUME NEW m, Loose(h2, m)
         PROVE  m # n /\ (Loose(h, m) \/ \E p \in Points(h[n]) : p[3] = m)
    <2>1. m \in 1 .. Len(h) /\ h2[m] # Freed /\ ~Owned(h2, m)
      BY <1>2, <1>12 DEF Loose
    <2>2. m # n /\ h[m] # Freed
      BY <1>2, <2>1
    <2>3. CASE Owned(h, m)
      BY <1>9, <2>1, <2>2, <2>3
    <2>4. CASE ~Owned(h, m)
      BY <2>1, <2>2, <2>4 DEF Loose
    <2> QED
      BY <2>3, <2>4
  <1> QED
    BY <1>2, <1>6, <1>10, <1>11, <1>12

\* The rest of the list.
LEMMA RestIs ==
    ASSUME NEW w \in Seq(Nat), w # <<>>
    PROVE  /\ Tail(w) \in Seq(Nat) /\ Len(Tail(w)) = Len(w) - 1 /\ Len(w) \in Nat \ {0}
           /\ \A k \in 1 .. Len(w) - 1 : Tail(w)[k] = w[k + 1]
           /\ Head(w) = w[1] /\ Head(w) \in Nat
  OBVIOUS

\* xfree_tab and xfree_arr: the node goes, and what it owned is freed next.
LEMMA FreeStep ==
    ASSUME Tree(heap), Pending(heap, work), FreeNode
    PROVE  Tree(heap') /\ Pending(heap', work') /\ Len(heap') = Len(heap)
  <1> DEFINE n == Head(work)
             l == Len(work)
  <1>1. /\ work \in Seq(Nat) /\ work # <<>>
        /\ \A i \in 1 .. l : work[i] # 0 => Loose(heap, work[i])
        /\ \A i, j \in 1 .. l : work[i] # 0 /\ work[i] = work[j] => i = j
        /\ \A m : Loose(heap, m) => \E i \in 1 .. l : work[i] = m
    BY DEF Pending, FreeNode
  <1>2. /\ Tail(work) \in Seq(Nat) /\ Len(Tail(work)) = l - 1 /\ l \in Nat \ {0}
        /\ \A k \in 1 .. l - 1 : Tail(work)[k] = work[k + 1]
        /\ n = work[1] /\ n \in Nat
    BY <1>1, RestIs
  <1> DEFINE rest == Tail(work)
  <1> HIDE DEF n, l, rest
  <1>3. /\ \A k \in 1 .. l - 1 : k + 1 \in 1 .. l /\ k + 1 # 1
        /\ \A i \in 1 .. l : i # 1 => i - 1 \in 1 .. l - 1 /\ i - 1 + 1 = i
        /\ 1 \in 1 .. l
    BY <1>2
  <1>4. /\ rest \in Seq(Nat) /\ Len(rest) = l - 1
        /\ \A k \in 1 .. l - 1 : rest[k] = work[k + 1]
    BY <1>2 DEF rest
  <1>5. CASE n = 0
    <2>1. work' = rest /\ heap' = heap
      BY <1>5 DEF FreeNode, n, rest
    <2>2. \A i \in 1 .. l - 1 : rest[i] # 0 => Loose(heap, rest[i])
      BY <1>1, <1>3, <1>4
    <2>3. \A i, j \in 1 .. l - 1 : rest[i] # 0 /\ rest[i] = rest[j] => i = j
      <3> TAKE i, j \in 1 .. l - 1
      <3>1. rest[i] = work[i + 1] /\ rest[j] = work[j + 1]
        BY <1>4
      <3>2. i + 1 \in 1 .. l /\ j + 1 \in 1 .. l
        BY <1>3
      <3>3. rest[i] # 0 /\ rest[i] = rest[j] => i + 1 = j + 1
        BY <1>1, <3>1, <3>2
      <3> QED
        BY <1>2, <3>3
    <2>4. ASSUME NEW m, Loose(heap, m) PROVE \E i \in 1 .. l - 1 : rest[i] = m
      <3>1. PICK i \in 1 .. l : work[i] = m
        BY <1>1, <2>4
      <3>2. m # 0
        <4>1. m \in 1 .. Len(heap)
          BY <2>4 DEF Loose
        <4> QED
          BY <4>1
      <3>3. i # 1
        BY <1>2, <1>5, <3>1, <3>2
      <3> QED
        BY <1>3, <1>4, <3>1, <3>3
    <2>5. Pending(heap, rest)
      BY <1>4, <2>2, <2>3, <2>4 DEF Pending
    <2> QED
      BY <2>1, <2>5
  <1>6. CASE n # 0
    <2> DEFINE c == Children(heap[n])
               h2 == [heap EXCEPT ![n] = Freed]
               w == c \o rest
               len == Len(c)
    <2>1. heap' = h2 /\ work' = w
      BY <1>6 DEF FreeNode, n, rest
    <2>2. Loose(heap, n)
      BY <1>1, <1>2, <1>3, <1>6
    <2>3. /\ Tree(h2) /\ Len(h2) = Len(heap)
          /\ \A m : Loose(heap, m) /\ m # n => Loose(h2, m)
          /\ \A p \in Points(heap[n]) : Loose(h2, p[3]) /\ ~Loose(heap, p[3])
          /\ \A m : Loose(h2, m) => /\ m # n
                                    /\ \/ Loose(heap, m)
                                       \/ \E p \in Points(heap[n]) : p[3] = m
      BY <2>2, FreedTree
    <2>4. /\ c \in Seq(Nat)
          /\ \A k \in 1 .. len : c[k] # 0 => \E p \in Points(heap[n]) : p[3] = c[k]
          /\ \A p \in Points(heap[n]) : \E k \in 1 .. len : c[k] = p[3]
          /\ \A k, j \in 1 .. len : c[k] # 0 /\ c[k] = c[j] => k = j
      <3>1. n \in 1 .. Len(heap) /\ heap[n] # Freed /\ Len(heap) \in Nat
        BY <2>2, SeqIs DEF Loose, Tree
      <3>2. TableForm(heap[n]) \/ ArrayForm(heap[n])
        BY <3>1 DEF Tree, Form
      <3>3. \A p \in Points(heap[n]) : p[3] \in Nat \ {0}
        BY <3>1 DEF Tree, Downward
      <3>4. \A p, q \in Points(heap[n]) : p[3] = q[3] => p = q
        BY <3>1 DEF Tree, OneOwner
      <3> DEFINE t == heap[n]
      <3>5. c = Children(t) /\ len = Len(c)
        OBVIOUS
      <3>6. /\ TableForm(t) \/ ArrayForm(t)
            /\ \A p \in Points(t) : p[3] \in Nat \ {0}
            /\ \A p, q \in Points(t) : p[3] = q[3] => p = q
        BY <3>2, <3>3, <3>4
      <3> HIDE DEF t, c, len
      <3>7. /\ Children(t) \in Seq(Nat)
            /\ \A k \in 1 .. Len(Children(t)) : Children(t)[k] # 0 =>
                     \E p \in Points(t) : p[3] = Children(t)[k]
            /\ \A p \in Points(t) : \E k \in 1 .. Len(Children(t)) : Children(t)[k] = p[3]
            /\ \A k, j \in 1 .. Len(Children(t)) :
                     Children(t)[k] # 0 /\ Children(t)[k] = Children(t)[j] => k = j
        BY <3>6, ChildrenArePoints, Zenon
      <3> QED
        BY <3>5, <3>7 DEF t
    <2> HIDE DEF h2, c, w
    <2>5. /\ w \in Seq(Nat) /\ Len(w) = len + (l - 1) /\ len \in Nat
          /\ \A i \in 1 .. len + (l - 1) : w[i] = IF i <= len THEN c[i] ELSE rest[i - len]
      <3>1. len \in Nat /\ Len(rest) = l - 1 /\ rest \in Seq(Nat) /\ w = c \o rest
        BY <1>4, <2>4 DEF w
      <3>2. /\ c \o rest \in Seq(Nat) /\ Len(c \o rest) = len + (l - 1)
            /\ \A i \in 1 .. len + (l - 1) :
                  (c \o rest)[i] = IF i <= len THEN c[i] ELSE rest[i - len]
        <4> HIDE DEF rest
        <4> QED
          BY <2>4, <3>1, ConcatIs
      <3> QED
        BY <3>1, <3>2
    <2> HIDE DEF len
    <2>6. /\ \A i \in 1 .. len : i \in 1 .. len + (l - 1) /\ w[i] = c[i]
          /\ \A i \in 1 .. len + (l - 1) : i <= len => i \in 1 .. len /\ w[i] = c[i]
          /\ \A i \in 1 .. len + (l - 1) : ~(i <= len) =>
                /\ i - len + 1 \in 1 .. l /\ i - len + 1 # 1
                /\ w[i] = work[i - len + 1]
          /\ \A i \in 1 .. l : i # 1 =>
                /\ len + (i - 1) \in 1 .. len + (l - 1)
                /\ w[len + (i - 1)] = work[i]
      <3>1. \A i \in 1 .. len : i \in 1 .. len + (l - 1) /\ w[i] = c[i]
        BY <1>2, <2>5
      <3>2. \A i \in 1 .. len + (l - 1) : i <= len => i \in 1 .. len /\ w[i] = c[i]
        BY <1>2, <2>5, SMTT(30)
      <3>3. ASSUME NEW i \in 1 .. len + (l - 1), ~(i <= len)
            PROVE  /\ i - len + 1 \in 1 .. l /\ i - len + 1 # 1
                   /\ w[i] = work[i - len + 1]
        <4>1. i - len \in 1 .. l - 1 /\ i - len + 1 \in 1 .. l /\ i - len + 1 # 1
          BY <1>2, <2>5, <3>3
        <4> QED
          BY <1>4, <2>5, <3>3, <4>1
      <3>4. ASSUME NEW i \in 1 .. l, i # 1
            PROVE  /\ len + (i - 1) \in 1 .. len + (l - 1)
                   /\ w[len + (i - 1)] = work[i]
        <4> DEFINE k == len + (i - 1)
        <4>1. /\ k \in 1 .. len + (l - 1) /\ ~(k <= len) /\ k - len = i - 1
              /\ i - 1 \in 1 .. l - 1 /\ (i - 1) + 1 = i
          BY <1>2, <2>5, <3>4
        <4> HIDE DEF k
        <4>2. w[k] = rest[i - 1]
          BY <2>5, <4>1
        <4>3. rest[i - 1] = work[i]
          BY <1>4, <4>1
        <4> QED
          BY <4>1, <4>2, <4>3 DEF k
      <3> QED
        BY <3>1, <3>2, <3>3, <3>4
    <2>7. ASSUME NEW i \in 1 .. l, i # 1, work[i] # 0
          PROVE  Loose(heap, work[i]) /\ work[i] # n
      BY <1>1, <1>2, <1>3, <2>7
    <2>8. ASSUME NEW i \in 1 .. len + (l - 1), w[i] # 0
          PROVE  /\ Loose(h2, w[i])
                 /\ i <= len <=> ~Loose(heap, w[i])
      <3>1. CASE i <= len
        <4>1. w[i] = c[i] /\ i \in 1 .. len
          BY <2>6, <3>1
        <4>2. PICK p \in Points(heap[n]) : p[3] = w[i]
          BY <2>4, <2>8, <4>1
        <4> QED
          BY <2>3, <3>1, <4>2
      <3>2. CASE ~(i <= len)
        <4>1. PICK j \in 1 .. l : j # 1 /\ w[i] = work[j]
          BY <2>6, <3>2
        <4>2. Loose(heap, w[i]) /\ w[i] # n
          BY <2>7, <2>8, <4>1
        <4> QED
          BY <2>3, <3>2, <4>2
      <3> QED
        BY <3>1, <3>2
    <2>9. ASSUME NEW i \in 1 .. len + (l - 1), NEW j \in 1 .. len + (l - 1),
                 w[i] # 0, w[i] = w[j]
          PROVE  i = j
      <3>1. (i <= len) <=> (j <= len)
        BY <2>8, <2>9
      <3>2. CASE i <= len
        BY <2>4, <2>6, <2>9, <3>1, <3>2
      <3>3. CASE ~(i <= len)
        <4> DEFINE a == i - len + 1
                   b == j - len + 1
        <4>1. /\ a \in 1 .. l /\ w[i] = work[a]
              /\ b \in 1 .. l /\ w[j] = work[b]
          BY <2>6, <3>1, <3>3
        <4> HIDE DEF a, b
        <4>2. a = b
          BY <1>1, <2>9, <4>1
        <4>3. i - len + 1 = j - len + 1
          BY <4>2 DEF a, b
        <4> QED
          BY <2>5, <4>3
      <3> QED
        BY <3>2, <3>3
    <2>10. ASSUME NEW m, Loose(h2, m)
           PROVE  \E i \in 1 .. len + (l - 1) : w[i] = m
      <3>1. CASE Loose(heap, m)
        <4>1. PICK i \in 1 .. l : work[i] = m
          BY <1>1, <3>1
        <4>2. i # 1
          BY <1>2, <2>3, <2>10, <4>1
        <4>3. len + (i - 1) \in 1 .. len + (l - 1) /\ w[len + (i - 1)] = m
          BY <2>6, <4>1, <4>2
        <4> QED
          BY <4>3
      <3>2. CASE \E p \in Points(heap[n]) : p[3] = m
        <4>1. PICK k \in 1 .. len : c[k] = m
          BY <2>4, <3>2
        <4> QED
          BY <2>6, <4>1
      <3> QED
        BY <2>3, <2>10, <3>1, <3>2
    <2>11. Pending(h2, w)
      BY <2>5, <2>8, <2>9, <2>10 DEF Pending
    <2> QED
      BY <2>1, <2>3, <2>11
  <1> QED
    BY <1>5, <1>6

\* Nothing points to the root.
LEMMA RootIsLoose ==
    ASSUME NEW h, Tree(h), h[1] # Freed PROVE Loose(h, 1)
  <1>1. Len(h) \in Nat /\ Len(h) >= 1
    BY SeqIs DEF Tree
  <1>2. ~Owned(h, 1)
    <2> SUFFICES ASSUME NEW n \in 1 .. Len(h), NEW p \in Points(h[n]), p[3] = 1
                 PROVE  FALSE
      BY DEF Owned
    <2>1. p[3] \in n + 1 .. Len(h)
      BY DEF Tree, Downward
    <2> QED
      BY <1>1, <2>1
  <1> QED
    BY <1>1, <1>2 DEF Loose

\* A whole tree is freed from its root.
LEMMA RootPends ==
    ASSUME NEW h, Tree(h), h[1] # Freed, \A m : Loose(h, m) => m = 1
    PROVE  Pending(h, <<>>) /\ Pending(h, <<1>>)
  <1>1. <<>> \in Seq(Nat) /\ Len(<<>>) = 0
    OBVIOUS
  <1>2. <<1>> \in Seq(Nat) /\ Len(<<1>>) = 1 /\ <<1>>[1] = 1
    OBVIOUS
  <1>3. Pending(h, <<>>)
    BY <1>1 DEF Pending
  <1>4. Pending(h, <<1>>)
    <2> DEFINE w == <<1>>
    <2>1. w \in Seq(Nat) /\ Len(w) = 1 /\ w[1] = 1
      BY <1>2
    <2> HIDE DEF w
    <2>2. \A i \in 1 .. Len(w) : i = 1
      BY <2>1
    <2>3. 1 \in 1 .. Len(w)
      BY <2>1
    <2>4. Loose(h, 1)
      BY RootIsLoose
    <2>5. Pending(h, w)
      BY <2>1, <2>2, <2>3, <2>4 DEF Pending
    <2> QED
      BY <2>5 DEF w
  <1> QED
    BY <1>3, <1>4

\* A tree that is being built waits for toml_free to be called on its root.
LEMMA GoodPends ==
    ASSUME NEW h, Good(h) PROVE Tree(h) /\ Pending(h, <<>>) /\ Pending(h, <<1>>)
  <1>1. Tree(h) /\ Len(h) \in Nat /\ Len(h) >= 1
    BY SeqIs DEF Good, Tree
  <1>2. h[1] # Freed
    BY <1>1 DEF Good
  <1>3. ASSUME NEW m, Loose(h, m) PROVE m = 1
    <2>1. m \in 1 .. Len(h) /\ ~Owned(h, m)
      BY <1>3 DEF Loose
    <2>2. m \notin 2 .. Len(h)
      BY <2>1 DEF Good
    <2> QED
      BY <1>1, <2>1, <2>2
  <1> QED
    BY <1>1, <1>2, <1>3, RootPends

-----------------------------------------------------------------------------
(* The invariant: the token, the tree, what is still to be freed, and the   *)
(* calls of the descent for as long as there are any.                       *)

TokOK == tok.eof => Is("NEWLINE") /\ closed

PInv == /\ TokOK
        /\ Tree(heap) /\ Pending(heap, work)
        /\ result = "none" => Building

\* Only the end of a file that is closed is the end of the file.
LEMMA LexerStep ==
    ASSUME NEW d \in BOOLEAN, next_token(d), UNCHANGED closed
    PROVE  TokOK'
  <1>1. CASE Starts = {}
    <2>1. closed
      BY <1>1 DEF next_token, Unread
    <2>2. tok' = EndOfFile
      BY <1>1 DEF next_token
    <2> QED
      BY <2>1, <2>2 DEF TokOK, Is, EndOfFile
  <1>2. CASE Starts # {}
    <2>1. PICK p \in {Min(Starts)} : tok' = TokenAt(p, d)
      BY <1>2 DEF next_token
    <2>2. PICK kind, len : TokenAt(p, d) = Token(kind, p, len)
      BY Zenon DEF TokenAt
    <2>3. tok'.eof = FALSE
      BY <2>1, <2>2 DEF Token
    <2> QED
      BY <2>3 DEF TokOK
  <1> QED
    BY <1>1, <1>2

\* No step but next_token and the end of the file touch the token.
LEMMA TokStep ==
    ASSUME TokOK, [Next]_vars PROVE TokOK'
  <1>1. CASE UNCHANGED <<tok, closed>>
    BY <1>1 DEF TokOK, Is
  <1>2. CASE UNCHANGED tok /\ closed' = TRUE
    BY <1>2 DEF TokOK, Is
  <1>3. CASE \E d \in BOOLEAN : next_token(d) /\ UNCHANGED closed
    BY <1>3, LexerStep
  <1>4. CASE World
    BY <1>1, <1>2, <1>4 DEF World, MoreFile, CloseFile, lexer
  <1>5. CASE Main
    BY <1>1, <1>3, <1>5 DEF Main, MainNewline, MainKeyval, MainSelect, MainFail,
       MainEnd, EndLine, Fail, FailWith, Parses, input, lexer
  <1>6. CASE Keyval
    BY <1>1, <1>3, <1>6 DEF Keyval, KeyvalKey, KeyvalDot, KeyvalEqual, KeyvalNoEqual,
       ValueString, ValueArray, ValueTable, ValueFail, Fail, FailWith, Parses, input, lexer
  <1>7. CASE Inline
    BY <1>1, <1>3, <1>7 DEF Inline, InlineEntry, InlineComma, InlineEnd, InlineFail,
       Fail, FailWith, Parses, input, lexer
  <1>8. CASE Array
    BY <1>1, <1>3, <1>8 DEF Array, ArrayNewline, ArrayValue, ArrayArray, ArrayTable,
       ArrayComma, ArrayEnd, ArrayFail, Fail, FailWith, Parses, input, lexer
  <1>9. CASE Select
    BY <1>1, <1>3, <1>9 DEF Select, SelectBracket, PathKey, PathDot, PathFail,
       SelectEnd, SelectClose, SelectLine, Fail, FailWith, Parses, input, lexer
  <1>10. CASE Frees
    BY <1>1, <1>10 DEF Frees, FreeRoot, FreeNode, input, lexer
  <1>11. CASE Stopped \/ UNCHANGED vars
    BY <1>1, <1>11 DEF Stopped, vars, input, lexer
  <1> QED
    BY <1>4, <1>5, <1>6, <1>7, <1>8, <1>9, <1>10, <1>11 DEF Next

\* A parser that gives up leaves the whole tree to toml_free.
LEMMA FailStep ==
    ASSUME GivesUp
    PROVE  Tree(heap') /\ Pending(heap', work') /\ result' # "none"
  <1>1. Good(heap') /\ work' = <<1>> /\ result' = "error"
    BY DEF GivesUp, FailWith, Grows
  <1> QED
    BY <1>1, GoodPends

\* As long as the parser runs, or when it ends, the tree is whole.
LEMMA BuildingStep ==
    ASSUME Building, result = "none", Main \/ Keyval \/ Inline \/ Array \/ Select
    PROVE  /\ Tree(heap') /\ Pending(heap', work') /\ Grows(heap, heap')
           /\ result' = "none" => Building'
  <1>1. Grows(heap, heap)
    BY GrowsSelf DEF Building
  <1>2. CASE Building' /\ Grows(heap, heap')
    <2>1. Good(heap') /\ work' = <<>>
      BY <1>2 DEF Building
    <2> QED
      BY <1>2, <2>1, GoodPends
  <1>3. CASE Fail \/ GivesUp
    <2>1. GivesUp
      BY <1>3, GivingUp
    <2> QED
      BY <2>1, FailStep DEF GivesUp
  <1>4. CASE MainFail
    BY <1>3, <1>4 DEF MainFail
  <1>5. CASE MainEnd
    <2>1. heap' = heap /\ work' = <<>> /\ result' = "ok"
      BY <1>5 DEF MainEnd, Building
    <2> QED
      BY <1>1, <2>1, GoodPends DEF Building
  <1>6. CASE MainNewline \/ MainKeyval \/ MainSelect \/ EndLine
    BY <1>2, <1>3, <1>6, MainBuilds
  <1>7. CASE Main
    BY <1>4, <1>5, <1>6, <1>7 DEF Main
  <1>8. CASE Keyval
    BY <1>2, <1>3, <1>8, KeyvalBuilds
  <1>9. CASE Inline
    BY <1>2, <1>3, <1>9, InlineBuilds
  <1>10. CASE Array
    BY <1>2, <1>3, <1>10, ArrayBuilds
  <1>11. CASE Select
    BY <1>2, <1>3, <1>11, SelectBuilds
  <1> QED
    BY <1>7, <1>8, <1>9, <1>10, <1>11

LEMMA InvInit == Init => PInv
  <1> SUFFICES ASSUME Init PROVE PInv
    OBVIOUS
  <1>1. /\ heap = <<NewTable>> /\ curtab = 1 /\ calls = <<>> /\ work = <<>>
        /\ tok.eof = FALSE
    BY DEF Init
  <1>2. /\ TableForm(NewTable) /\ Points(NewTable) = {} /\ NewTable.node = "table"
        /\ NewTable # Freed
    <2>1. TableForm(NewTable) /\ Points(NewTable) = {} /\ NewTable.node = "table"
      BY NewNodes
    <2>2. Freed.node = "freed"
      BY DEF Freed
    <2> QED
      BY <2>1, <2>2
  <1> DEFINE h == <<NewTable>>
  <1>3. IsSeq(h) /\ Len(h) = 1 /\ h[1] = NewTable
    <2>1. h \in Seq({NewTable}) /\ Len(h) = 1 /\ h[1] = NewTable
      OBVIOUS
    <2> QED
      BY <2>1 DEF IsSeq
  <1> HIDE DEF h
  <1>4. \A n \in 1 .. Len(h) : n = 1
    BY <1>3
  <1>5. \A n \in 1 .. Len(h) : /\ Form(h[n]) /\ Points(h[n]) = {} /\ h[n] # Freed
    BY <1>2, <1>3, <1>4 DEF Form
  <1>6. Tree(h)
    BY <1>3, <1>5 DEF Tree, Downward, OneOwner
  <1>7. Good(h) /\ TableIn(h, 1)
    <2>1. \A m : m \notin 2 .. Len(h)
      BY <1>3
    <2> QED
      BY <1>2, <1>3, <1>5, <1>6, <2>1 DEF Good, TableIn
  <1>8. CallsOK(h, <<>>)
    <2>1. \A i : i \notin 1 .. Len(<<>>)
      BY EmptyIs
    <2> QED
      BY <2>1, EmptyIs DEF CallsOK
  <1>9. Building
    BY <1>1, <1>7, <1>8 DEF Building, h
  <1>10. Tree(heap) /\ Pending(heap, work)
    BY <1>9, GoodPends DEF Building
  <1> QED
    BY <1>1, <1>9, <1>10 DEF PInv, TokOK

\* The descent goes on until toml_parse returns.
LEMMA Runs == Main \/ Keyval \/ Inline \/ Array \/ Select => result = "none"
  BY DEF Main, MainNewline, MainKeyval, MainSelect, MainFail, MainEnd, EndLine,
     Keyval, KeyvalKey, KeyvalDot, KeyvalEqual, KeyvalNoEqual,
     ValueString, ValueArray, ValueTable, ValueFail,
     Inline, InlineEntry, InlineComma, InlineEnd, InlineFail,
     Array, ArrayNewline, ArrayValue, ArrayArray, ArrayTable,
     ArrayComma, ArrayEnd, ArrayFail,
     Select, SelectBracket, PathKey, PathDot, PathFail,
     SelectEnd, SelectClose, SelectLine, InMain, In

\* Nothing but a node that is freed leaves the tree while toml_free is at work.
LEMMA InvStep == PInv /\ [Next]_vars => PInv'
  <1> SUFFICES ASSUME PInv, [Next]_vars PROVE PInv'
    OBVIOUS
  <1>1. TokOK'
    BY TokStep DEF PInv
  <1>2. CASE UNCHANGED <<heap, curtab, calls, result, work>>
    BY <1>1, <1>2 DEF PInv, Building
  <1>3. CASE World \/ Stopped \/ UNCHANGED vars
    BY <1>2, <1>3 DEF World, MoreFile, CloseFile, Stopped, vars
  <1>4. CASE Main \/ Keyval \/ Inline \/ Array \/ Select
    <2>1. result = "none"
      BY <1>4, Runs
    <2>2. Tree(heap') /\ Pending(heap', work') /\ (result' = "none" => Building')
      BY <1>4, <2>1, BuildingStep DEF PInv
    <2> QED
      BY <1>1, <2>2 DEF PInv
  <1>5. CASE FreeRoot
    <2>1. /\ result' # "none" /\ heap' = heap /\ work' = <<1>> /\ work = <<>>
          /\ heap[1] # Freed
      BY <1>5 DEF FreeRoot
    <2>2. \A m : Loose(heap, m) => m = 1
      <3>1. Len(<<>>) = 0 /\ \A i : i \notin 1 .. 0
        BY EmptyIs
      <3> QED
        BY <2>1, <3>1 DEF PInv, Pending
    <2>3. Pending(heap, <<1>>)
      BY <2>1, <2>2, RootPends DEF PInv
    <2> QED
      BY <1>1, <2>1, <2>3 DEF PInv
  <1>6. CASE FreeNode
    <2>1. result' = result /\ result # "none"
      BY <1>6 DEF FreeNode, PInv, Building
    <2>2. Tree(heap') /\ Pending(heap', work')
      BY <1>6, FreeStep DEF PInv
    <2> QED
      BY <1>1, <2>1, <2>2 DEF PInv
  <1> QED
    BY <1>3, <1>4, <1>5, <1>6 DEF Next, Frees

LEMMA InvHolds == Spec => []PInv
  BY InvInit, InvStep, PTL DEF Spec

-----------------------------------------------------------------------------
(* What follows from it.                                                    *)

LEMMA TypesFollow == PInv => TypeOK
  <1> SUFFICES ASSUME PInv PROVE TypeOK
    OBVIOUS
  <1>1. tok.eof => Is("NEWLINE") /\ closed
    BY DEF PInv, TokOK
  <1>2. ASSUME result = "none"
        PROVE  /\ work = <<>> /\ IsTable(1) /\ IsTable(curtab)
               /\ \A i \in 1 .. Len(calls) :
                     CASE calls[i].proc \in {"array", "arraynext"} -> IsArray(calls[i].node)
                       [] calls[i].proc \in {"keyval", "afterkey", "value",
                                            "inline", "inlinenext"} -> IsTable(calls[i].node)
                       [] OTHER -> TRUE
    <2>1. Building
      BY <1>2 DEF PInv
    <2>2. work = <<>> /\ IsTable(curtab)
      BY <2>1 DEF Building, TableIn, IsTable
    <2>3. IsTable(1)
      <3>1. Len(heap) \in Nat /\ Len(heap) >= 1 /\ heap[1].node = "table"
        BY <2>1, SeqIs DEF Building, Good, Tree
      <3> QED
        BY <3>1 DEF IsTable
    <2>4. ASSUME NEW i \in 1 .. Len(calls)
          PROVE  CASE calls[i].proc \in {"array", "arraynext"} -> IsArray(calls[i].node)
                   [] calls[i].proc \in {"keyval", "afterkey", "value",
                                        "inline", "inlinenext"} -> IsTable(calls[i].node)
                   [] OTHER -> TRUE
      <3>1. FrameOK(heap, calls[i])
        BY <2>1 DEF Building, CallsOK
      <3>2. /\ calls[i].proc \in {"array", "arraynext"} => IsArray(calls[i].node)
            /\ calls[i].proc \in {"keyval", "afterkey", "value", "inline", "inlinenext"}
                 => IsTable(calls[i].node)
        BY <3>1 DEF FrameOK, TableIn, ArrayIn, IsTable, IsArray
      <3>3. calls[i].proc \in {"array", "arraynext"} =>
              calls[i].proc \notin {"keyval", "afterkey", "value", "inline", "inlinenext"}
        OBVIOUS
      <3> QED
        BY <3>2, <3>3
    <2> QED
      BY <2>2, <2>3, <2>4
  <1> QED
    BY <1>1, <1>2 DEF TypeOK

LEMMA KindsFollow == PInv => KindTellsItems
  <1> SUFFICES ASSUME PInv, NEW n \in 1 .. Len(heap), IsArray(n),
                      NEW i \in 1 .. Len(heap[n].item)
               PROVE  LET item == heap[n].item[i]
                      IN /\ item.tab # 0 => item.arr = 0 /\ item.val = <<>>
                         /\ heap[n].kind = "t" => IsTable(item.tab)
                         /\ heap[n].kind = "a" => IsArray(item.arr)
                         /\ heap[n].kind = "v" => item.arr = 0 /\ item.tab = 0
    BY DEF KindTellsItems
  <1> DEFINE item == heap[n].item[i]
  <1>1. Tree(heap) /\ Len(heap) \in Nat
    BY SeqIs DEF PInv, Tree
  <1>2. heap[n].node = "array" /\ Form(heap[n])
    BY <1>1 DEF IsArray, Tree
  <1>3. ItemForm(item, heap[n].kind)
    BY <1>2, NodeForms DEF ArrayForm
  <1>4. Points(heap[n]) =
           {<<"item", j, heap[n].item[j].arr, "array">> :
              j \in {k \in 1 .. Len(heap[n].item) : heap[n].item[k].arr # 0}}
           \cup {<<"item", j, heap[n].item[j].tab, "table">> :
              j \in {k \in 1 .. Len(heap[n].item) : heap[n].item[k].tab # 0}}
    BY <1>2 DEF Points
  <1>5. /\ item.tab # 0 => <<"item", i, item.tab, "table">> \in Points(heap[n])
        /\ item.arr # 0 => <<"item", i, item.arr, "array">> \in Points(heap[n])
    BY <1>4
  <1>6. \A p \in Points(heap[n]) : p[3] \in 1 .. Len(heap) /\ heap[p[3]].node = p[4]
    <2>1. \A p \in Points(heap[n]) : p[3] \in n + 1 .. Len(heap) /\ heap[p[3]].node = p[4]
      BY <1>1 DEF Tree, Downward
    <2>2. \A k \in n + 1 .. Len(heap) : k \in 1 .. Len(heap)
      BY <1>1
    <2> QED
      BY <2>1, <2>2
  <1> HIDE DEF item
  <1>7. item.tab # 0 => IsTable(item.tab)
    BY <1>5, <1>6 DEF IsTable
  <1>8. item.arr # 0 => IsArray(item.arr)
    BY <1>5, <1>6 DEF IsArray
  <1>9. /\ item.tab # 0 => item.arr = 0 /\ item.val = <<>>
        /\ heap[n].kind = "t" => IsTable(item.tab)
        /\ heap[n].kind = "a" => IsArray(item.arr)
        /\ heap[n].kind = "v" => item.arr = 0 /\ item.tab = 0
    BY <1>3, <1>7, <1>8 DEF ItemForm
  <1> QED
    BY <1>9 DEF item

LEMMA KeysFollow == PInv => KeysOnce
  <1> SUFFICES ASSUME PInv, NEW n \in 1 .. Len(heap), IsTable(n),
                      NEW f \in {"kval", "arr", "tab"}, NEW g \in {"kval", "arr", "tab"},
                      NEW i \in 1 .. Len(heap[n][f]), NEW j \in 1 .. Len(heap[n][g]),
                      heap[n][f][i].key = heap[n][g][j].key
               PROVE  f = g /\ i = j
    BY DEF KeysOnce
  <1>1. KeysApart(heap[n])
    BY NodeForms DEF PInv, Tree, IsTable, TableForm
  <1>2. CASE f = g
    <2>1. Once(heap[n][f])
      BY <1>1 DEF KeysApart
    <2> QED
      BY <1>2, <2>1 DEF Once
  <1>3. CASE f # g
    <2>1. Apart(heap[n][f], heap[n][g]) \/ Apart(heap[n][g], heap[n][f])
      BY <1>1, <1>3 DEF KeysApart
    <2> QED
      BY <2>1 DEF Apart
  <1> QED
    BY <1>2, <1>3

LEMMA BeginsIs ==
    ASSUME NEW s, NEW t, IsSeq(s), IsSeq(t), Begins(s, t)
    PROVE  IsPrefix(s, t)
  <1> DEFINE n == Len(s)
  <1>1. PICK S, T : s \in Seq(S) /\ t \in Seq(T)
    BY DEF IsSeq
  <1>2. n \in Nat /\ Len(t) \in Nat /\ n <= Len(t)
    BY <1>1 DEF Begins
  <1>3. \A i \in 1 .. n : t[i] = s[i] /\ i \in 1 .. Len(t)
    BY <1>2 DEF Begins
  <1>4. SubSeq(s, 1, n) = [i \in 1 .. n |-> s[i]] /\ SubSeq(t, 1, n) = [i \in 1 .. n |-> t[i]]
    <2> HIDE DEF n
    <2> QED
      BY <1>1, <1>2
  <1> HIDE DEF n
  <1>5. SubSeq(s, 1, n) = SubSeq(t, 1, n)
    BY <1>3, <1>4
  <1> QED
    BY <1>2, <1>5 DEF IsPrefix, n

\* A step adds to a node, or frees it.
LEMMA NodesStep ==
    ASSUME PInv, [Next]_vars
    PROVE  \A n \in 1 .. Len(heap) :
              heap'[n] = Freed \/ (Extends(heap[n], heap'[n]) /\ Form(heap'[n]))
  <1>1. /\ Len(heap) \in Nat /\ IsSeq(heap)
        /\ \A n \in 1 .. Len(heap) : Form(heap[n]) /\ Extends(heap[n], heap[n])
    BY SeqIs, ExtendsSelf DEF PInv, Tree
  <1>2. CASE UNCHANGED heap
    BY <1>1, <1>2
  <1>3. CASE World \/ Stopped \/ FreeRoot \/ UNCHANGED vars
    BY <1>2, <1>3 DEF World, MoreFile, CloseFile, Stopped, FreeRoot, vars
  <1>4. CASE Main \/ Keyval \/ Inline \/ Array \/ Select
    <2>1. Grows(heap, heap')
      BY <1>4, Runs, BuildingStep DEF PInv
    <2>2. \A n \in 1 .. Len(heap) : n \in 1 .. Len(heap')
      BY <1>1, <2>1, SeqIs DEF Grows, Good, Tree
    <2> QED
      BY <2>1, <2>2 DEF Grows, Good, Tree
  <1>5. CASE FreeNode
    <2>1. CASE UNCHANGED heap
      BY <1>2, <2>1
    <2>2. CASE heap' = [heap EXCEPT ![Head(work)] = Freed]
      <3>1. \A n \in 1 .. Len(heap) : heap'[n] = Freed \/ heap'[n] = heap[n]
        BY <1>1, <2>2, SeqIs
      <3> QED
        BY <1>1, <3>1
    <2> QED
      BY <1>5, <2>1, <2>2 DEF FreeNode
  <1> QED
    BY <1>3, <1>4, <1>5 DEF Next, Frees

LEMMA SaidStep ==
    ASSUME PInv, [Next]_vars
    PROVE  \A n \in 1 .. Len(heap) : heap'[n] # Freed =>
              /\ heap'[n].node = heap[n].node
              /\ IsTable(n) => /\ IsPrefix(heap[n].kval, heap'[n].kval)
                               /\ IsPrefix(heap[n].arr, heap'[n].arr)
                               /\ IsPrefix(heap[n].tab, heap'[n].tab)
              /\ IsArray(n) => IsPrefix(heap[n].item, heap'[n].item)
  <1> SUFFICES ASSUME NEW n \in 1 .. Len(heap), heap'[n] # Freed
               PROVE  /\ heap'[n].node = heap[n].node
                      /\ IsTable(n) => /\ IsPrefix(heap[n].kval, heap'[n].kval)
                                       /\ IsPrefix(heap[n].arr, heap'[n].arr)
                                       /\ IsPrefix(heap[n].tab, heap'[n].tab)
                      /\ IsArray(n) => IsPrefix(heap[n].item, heap'[n].item)
    OBVIOUS
  <1>1. Form(heap[n]) /\ Form(heap'[n]) /\ Extends(heap[n], heap'[n])
    BY NodesStep DEF PInv, Tree
  <1>2. \A t \in {heap[n], heap'[n]} :
            /\ t.node = "table" => IsSeq(t.kval) /\ IsSeq(t.arr) /\ IsSeq(t.tab)
            /\ t.node = "array" => IsSeq(t.item)
    BY <1>1, NodeForms DEF TableForm, ArrayForm
  <1> QED
    BY <1>1, <1>2, BeginsIs DEF Extends, IsTable, IsArray

\* Nothing is left: the oldest node that is not freed would hang on an older
\* one.
LEMMA AllFreed ==
    ASSUME NEW h, Tree(h), h[1] = Freed, \A m : Loose(h, m) => m = 1
    PROVE  \A n \in 1 .. Len(h) : h[n] = Freed
  <1> DEFINE Live == {n \in 1 .. Len(h) : h[n] # Freed}
  <1>1. Len(h) \in Nat
    BY SeqIs DEF Tree
  <1>2. SUFFICES ASSUME Live # {} PROVE FALSE
    OBVIOUS
  <1>3. Live \subseteq Nat
    BY <1>1
  <1>4. PICK n \in Live : \A k \in Live : n <= k
    <2> HIDE DEF Live
    <2> QED
      BY <1>2, <1>3, NatLeast
  <1>5. n \in 1 .. Len(h) /\ h[n] # Freed /\ n # 1
    BY <1>4
  <1>6. Owned(h, n)
    BY <1>5 DEF Loose
  <1>7. PICK m \in 1 .. Len(h) : \E p \in Points(h[m]) : p[3] = n
    BY <1>6 DEF Owned
  <1>8. n \in m + 1 .. Len(h)
    BY <1>7 DEF Tree, Downward
  <1>9. h[m] # Freed
    <2>1. Points(Freed) = {}
      BY DEF Points, Freed
    <2> QED
      BY <1>7, <2>1
  <1>10. m \in Live
    BY <1>7, <1>9
  <1> HIDE DEF Live
  <1>11. n <= m
    BY <1>4, <1>10
  <1> QED
    BY <1>1, <1>5, <1>8, <1>11

\* What is pending is live and loose, and once nothing is, all is freed.
LEMMA FreesFollow == PInv => FreedOnce
  <1> SUFFICES ASSUME PInv PROVE FreedOnce
    OBVIOUS
  <1>1. Tree(heap) /\ Pending(heap, work)
    BY DEF PInv
  <1>2. Len(work) \in Nat
    BY <1>1 DEF Pending
  <1>3. ASSUME NEW i \in 1 .. Len(work), work[i] # 0
        PROVE  heap[work[i]] # Freed /\ \A j \in 1 .. i - 1 : work[j] # work[i]
    <2>1. heap[work[i]] # Freed
      BY <1>1, <1>3 DEF Pending, Loose
    <2>2. \A j \in 1 .. i - 1 : j \in 1 .. Len(work) /\ j # i
      BY <1>2
    <2>3. \A j \in 1 .. Len(work) : work[j] = work[i] => j = i
      BY <1>1, <1>3 DEF Pending
    <2> QED
      BY <2>1, <2>2, <2>3
  <1>4. ASSUME heap[1] = Freed, work = <<>>
        PROVE  \A n \in 1 .. Len(heap) : heap[n] = Freed
    <2>1. \A m : Loose(heap, m) => m = 1
      <3>1. Len(<<>>) = 0 /\ \A i : i \notin 1 .. 0
        BY EmptyIs
      <3> QED
        BY <1>1, <1>4, <3>1 DEF Pending
    <2> QED
      BY <1>1, <1>4, <2>1, AllFreed
  <1> QED
    BY <1>3, <1>4 DEF FreedOnce

-----------------------------------------------------------------------------
(* The publisher's reading of the tree.                                     *)

LEMMA ConcatAny ==
    ASSUME NEW s, IsSeq(s), NEW t, IsSeq(t)
    PROVE  /\ IsSeq(s \o t) /\ Len(s \o t) = Len(s) + Len(t)
           /\ Len(s) \in Nat /\ Len(t) \in Nat
           /\ \A i \in 1 .. Len(s) : (s \o t)[i] = s[i]
           /\ \A i \in 1 .. Len(t) : (s \o t)[Len(s) + i] = t[i]
  <1> DEFINE S == {s[i] : i \in 1 .. Len(s)} \cup {t[i] : i \in 1 .. Len(t)}
             m == Len(s)
             n == Len(t)
  <1>1. m \in Nat /\ n \in Nat /\ s \in [1 .. m -> S] /\ t \in [1 .. n -> S]
    BY SeqIs
  <1>2. m = Len(s) /\ n = Len(t)
    OBVIOUS
  <1> HIDE DEF S, m, n
  <1>3. s \in Seq(S) /\ t \in Seq(S)
    BY <1>1, FunIsSeq
  <1>4. s \o t \in Seq(S) /\ Len(s \o t) = m + n
    BY <1>2, <1>3, ConcatLen
  <1>5. \A i \in 1 .. m : (s \o t)[i] = s[i]
    BY <1>1, <1>2, <1>3
  <1>6. \A i \in 1 .. n : (s \o t)[m + i] = t[i]
    BY <1>1, <1>2, <1>3
  <1> QED
    BY <1>1, <1>2, <1>4, <1>5, <1>6 DEF IsSeq

LEMMA KeysOfIs ==
    ASSUME NEW s, IsSeq(s)
    PROVE  /\ IsSeq(KeysOf(s)) /\ Len(KeysOf(s)) = Len(s) /\ Len(s) \in Nat
           /\ \A i \in 1 .. Len(s) : KeysOf(s)[i] = s[i].key
  <1> DEFINE n == Len(s)
             f == [i \in 1 .. n |-> s[i].key]
  <1>1. n \in Nat
    BY SeqIs
  <1>2. DOMAIN f = 1 .. n /\ f = [i \in 1 .. n |-> f[i]] /\ \A i \in 1 .. n : f[i] = s[i].key
    OBVIOUS
  <1>3. KeysOf(s) = f
    BY DEF KeysOf
  <1> HIDE DEF f, n
  <1>4. IsSeq(f) /\ Len(f) = n
    BY <1>1, <1>2, AnySeq
  <1> QED
    BY <1>1, <1>2, <1>3, <1>4 DEF n

\* The entry that has a key is the one that is found by it.
LEMMA FoundIs ==
    ASSUME NEW s, IsSeq(s), Once(s), NEW i \in 1 .. Len(s)
    PROVE  NodeOf(s, s[i].key) = s[i].node
  <1> DEFINE key == s[i].key
             at == {j \in 1 .. Len(s) : s[j].key = key}
  <1>1. at \subseteq Nat /\ i \in at /\ \A j \in at : j = i
    BY SeqIs DEF Once
  <1>2. HasKey(s, key)
    BY DEF HasKey
  <1>3. NodeOf(s, key) = s[Min(at)].node
    BY <1>2 DEF NodeOf
  <1> HIDE DEF at, key
  <1>4. Min(at) \in at
    BY <1>1, MinIs
  <1>5. Min(at) = i
    BY <1>1, <1>4
  <1> QED
    BY <1>3, <1>5 DEF key

\* The keys that toml_key_in shows of the root, and the tables they lead to.
Before(t) == Len(t.kval) + Len(t.arr)

LEMMA RootKeys ==
    ASSUME NEW h, Tree(h), h[1].node = "table"
    PROVE  /\ Before(h[1]) \in Nat /\ Len(h[1].tab) \in Nat
           /\ Len(toml_key_in(h, 1)) = Before(h[1]) + Len(h[1].tab)
           /\ \A i \in 1 .. Before(h[1]) : toml_table_in(h, 1, toml_key_in(h, 1)[i]) = 0
           /\ \A i \in 1 .. Len(h[1].tab) :
                 /\ toml_key_in(h, 1)[Before(h[1]) + i] = h[1].tab[i].key
                 /\ toml_table_in(h, 1, h[1].tab[i].key) = h[1].tab[i].node
                 /\ h[1].tab[i].node # 0
           /\ (\E i \in 1 .. Before(h[1]) : IsNamed(toml_key_in(h, 1)[i]))
                <=> \/ \E i \in 1 .. Len(h[1].kval) : IsNamed(h[1].kval[i].key)
                    \/ \E i \in 1 .. Len(h[1].arr) : IsNamed(h[1].arr[i].key)
  <1> DEFINE t == h[1]
             p == Len(t.kval)
             q == Len(t.arr)
             n == Len(t.tab)
             both == KeysOf(t.kval) \o KeysOf(t.arr)
             keys == toml_key_in(h, 1)
  <1>1. TableForm(t) /\ Len(h) \in Nat /\ 1 \in 1 .. Len(h)
    BY NodeForms, SeqIs DEF Tree
  <1>2. /\ IsSeq(t.kval) /\ IsSeq(t.arr) /\ IsSeq(t.tab) /\ KeysApart(t)
        /\ p \in Nat /\ q \in Nat /\ n \in Nat
    BY <1>1, SeqIs DEF TableForm
  <1>3. /\ IsSeq(both) /\ Len(both) = p + q
        /\ \A i \in 1 .. p : both[i] = t.kval[i].key
        /\ \A i \in 1 .. q : both[p + i] = t.arr[i].key
    <2>1. /\ IsSeq(KeysOf(t.kval)) /\ Len(KeysOf(t.kval)) = p
          /\ IsSeq(KeysOf(t.arr)) /\ Len(KeysOf(t.arr)) = q
          /\ \A i \in 1 .. p : KeysOf(t.kval)[i] = t.kval[i].key
          /\ \A i \in 1 .. q : KeysOf(t.arr)[i] = t.arr[i].key
      BY <1>2, KeysOfIs
    <2> DEFINE a == KeysOf(t.kval)
               b == KeysOf(t.arr)
    <2>2. /\ IsSeq(a) /\ IsSeq(b) /\ both = a \o b /\ Len(a) = p /\ Len(b) = q
          /\ \A i \in 1 .. p : a[i] = t.kval[i].key
          /\ \A i \in 1 .. q : b[i] = t.arr[i].key
      BY <2>1
    <2> HIDE DEF p, q, a, b, t, both
    <2>3. /\ IsSeq(a \o b) /\ Len(a \o b) = Len(a) + Len(b)
          /\ \A i \in 1 .. Len(a) : (a \o b)[i] = a[i]
          /\ \A i \in 1 .. Len(b) : (a \o b)[Len(a) + i] = b[i]
      <3>1. IsSeq(a) /\ IsSeq(b)
        BY <2>2
      <3>2. IsSeq(a \o b) /\ Len(a \o b) = Len(a) + Len(b)
        BY <3>1, ConcatAny, SMTT(30)
      <3>3. \A i \in 1 .. Len(a) : (a \o b)[i] = a[i]
        BY <3>1, ConcatAny, SMTT(30)
      <3>4. \A i \in 1 .. Len(b) : (a \o b)[Len(a) + i] = b[i]
        BY <3>1, ConcatAny, SMTT(30)
      <3> QED
        BY <3>2, <3>3, <3>4
    <2> QED
      BY <2>2, <2>3
  <1>4. keys = both \o KeysOf(t.tab)
    BY DEF toml_key_in
  <1> HIDE DEF both, keys
  <1>5. /\ Len(keys) = p + q + n
        /\ \A i \in 1 .. p + q : keys[i] = both[i]
        /\ \A i \in 1 .. n : keys[p + q + i] = t.tab[i].key
    <2>1. /\ IsSeq(KeysOf(t.tab)) /\ Len(KeysOf(t.tab)) = n
          /\ \A i \in 1 .. n : KeysOf(t.tab)[i] = t.tab[i].key
      BY <1>2, KeysOfIs
    <2> DEFINE b == KeysOf(t.tab)
               c == both \o b
    <2>2. /\ IsSeq(b) /\ Len(b) = n /\ keys = c
          /\ \A i \in 1 .. n : b[i] = t.tab[i].key
      BY <1>4, <2>1
    <2>3. /\ Len(c) = Len(both) + Len(b)
          /\ \A i \in 1 .. Len(both) : c[i] = both[i]
          /\ \A i \in 1 .. Len(b) : c[Len(both) + i] = b[i]
      <3> HIDE DEF b
      <3>1. IsSeq(both) /\ IsSeq(b)
        BY <1>3, <2>2
      <3> QED
        BY <3>1, ConcatAny, SMTT(30)
    <2> HIDE DEF p, q, n, b, c, t
    <2> QED
      BY <1>3, <2>2, <2>3
  <1>6. \A i \in 1 .. p + q : \/ \E j \in 1 .. p : i = j /\ keys[i] = t.kval[j].key
                             \/ \E j \in 1 .. q : i = p + j /\ keys[i] = t.arr[j].key
    <2> TAKE i \in 1 .. p + q
    <2> HIDE DEF p, q, t
    <2>1. CASE i <= p
      <3>1. i \in 1 .. p
        BY <1>2, <2>1
      <3> QED
        BY <1>3, <1>5, <3>1
    <2>2. CASE ~(i <= p)
      <3>1. i - p \in 1 .. q /\ i = p + (i - p)
        BY <1>2, <2>2
      <3> QED
        BY <1>3, <1>5, <3>1
    <2> QED
      BY <2>1, <2>2
  <1>7. /\ \A j \in 1 .. p : j \in 1 .. p + q /\ keys[j] = t.kval[j].key
        /\ \A j \in 1 .. q : p + j \in 1 .. p + q /\ keys[p + j] = t.arr[j].key
    <2> HIDE DEF p, q, t
    <2>1. /\ \A j \in 1 .. p : j \in 1 .. p + q
          /\ \A j \in 1 .. q : p + j \in 1 .. p + q
      BY <1>2
    <2> QED
      BY <1>3, <1>5, <2>1
  <1>8. \A i \in 1 .. p + q : toml_table_in(h, 1, keys[i]) = 0
    <2> TAKE i \in 1 .. p + q
    <2>1. ~HasKey(t.tab, keys[i])
      <3>1. /\ \A j \in 1 .. p : ~HasKey(t.tab, t.kval[j].key)
            /\ \A j \in 1 .. q : ~HasKey(t.tab, t.arr[j].key)
        BY <1>2 DEF KeysApart, Apart, HasKey
      <3> HIDE DEF p, q, t
      <3> QED
        BY <1>6, <3>1
    <2> QED
      BY <2>1 DEF toml_table_in, NodeOf
  <1>9. ASSUME NEW i \in 1 .. n
        PROVE  toml_table_in(h, 1, t.tab[i].key) = t.tab[i].node /\ t.tab[i].node # 0
    <2>1. toml_table_in(h, 1, t.tab[i].key) = t.tab[i].node
      BY <1>2, FoundIs DEF toml_table_in, KeysApart
    <2>2. <<"tab", i, t.tab[i].node, "table">> \in Points(t)
      BY DEF Points
    <2>3. \A x \in Points(t) : x[3] \in 1 + 1 .. Len(h)
      BY <1>1 DEF Tree, Downward
    <2>4. t.tab[i].node \in 1 + 1 .. Len(h)
      BY <2>2, <2>3
    <2> QED
      BY <1>1, <2>1, <2>4
  <1>10. (\E i \in 1 .. p + q : IsNamed(keys[i]))
            <=> \/ \E i \in 1 .. p : IsNamed(t.kval[i].key)
                \/ \E i \in 1 .. q : IsNamed(t.arr[i].key)
    <2> HIDE DEF p, q, t
    <2> QED
      BY <1>6, <1>7
  <1>11. Before(t) = p + q /\ keys = toml_key_in(h, 1)
    BY DEF Before, keys
  <1>12. p + q \in Nat
    <2> HIDE DEF p, q
    <2> QED
      BY <1>2
  <1> HIDE DEF p, q
  <1> QED
    BY <1>2, <1>5, <1>8, <1>9, <1>10, <1>11, <1>12 DEF p, q

\* How many of the first n tables of the root are devices.
Devices(tab, n) == {i \in 1 .. n : IsDevice(tab[i].key)}
Place(tab, n) == Cardinality(Devices(tab, n))

LEMMA PlaceIs ==
    ASSUME NEW tab, NEW n \in Int
    PROVE  /\ Place(tab, n) \in Nat
           /\ n <= 0 => Place(tab, n) = 0
           /\ \A k \in 1 .. n : Place(tab, k) <= Place(tab, n)
           /\ \A k \in 1 .. n : IsDevice(tab[k].key) => Place(tab, k) \in 1 .. Place(tab, n)
           /\ n > 0 => Place(tab, n) = IF IsDevice(tab[n].key) THEN Place(tab, n - 1) + 1
                                       ELSE Place(tab, n - 1)
  <1>1. \A m \in Int : IsFiniteSet(Devices(tab, m)) /\ Place(tab, m) \in Nat
    <2> TAKE m \in Int
    <2>1. IsFiniteSet(1 .. m) /\ Devices(tab, m) \in SUBSET (1 .. m)
      BY FS_Interval DEF Devices
    <2>2. IsFiniteSet(Devices(tab, m))
      BY <2>1, FS_Subset
    <2> QED
      BY <2>2, FS_CardinalityType DEF Place
  <1>2. n <= 0 => Place(tab, n) = 0
    <2>1. n <= 0 => Devices(tab, n) = {}
      BY DEF Devices
    <2> QED
      BY <2>1, FS_EmptySet DEF Place
  <1>3. ASSUME NEW k \in 1 .. n PROVE Place(tab, k) <= Place(tab, n)
    <2>1. Devices(tab, k) \in SUBSET Devices(tab, n)
      BY DEF Devices
    <2> QED
      BY <1>1, <2>1, FS_Subset DEF Place
  <1>4. ASSUME NEW k \in 1 .. n, IsDevice(tab[k].key) PROVE Place(tab, k) # 0
    <2>1. k \in Devices(tab, k) /\ k \in Int
      BY <1>4 DEF Devices
    <2>2. Devices(tab, k) # {}
      BY <2>1
    <2> QED
      BY <1>1, <2>1, <2>2, FS_EmptySet DEF Place
  <1>5. ASSUME n > 0
        PROVE  Place(tab, n) = IF IsDevice(tab[n].key) THEN Place(tab, n - 1) + 1
                               ELSE Place(tab, n - 1)
    <2>1. n \notin Devices(tab, n - 1) /\ n - 1 \in Int
      BY DEF Devices
    <2>2. Devices(tab, n) = IF IsDevice(tab[n].key) THEN Devices(tab, n - 1) \cup {n}
                            ELSE Devices(tab, n - 1)
      BY <1>5 DEF Devices
    <2> QED
      BY <1>1, <2>1, <2>2, FS_AddElement DEF Place
  <1>6. ASSUME NEW k \in 1 .. n, IsDevice(tab[k].key)
        PROVE  Place(tab, k) \in 1 .. Place(tab, n)
    <2>1. Place(tab, k) \in Nat /\ Place(tab, n) \in Nat
      BY <1>1
    <2> QED
      BY <1>3, <1>4, <1>6, <2>1
  <1> QED
    BY <1>1, <1>2, <1>3, <1>5, <1>6

\* What is right when the first n tables of the root have been read, and what of
\* the first i keys ends the reading.
Reads(h, n, info) ==
    LET tab == h[1].tab
    IN /\ IsSeq(info.id_list) /\ Len(info.id_list) = Place(tab, n)
       /\ \A k \in 1 .. n :
             /\ IsDevice(tab[k].key) =>
                   info.id_list[Place(tab, k)] = DeviceOf(h, tab[k].key, tab[k].node)
             /\ tab[k].key = MainKey => info.main = MainInfo(h, tab[k].node)
       /\ (\A k \in 1 .. n : tab[k].key # MainKey) => info.main = Nobody

Refused(h, i) ==
    LET key == toml_key_in(h, 1)[i]
    IN IF i <= Before(h[1]) THEN IsNamed(key) ELSE IsDevice(key) /\ key \notin DOMAIN IdOf

ReadsFirst(h, i, info) ==
    /\ info = [failed |-> info.failed, main |-> info.main, id_list |-> info.id_list]
    /\ info.failed \in BOOLEAN
    /\ info.failed <=> \E k \in 1 .. i : Refused(h, k)
    /\ ~info.failed => Reads(h, i - Before(h[1]), info)

LEMMA ReadsStart ==
    ASSUME NEW h, Tree(h), h[1].node = "table"
    PROVE  ReadsFirst(h, 0, [failed |-> FALSE, main |-> Nobody, id_list |-> <<>>])
  <1> DEFINE n == 0 - Before(h[1])
  <1>1. n \in Int /\ n <= 0
    BY RootKeys
  <1>2. Place(h[1].tab, n) = 0 /\ \A k : k \notin 1 .. n
    BY <1>1, PlaceIs
  <1> HIDE DEF n
  <1>3. Reads(h, n, [failed |-> FALSE, main |-> Nobody, id_list |-> <<>>])
    BY <1>2, EmptyIs DEF Reads
  <1> QED
    BY <1>3 DEF ReadsFirst, n

\* What the loop does with the next table.
LEMMA ReadsTable ==
    ASSUME NEW h, Tree(h), h[1].node = "table",
           NEW n \in 1 .. Len(h[1].tab), NEW info, Reads(h, n - 1, info),
           NEW next,
           IsDevice(h[1].tab[n].key) =>
              /\ next.main = info.main
              /\ next.id_list = Append(info.id_list,
                                       DeviceOf(h, h[1].tab[n].key, h[1].tab[n].node)),
           ~IsDevice(h[1].tab[n].key) => next.id_list = info.id_list,
           h[1].tab[n].key = MainKey => next.main = MainInfo(h, h[1].tab[n].node),
           ~IsNamed(h[1].tab[n].key) => next.main = info.main
    PROVE  Reads(h, n, next)
  <1> DEFINE tab == h[1].tab
             key == tab[n].key
             list == info.id_list
  <1>1. n \in Int /\ n - 1 \in Int /\ n > 0 /\ Len(tab) \in Nat
    BY RootKeys
  <1>2. IsSeq(list) /\ Len(list) = Place(tab, n - 1)
    BY DEF Reads
  <1>3. key = MainKey => ~IsDevice(key)
    BY TtyTomlAssumption DEF IsDevice
  <1>4. /\ Place(tab, n) = IF IsDevice(key) THEN Place(tab, n - 1) + 1 ELSE Place(tab, n - 1)
        /\ \A k \in 1 .. n - 1 : IsDevice(tab[k].key) => Place(tab, k) \in 1 .. Len(list)
    BY <1>1, <1>2, PlaceIs
  <1>5. \A k \in 1 .. n : k = n \/ k \in 1 .. n - 1
    BY <1>1
  <1>6. /\ IsSeq(next.id_list) /\ Len(next.id_list) = Place(tab, n)
        /\ \A k \in 1 .. Len(list) : next.id_list[k] = list[k]
        /\ IsDevice(key) => next.id_list[Place(tab, n)] = DeviceOf(h, key, tab[n].node)
    <2>1. CASE IsDevice(key)
      <3> DEFINE e == DeviceOf(h, key, tab[n].node)
      <3>1. next.id_list = Append(list, e) /\ Place(tab, n) = Len(list) + 1
        BY <1>2, <1>4, <2>1
      <3> HIDE DEF e, list
      <3>2. /\ IsSeq(next.id_list) /\ Len(next.id_list) = Len(list) + 1
            /\ \A k \in 1 .. Len(list) : next.id_list[k] = list[k]
            /\ next.id_list[Len(list) + 1] = e
        <4>1. IsSeq(list)
          BY <1>2
        <4> QED
          BY <3>1, <4>1, AppendIs
      <3> QED
        BY <3>1, <3>2 DEF e
    <2>2. CASE ~IsDevice(key)
      BY <1>2, <1>4, <2>2
    <2> QED
      BY <2>1, <2>2
  <1>7. \A k \in 1 .. n : IsDevice(tab[k].key) =>
            next.id_list[Place(tab, k)] = DeviceOf(h, tab[k].key, tab[k].node)
    <2>1. \A k \in 1 .. n - 1 : IsDevice(tab[k].key) =>
              list[Place(tab, k)] = DeviceOf(h, tab[k].key, tab[k].node)
      BY DEF Reads
    <2> HIDE DEF tab, key, list
    <2> QED
      BY <1>4, <1>5, <1>6, <2>1 DEF key
  <1>8. \A k \in 1 .. n : tab[k].key = MainKey => next.main = MainInfo(h, tab[k].node)
    <2>1. TableForm(h[1])
      BY NodeForms, SeqIs DEF Tree
    <2>2. \A k \in 1 .. n : tab[k].key = key => k = n
      BY <1>1, <2>1 DEF TableForm, KeysApart, Once
    <2>3. \A k \in 1 .. n - 1 : tab[k].key = MainKey => key # MainKey
      <3>1. \A k \in 1 .. n - 1 : k \in 1 .. n /\ k # n
        BY <1>1
      <3> HIDE DEF tab, key
      <3> QED
        BY <2>2, <3>1
    <2>4. \A k \in 1 .. n - 1 : tab[k].key = MainKey => info.main = MainInfo(h, tab[k].node)
      BY DEF Reads
    <2>5. key # MainKey => next.main = info.main
      BY DEF IsNamed
    <2> QED
      BY <1>5, <2>3, <2>4, <2>5
  <1>9. (\A k \in 1 .. n : tab[k].key # MainKey) => next.main = Nobody
    <2>1. (\A k \in 1 .. n - 1 : tab[k].key # MainKey) => info.main = Nobody
      BY DEF Reads
    <2>2. n \in 1 .. n /\ \A k \in 1 .. n - 1 : k \in 1 .. n
      BY <1>1
    <2> QED
      BY <2>1, <2>2 DEF IsNamed
  <1> QED
    BY <1>6, <1>7, <1>8, <1>9 DEF Reads

LEMMA ReadsNext ==
    ASSUME NEW h, Tree(h), h[1].node = "table", NEW i \in 1 .. Len(toml_key_in(h, 1)),
           NEW info, ReadsFirst(h, i - 1, info)
    PROVE  ReadsFirst(h, i, SetupKey(h, info, toml_key_in(h, 1)[i]))
  <1> DEFINE b == Before(h[1])
             tab == h[1].tab
             key == toml_key_in(h, 1)[i]
             to == toml_table_in(h, 1, key)
             next == SetupKey(h, info, key)
  <1>1. b \in Nat /\ Len(tab) \in Nat /\ i \in Nat /\ i - 1 \in Nat
    BY RootKeys
  <1>2. \A k \in 1 .. i : k = i \/ k \in 1 .. i - 1
    BY <1>1
  <1>3. i \in 1 .. i /\ \A k \in 1 .. i - 1 : k \in 1 .. i
    BY <1>1
  <1>4. key = MainKey => key \notin IdKeys
    BY TtyTomlAssumption
  <1>5. /\ info = [failed |-> info.failed, main |-> info.main, id_list |-> info.id_list]
        /\ info.failed \in BOOLEAN
        /\ info.failed <=> \E k \in 1 .. i - 1 : Refused(h, k)
        /\ ~info.failed => Reads(h, i - 1 - b, info)
    BY DEF ReadsFirst
  <1>6. i <= b => to = 0
    BY <1>1, RootKeys
  <1>7. ASSUME ~(i <= b)
        PROVE  /\ i - b \in 1 .. Len(tab) /\ i - 1 - b = i - b - 1
               /\ key = tab[i - b].key /\ to = tab[i - b].node /\ to # 0
    <2> DEFINE n == i - b
    <2>1. Len(toml_key_in(h, 1)) = b + Len(tab)
      BY RootKeys
    <2>2. n \in 1 .. Len(tab) /\ i = b + n /\ i - 1 - b = n - 1
      <3> HIDE DEF b, tab
      <3> QED
        BY <1>1, <1>7, <2>1
    <2> HIDE DEF n
    <2>3. /\ toml_key_in(h, 1)[b + n] = tab[n].key
          /\ toml_table_in(h, 1, tab[n].key) = tab[n].node /\ tab[n].node # 0
      BY <2>2, RootKeys
    <2>4. key = tab[n].key
      BY <2>2, <2>3
    <2> QED
      BY <2>2, <2>3, <2>4 DEF n
  <1>8. /\ next = [failed |-> next.failed, main |-> next.main, id_list |-> next.id_list]
        /\ next.failed \in BOOLEAN
        /\ next.failed <=> info.failed \/ Refused(h, i)
    <2> HIDE DEF key
    <2>1. Refused(h, i) <=> IF i <= b THEN IsNamed(key)
                            ELSE IsDevice(key) /\ key \notin DOMAIN IdOf
      BY DEF Refused, key
    <2> HIDE DEF to, b
    <2> QED
      BY <1>4, <1>5, <1>6, <1>7, <2>1 DEF SetupKey, IsNamed, IsDevice, to
  <1>9. next.failed <=> \E k \in 1 .. i : Refused(h, k)
    BY <1>2, <1>3, <1>5, <1>8
  <1>10. ASSUME ~next.failed PROVE Reads(h, i - b, next)
    <2>1. ~info.failed /\ ~Refused(h, i) /\ Reads(h, i - 1 - b, info)
      BY <1>5, <1>8, <1>10
    <2>2. CASE i <= b
      <3>1. next = info
        BY <2>1, <2>2 DEF Refused, SetupKey, IsNamed, IsDevice
      <3>2. /\ i - b \in Int /\ i - 1 - b \in Int /\ i - b <= 0 /\ i - 1 - b <= 0
            /\ \A k : k \notin 1 .. i - b /\ k \notin 1 .. i - 1 - b
        BY <1>1, <2>2
      <3>3. Place(tab, i - b) = 0 /\ Place(tab, i - 1 - b) = 0
        BY <3>2, PlaceIs
      <3> HIDE DEF next, b
      <3> QED
        BY <2>1, <3>1, <3>2, <3>3 DEF Reads
    <2>3. CASE ~(i <= b)
      <3> DEFINE n == i - b
      <3>1. n \in 1 .. Len(tab) /\ key = tab[n].key /\ to = tab[n].node /\ to # 0
        BY <1>7, <2>3
      <3>2. Reads(h, n - 1, info)
        BY <1>7, <2>1, <2>3
      <3>3. IsDevice(key) => key \in DOMAIN IdOf
        BY <2>1, <2>3 DEF Refused
      <3> HIDE DEF key, to
      <3>4. /\ IsDevice(key) => /\ next.main = info.main
                                /\ next.id_list = Append(info.id_list, DeviceOf(h, key, to))
            /\ ~IsDevice(key) => next.id_list = info.id_list
            /\ key = MainKey => next.main = MainInfo(h, to)
            /\ ~IsNamed(key) => next.main = info.main
        BY <1>4, <1>5, <2>1, <3>1, <3>3 DEF SetupKey, IsNamed, IsDevice, to
      <3> HIDE DEF next, n
      <3>5. Reads(h, n, next)
        BY <3>1, <3>2, <3>4, ReadsTable
      <3> QED
        BY <3>5 DEF n
    <2> QED
      BY <2>2, <2>3
  <1> QED
    BY <1>8, <1>9, <1>10 DEF ReadsFirst

\* The loop over the keys, unfolded: its recursion has a solution, and what it has
\* made of the first keys is right, however many they are.
LEMMA SetupIs ==
    ASSUME NEW h, Tree(h), h[1].node = "table"
    PROVE  ReadsFirst(h, Len(toml_key_in(h, 1)), setup_tty_info(h))
  <1> DEFINE keys == toml_key_in(h, 1)
             start == [failed |-> FALSE, main |-> Nobody, id_list |-> <<>>]
             value(i, f) == IF i = 0 THEN start ELSE SetupKey(h, f[i - 1], keys[i])
             Upto(n, f) == f = [i \in 0 .. n |-> value(i, f)]
             len == Len(keys)
  <1>1. len \in Nat
    <2>1. Before(h[1]) \in Nat /\ Len(h[1].tab) \in Nat /\ len = Before(h[1]) + Len(h[1].tab)
      BY RootKeys
    <2> HIDE DEF len
    <2> QED
      BY <2>1
  <1>2. \A n \in Nat : \E f : Upto(n, f)
    <2> DEFINE T == {n \in Nat : ~ \E f : Upto(n, f)}
    <2> SUFFICES ASSUME T # {} PROVE FALSE
      OBVIOUS
    <2>1. PICK n \in T : \A j \in T : n <= j
      BY NatLeast
    <2>2. CASE n = 0
      <3>1. Upto(0, [i \in 0 .. 0 |-> start])
        OBVIOUS
      <3> QED
        BY <2>1, <2>2, <3>1
    <2>3. CASE n # 0
      <3>1. n \in Nat /\ n - 1 \in Nat /\ n - 1 \notin T
        <4>1. n \in Nat /\ n - 1 \in Nat
          BY <2>1, <2>3
        <4> HIDE DEF T
        <4> QED
          BY <2>1, <4>1
      <3>2. PICK f : Upto(n - 1, f)
        BY <3>1
      <3> DEFINE g == [i \in 0 .. n |-> IF i = n THEN SetupKey(h, f[n - 1], keys[n]) ELSE f[i]]
      <3>3. \A i \in 0 .. n - 1 : f[i] = value(i, f) /\ g[i] = f[i]
        <4>1. f = [i \in 0 .. n - 1 |-> value(i, f)]
          BY <3>2
        <4> HIDE DEF value
        <4> QED
          BY <3>1, <4>1, SMTT(30)
      <3>4. \A i \in 0 .. n : g[i] = value(i, g)
        <4> TAKE i \in 0 .. n
        <4>1. CASE i = 0
          <5>1. 0 \in 0 .. n - 1
            BY <2>3, <3>1
          <5> QED
            BY <3>3, <4>1, <5>1
        <4>2. CASE i \in 1 .. n - 1
          <5>1. i \in 0 .. n - 1 /\ i - 1 \in 0 .. n - 1 /\ i # 0
            BY <3>1, <4>2
          <5>2. g[i] = SetupKey(h, f[i - 1], keys[i]) /\ g[i - 1] = f[i - 1]
            BY <3>3, <5>1
          <5> QED
            BY <5>1, <5>2
        <4>3. CASE i = n
          <5>1. n - 1 \in 0 .. n - 1 /\ n \in 0 .. n
            BY <3>1
          <5>2. g[n] = SetupKey(h, f[n - 1], keys[n]) /\ g[n - 1] = f[n - 1]
            BY <3>3, <5>1
          <5> QED
            BY <2>3, <4>3, <5>2
        <4> QED
          BY <3>1, <4>1, <4>2, <4>3
      <3>5. g = [i \in 0 .. n |-> g[i]]
        OBVIOUS
      <3> HIDE DEF g, value
      <3>6. Upto(n, g)
        BY <3>4, <3>5
      <3> QED
        BY <2>1, <3>6
    <2> QED
      BY <2>2, <2>3
  <1>3. PICK info : Upto(len, info) /\ setup_tty_info(h) = info[len]
    <2> DEFINE info == CHOOSE f : Upto(len, f)
    <2>1. Upto(len, info)
      BY <1>1, <1>2
    <2>2. setup_tty_info(h) = info[len]
      BY Zenon DEF setup_tty_info
    <2> HIDE DEF info
    <2> QED
      BY <2>1, <2>2
  <1>4. \A i \in 0 .. len : info[i] = value(i, info)
    <2>1. info = [i \in 0 .. len |-> value(i, info)]
      BY <1>3
    <2> HIDE DEF value
    <2> QED
      BY <2>1
  <1>5. \A i \in 0 .. len : ReadsFirst(h, i, info[i])
    <2> DEFINE T == {i \in 0 .. len : ~ReadsFirst(h, i, info[i])}
    <2> SUFFICES ASSUME T # {} PROVE FALSE
      OBVIOUS
    <2>1. PICK i \in T : \A j \in T : i <= j
      <3>1. T \subseteq Nat
        BY <1>1
      <3> HIDE DEF T
      <3> QED
        BY <3>1, NatLeast
    <2>2. CASE i = 0
      BY <1>4, <2>1, <2>2, ReadsStart
    <2>3. CASE i # 0
      <3>1. i \in 1 .. len /\ i - 1 \in 0 .. len /\ ~(i <= i - 1)
        BY <1>1, <2>1, <2>3
      <3>2. ReadsFirst(h, i - 1, info[i - 1])
        BY <2>1, <3>1
      <3>3. info[i] = SetupKey(h, info[i - 1], keys[i])
        BY <1>4, <2>1, <2>3
      <3>4. ReadsFirst(h, i, info[i])
        BY <3>1, <3>2, <3>3, ReadsNext
      <3> QED
        BY <2>1, <3>4
    <2> QED
      BY <2>2, <2>3
  <1>6. ReadsFirst(h, len, info[len])
    <2>1. len \in 0 .. len
      BY <1>1
    <2> HIDE DEF len
    <2> QED
      BY <1>5, <2>1
  <1> QED
    BY <1>3, <1>6

\* What of the keys is refused, by the three lists of the root.
LEMMA RefusedIs ==
    ASSUME NEW h, Tree(h), h[1].node = "table"
    PROVE  (\E i \in 1 .. Len(toml_key_in(h, 1)) : Refused(h, i)) <=> Misnamed(h[1])
  <1> DEFINE b == Before(h[1])
             tab == h[1].tab
             n == Len(tab)
             keys == toml_key_in(h, 1)
  <1>1. /\ b \in Nat /\ n \in Nat /\ Len(keys) = b + n
        /\ \A i \in 1 .. n : keys[b + i] = tab[i].key
    BY RootKeys
  <1>2. (\E i \in 1 .. b : IsNamed(keys[i]))
           <=> \/ \E i \in 1 .. Len(h[1].kval) : IsNamed(h[1].kval[i].key)
               \/ \E i \in 1 .. Len(h[1].arr) : IsNamed(h[1].arr[i].key)
    BY RootKeys
  <1>3. \A i \in 1 .. b : Refused(h, i) <=> IsNamed(keys[i])
    BY <1>1 DEF Refused
  <1>4. \A i \in 1 .. n : /\ b + i \in 1 .. b + n /\ ~(b + i <= b)
    <2> HIDE DEF b, n
    <2> QED
      BY <1>1
  <1>5. \A i \in 1 .. n : Refused(h, b + i)
                             <=> IsDevice(tab[i].key) /\ tab[i].key \notin DOMAIN IdOf
    BY <1>1, <1>4 DEF Refused
  <1>6. \A i \in 1 .. b + n : i \in 1 .. b \/ \E j \in 1 .. n : i = b + j
    <2> HIDE DEF b, n
    <2> TAKE i \in 1 .. b + n
    <2>1. CASE i <= b
      BY <1>1, <2>1
    <2>2. CASE ~(i <= b)
      <3>1. i - b \in 1 .. n /\ i = b + (i - b)
        BY <1>1, <2>2
      <3> QED
        BY <3>1
    <2> QED
      BY <2>1, <2>2
  <1>7. \A i \in 1 .. b : i \in 1 .. b + n
    <2> HIDE DEF b, n
    <2> QED
      BY <1>1
  <1>8. (\E i \in 1 .. b + n : Refused(h, i))
           <=> \/ \E i \in 1 .. b : Refused(h, i)
               \/ \E i \in 1 .. n : Refused(h, b + i)
    <2> HIDE DEF b, n
    <2> QED
      BY <1>4, <1>6, <1>7
  <1> QED
    BY <1>1, <1>2, <1>3, <1>5, <1>8 DEF Misnamed

\* The root is a table for as long as it is there.
RootInv == heap[1] # Freed => heap[1].node = "table"

LEMMA RootHolds == Spec => []RootInv
  <1>1. Init => RootInv
    <2>1. Init => heap = <<NewTable>>
      BY DEF Init
    <2>2. <<NewTable>>[1].node = "table"
      BY DEF NewTable
    <2> QED
      BY <2>1, <2>2 DEF RootInv
  <1>2. PInv /\ RootInv /\ [Next]_vars => RootInv'
    <2> SUFFICES ASSUME PInv, RootInv, [Next]_vars, heap'[1] # Freed
                 PROVE  heap'[1].node = "table"
      BY DEF RootInv
    <2>1. 1 \in 1 .. Len(heap)
      BY SeqIs DEF PInv, Tree
    <2>2. Extends(heap[1], heap'[1]) /\ Form(heap'[1])
      BY <2>1, NodesStep
    <2>3. heap'[1].node = heap[1].node /\ heap'[1].node # "freed"
      BY <2>2, NodeForms DEF Extends
    <2>4. heap[1] # Freed
      BY <2>3 DEF Freed
    <2> QED
      BY <2>3, <2>4 DEF RootInv
  <1> QED
    BY <1>1, <1>2, InvHolds, PTL DEF Spec

LEMMA ConfigFollows == PInv /\ RootInv => ConfigOfTree
  <1> SUFFICES ASSUME PInv, RootInv, heap[1] # Freed PROVE ConfigOfTree
    BY DEF ConfigOfTree
  <1> DEFINE info == setup_tty_info(heap)
             tab == heap[1].tab
             b == Before(heap[1])
             len == Len(toml_key_in(heap, 1))
  <1>1. Tree(heap) /\ heap[1].node = "table"
    BY DEF PInv, RootInv
  <1>2. ReadsFirst(heap, len, info)
    BY <1>1, SetupIs
  <1>3. len - b = Len(tab)
    <2>1. b \in Nat /\ Len(tab) \in Nat /\ len = b + Len(tab)
      BY <1>1, RootKeys
    <2> HIDE DEF b, len, tab
    <2> QED
      BY <2>1
  <1>4. info.failed <=> Misnamed(heap[1])
    BY <1>1, <1>2, RefusedIs DEF ReadsFirst
  <1>5. ~info.failed => Reads(heap, Len(tab), info)
    BY <1>2, <1>3 DEF ReadsFirst
  <1>6. ASSUME Reads(heap, Len(tab), info)
        PROVE  /\ Len(info.id_list) = Place(tab, Len(tab))
               /\ \A n \in 1 .. Len(tab) :
                     /\ IsDevice(tab[n].key) =>
                           info.id_list[Place(tab, n)] = DeviceOf(heap, tab[n].key, tab[n].node)
                     /\ tab[n].key = MainKey => info.main = MainInfo(heap, tab[n].node)
               /\ HasKey(tab, MainKey) \/ info.main = Nobody
    BY <1>6 DEF Reads, HasKey
  <1> HIDE DEF info, tab
  <1> QED
    BY <1>4, <1>5, <1>6, Zenon DEF ConfigOfTree, Place, Devices, info, tab

\* Every call of the descent works on a table or an array of the tree, of the
\* type that it expects, and the end of the file is only ever a newline.
THEOREM ParserTypes == Spec => []TypeOK
  BY InvHolds, TypesFollow, PTL

\* arr->kind tells what the array holds, which walk_tabpath and the readers of
\* a configuration rely on, for every file.
THEOREM KindTells == Spec => []KindTellsItems
  BY InvHolds, KindsFollow, PTL

\* No table of the tree has a second entry under a key, in any of its three
\* lists, so that what the readers find by a key is all there is under it.
THEOREM KeysAreOnce == Spec => []KeysOnce
  BY InvHolds, KeysFollow, PTL

\* Whatever statement comes next, what the file has said so far is where it was:
\* entries and items are only ever added behind those there are.
THEOREM SaidIsKept == Spec => SaidStays
  <1>1. PInv /\ [Next]_vars =>
          [\A n \in 1 .. Len(heap) : heap'[n] # Freed =>
              /\ heap'[n].node = heap[n].node
              /\ IsTable(n) => /\ IsPrefix(heap[n].kval, heap'[n].kval)
                               /\ IsPrefix(heap[n].arr, heap'[n].arr)
                               /\ IsPrefix(heap[n].tab, heap'[n].tab)
              /\ IsArray(n) => IsPrefix(heap[n].item, heap'[n].item)]_vars
    BY SaidStep
  <1> QED
    BY <1>1, InvHolds, PTL DEF Spec, SaidStays

\* xfree_tab and xfree_arr never meet a node twice, and leave none, whatever
\* the file and wherever the parser gives up.
THEOREM FreesOnce == Spec => []FreedOnce
  BY InvHolds, FreesFollow, PTL

\* Whatever the file, the publisher polls exactly the devices that its tables
\* [idN] describe, in their order and with their numbers, and takes [main] for
\* its own settings, or refuses the file for a name that is no such table.
THEOREM ConfigRead == Spec => []ConfigOfTree
  BY InvHolds, RootHolds, ConfigFollows, PTL
=============================================================================
