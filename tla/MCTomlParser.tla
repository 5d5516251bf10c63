----------------------------- MODULE MCTomlParser -----------------------------
(***************************************************************************)
(* TomlParser on small files, against what the files mean.  A file is a    *)
(* list of statements; it means a set of facts <<path, what>>: what is at  *)
(* the path, a table ("{"), an array ("[") or the words of a value.  A     *)
(* step of a path is <<key, 0>> into a table or <<"", i>> into an array.   *)
(***************************************************************************)
EXTENDS TtyToml, TLC

Key(k) == <<k, 0>>
Item(i) == << <<>>, i>>
TableAt(p) == <<p, <<"{">>>>
ArrayAt(p) == <<p, <<"[">>>>
Under(p, facts) == {<<p \o f[1], f[2]>> : f \in facts}

A == <<"id1">>
B == <<"id2">>
C == <<"read_count">>
QuotedA == <<"\"", "id1", "\"">>
Meant(k) == IF k = QuotedA THEN A ELSE k

-----------------------------------------------------------------------------
\* The values, as they are written and as they are meant; a string that is
\* meant starts with "string".

Scalar(text1, what) == [text |-> text1, facts |-> {<< <<>>, what>>}]
Integer == Scalar(<<"1">>, <<"1">>)
Fraction == Scalar(<<"1", ".", "5">>, <<"1", ".", "5">>)

\* "#\"'\u0041,"
BasicString ==
    Scalar(<<"\"", "#", "\\", "\"", "'", "\\", "u", "0", "0", "4", "1", ",", "\"">>,
           <<"string", "#", "\"", "'", "code", ",">>)
\* A literal string, one of three lines between """, one between ''', and one
\* with a control character.
Strings ==
    [text |-> <<"[", "'", "\\", "\"", "'", ",">>
              \o <<"\"", "\"", "\"", NL, "1", "\\", " ", NL, " ", "\"", "5", NL,
                   "\"", "\"", "\"", "\"", ",">>
              \o <<"'", "'", "'", "\\", "'", "'", NL, "'", "'", "'", "'", NL, ",">>
              \o <<"\"", "^A", "\"", "]">>,
     facts |-> {ArrayAt(<<>>),
                << <<Item(1)>>, <<"string", "\\", "\"">>>>,
                << <<Item(2)>>, <<"string", "1", "\"", "5", NL, "\"">>>>,
                << <<Item(3)>>, <<"string", "\\", "'", "'", NL, "'">>>>,
                << <<Item(4)>>, <<"string">> \o Unreadable>>}]

ArrayOfValues ==
    [text |-> <<"[", NL, "1", ".", "5", ",", NL, "1", "]">>,
     facts |-> {ArrayAt(<<>>), << <<Item(1)>>, <<"1", ".", "5">>>>,
                << <<Item(2)>>, <<"1">>>>}]
MixedArray ==
    [text |-> <<"[", "{">> \o C \o <<"=", "1", "}", ",", "[", "]", "]">>,
     facts |-> {ArrayAt(<<>>), TableAt(<<Item(1)>>),
                << <<Item(1), Key(C)>>, <<"1">>>>, ArrayAt(<<Item(2)>>)}]
ArrayOfTables ==
    [text |-> <<"[", "{">> \o C \o <<"=", "1", "}", "]">>,
     facts |-> {ArrayAt(<<>>), TableAt(<<Item(1)>>),
                << <<Item(1), Key(C)>>, <<"1">>>>}]
InlineTable ==
    [text |-> <<"{", " ">> \o B \o <<".">> \o A \o <<"=", "1", ".", "5", ",">>
                \o C \o <<"=", "1", "}">>,
     facts |-> {TableAt(<<>>), TableAt(<<Key(B)>>),
                << <<Key(B), Key(A)>>, <<"1", ".", "5">>>>,
                << <<Key(C)>>, <<"1">>>>}]

\* The statements: a value is set, a table or an element of an array begins,
\* nothing, or a line that is no statement.
Set(path, value) == [what |-> "set", path |-> path, value |-> value]
Begin(path)      == [what |-> "table", path |-> path]
Another(path)    == [what |-> "element", path |-> path]
Blank(text1)     == [what |-> "blank", text |-> text1]
Broken(text1)    == [what |-> "broken", text |-> text1]

Dotted(path) == Tail(FlattenSeq([i \in 1 .. Len(path) |-> <<".">> \o path[i]]))
Printed(s) ==
    CASE s.what = "set"     -> Dotted(s.path) \o <<" ", "=">> \o s.value.text
      [] s.what = "table"   -> <<"[">> \o Dotted(s.path) \o <<"]", " ", "#", "[">>
      [] s.what = "element" -> <<"[", "[">> \o Dotted(s.path) \o <<"]", "]">>
      [] OTHER              -> s.text

MCStatements ==
    {Set(<<A>>, v) : v \in {Integer, ArrayOfTables, MixedArray, ArrayOfValues}}
    \cup {Set(<< <<"tty">>>>, v) : v \in {Fraction, BasicString, Strings}}
    \cup {Set(<<A, C>>, Integer), Set(<<B>>, InlineTable), Set(<<C>>, Integer),
          Set(<<QuotedA>>, Integer), Set(<< <<"item_mstime">>>>, Integer)}
    \cup {Begin(<<A>>), Begin(<<A, B>>), Begin(<<A, B, C>>), Begin(<< <<"main">>>>),
          Another(<<A>>), Another(<<A, B>>)}
    \cup {Blank(<<"#", "]">>)}
    \cup {Broken(t) : t \in
             {A \o <<"=">>, A, <<"=", "1">>, A \o <<"=", "[", "1">>,
              <<"[">> \o A \o <<"]", "1">>, <<"[", " ", "[">> \o A \o <<"]", "]">>,
              <<"[", "[">> \o A \o <<"]", " ", "]">>, <<"[">> \o A \o <<".", "]">>,
              <<"[">> \o A \o <<"=", "]">>,
              A \o <<"=", "{">> \o C \o <<"=", "1">>, A \o <<"=", "[", "1", "!">>,
              <<"!">>, <<"+1", "=", "1">>, A \o <<"=", "1", " ", "1">>,
              A \o <<"=", "\"", "\\", "1", "\"">>, A \o <<"=", "\"", "1">>,
              A \o <<"=", "'", "'", "'", "1">>}}

MCLines == {Printed(s) : s \in MCStatements}
StatementOf == [line \in MCLines |->
                    CHOOSE s \in MCStatements : Printed(s) = line]

MCIdOf == A :> 1 @@ B :> 2
MCIntOf == <<"1">> :> 1
MCIdKeys == {A, B}
MCIntFields == {<<"item_mstime">>}
MCStringFields == {<<"tty">>}
MCIdFields == {C}

-----------------------------------------------------------------------------
\* What a file means, one statement after the other, to [facts, prefix,
\* implied, fixed, clash]: the table that is open is at prefix, the tables
\* that were only named on the way to others are implied, those written
\* between braces are fixed, and clash tells that a statement has no meaning.

Paths(facts) == {f[1] : f \in facts}
Elements(facts, p) == Cardinality({i \in 1 .. MaxLines + 1 :
                                     Append(p, Item(i)) \in Paths(facts)})

OnlyTables(facts, p) ==
    /\ Elements(facts, p) > 0
    /\ \A i \in 1 .. Elements(facts, p) : TableAt(Append(p, Item(i))) \in facts

\* On the way of a header, an array of tables stands for its last element.
Enter(m, key) ==
    LET p == Append(m.prefix, Key(key))
        many == ArrayAt(p) \in m.facts
        to == IF many THEN Append(p, Item(Elements(m.facts, p))) ELSE p
    IN [m EXCEPT !.prefix = to,
                 !.implied = IF to \in Paths(m.facts) THEN @ ELSE @ \cup {to},
                 !.facts = @ \cup {TableAt(to)},
                 !.clash = @ \/ (many /\ ~OnlyTables(m.facts, p))]

\* The facts are given, at paths where there was nothing.
Give(m, facts) ==
    [m EXCEPT !.facts = @ \cup facts,
              !.implied = @ \ Paths(facts),
              !.clash = @ \/ Paths(facts) \cap (Paths(m.facts) \ m.implied) # {}]

SetMeans(m, s) ==
    LET at(n) == m.prefix \o [i \in 1 .. n |-> Key(Meant(s.path[i]))]
        into == {at(n) : n \in 1 .. Len(s.path) - 1}
        facts == Under(at(Len(s.path)), s.value.facts)
    IN Give([m EXCEPT !.facts = @ \cup {TableAt(p) : p \in into},
                      !.fixed = @ \cup {p \in Paths(facts) : TableAt(p) \in facts},
                      !.clash = @ \/ into \cap m.fixed # {}],
            facts)

BeginMeans(m, s) ==
    LET at == FoldLeft(Enter, [m EXCEPT !.prefix = <<>>], Front(s.path))
        p  == Append(at.prefix, Key(Last(s.path)))
    IN [Give(at, {TableAt(p)}) EXCEPT !.prefix = p,
                                      !.clash = @ \/ Len(s.path) > MaxPath]

ElementMeans(m, s) ==
    LET at == FoldLeft(Enter, [m EXCEPT !.prefix = <<>>], Front(s.path))
        p  == Append(at.prefix, Key(Last(s.path)))
        e  == Append(p, Item(Elements(at.facts, p) + 1))
    IN [Give([at EXCEPT !.facts = @ \cup {ArrayAt(p)}], {TableAt(e)})
            EXCEPT !.prefix = e,
                   !.clash = \/ @
                             \/ Len(s.path) > MaxPath
                             \/ ArrayAt(p) \in at.facts /\ ~OnlyTables(at.facts, p)]

Means(m, s) ==
    CASE s.what = "set"     -> SetMeans(m, s)
      [] s.what = "table"   -> BeginMeans(m, s)
      [] s.what = "element" -> ElementMeans(m, s)
      [] s.what = "blank"   -> m
      [] s.what = "broken"  -> [m EXCEPT !.clash = TRUE]

MeaningOf(n) ==
    LET statements == [i \in 1 .. n |-> StatementOf[file[i]]]
    IN FoldLeft(Means, [facts |-> {}, prefix |-> <<>>, implied |-> {},
                        fixed |-> {}, clash |-> FALSE], statements)
Meaning == MeaningOf(Len(file))

\* Nothing is two things at once.
Consistent(m) ==
    ~m.clash /\ \A f, g \in m.facts : f[1] = g[1] => f = g

-----------------------------------------------------------------------------
\* What the tree says.

Said(raw) == IF Quotes(raw) = 0 THEN raw ELSE <<"string">> \o toml_rtos(raw)

RECURSIVE TreeFacts(_, _)
ItemFacts(item, p) ==
    IF item.arr # 0 THEN TreeFacts(item.arr, p)
    ELSE IF item.tab # 0 THEN TreeFacts(item.tab, p) ELSE {<<p, Said(item.val)>>}
TreeFacts(n, p) ==
    LET t == heap[n]
        sub(entries) == UNION {TreeFacts(entries[i].node, Append(p, Key(entries[i].key)))
                                 : i \in 1 .. Len(entries)}
    IN IF t.node = "table"
       THEN {TableAt(p)} \cup sub(t.arr) \cup sub(t.tab)
            \cup {<<Append(p, Key(t.kval[i].key)), Said(t.kval[i].val)>>
                    : i \in 1 .. Len(t.kval)}
       ELSE {ArrayAt(p)}
            \cup UNION {ItemFacts(t.item[i], Append(p, Item(i)))
                          : i \in 1 .. Len(t.item)}

Parsed == result = "ok" /\ work = <<>> /\ heap[1] # Freed

\* A file that is accepted is read for what it says: every value, table and
\* element is where the file put it, values whole, and there is nothing else.
Faithful == Parsed => TreeFacts(1, <<>>) \ {TableAt(<<>>)} = Meaning.facts

\* Nothing is said twice in a file that is accepted: no path is given two
\* values, two headers, or a value and a table, under whatever name.
SaidOnce == Parsed => Consistent(Meaning)

\* Only a file that is wrong is refused.
RefusedForReason == result = "error" => ~Consistent(Meaning)

\* What the file says of a field of [main], which is Unset otherwise.
Names(facts) == {k \in {MainKey, A, B} : <<Key(k)>> \in Paths(facts)}
SaidOf(field, otherwise) ==
    LET said == {f[2] : f \in {g \in Meaning.facts :
                                  g[1] = <<Key(MainKey), Key(field)>>}}
    IN IF said = {} THEN otherwise ELSE CHOOSE what \in said : TRUE

MainFromFile(main) ==
    /\ \A f \in MCIntFields :
          main.ints[f] = IF SaidOf(f, <<>>) = <<"1">> THEN 1 ELSE Unset
    /\ \A f \in MCStringFields :
          LET said == SaidOf(f, <<Unset>>)
          IN main.strings[f] =
                IF Head(said) = "string" /\ Tail(said) # Unreadable
                THEN Tail(said) ELSE <<Unset>>

\* The devices are polled in the order in which the file first names them,
\* each once, with its own numbers.
FirstNamed(k) == Min({n \in 1 .. Len(file) : k \in Names(MeaningOf(n).facts)})
CountOf(k) == IF << <<Key(k), Key(C)>>, <<"1">>>> \in Meaning.facts THEN 1 ELSE 0

DevicesFromFile(list) ==
    LET ids == Names(Meaning.facts) \ {MainKey}
        place(k) == CHOOSE i \in 1 .. Len(list) : list[i].id = IdOf[k]
    IN /\ {list[i] : i \in 1 .. Len(list)} =
             {[id |-> IdOf[k], fields |-> [f \in {C} |-> CountOf(k)]] : k \in ids}
       /\ Len(list) = Cardinality(ids)
       /\ \A k, l \in ids : FirstNamed(k) < FirstNamed(l) => place(k) < place(l)

\* The publisher polls the devices of its file, and has its ports from there;
\* [main] and the devices are tables, or the file is refused.
ConfigFromFile ==
    Parsed =>
        LET info == setup_tty_info(heap)
        IN /\ info.failed = \E k \in Names(Meaning.facts) :
                                TableAt(<<Key(k)>>) \notin Meaning.facts
           /\ ~info.failed => MainFromFile(info.main) /\ DevicesFromFile(info.id_list)

FairSpec == Spec /\ WF_vars(Next)

\* Every file is read to its end or refused, and then freed.
Ends == <>(result # "none" /\ heap[1] = Freed)
=============================================================================
