------------------------------ MODULE TomlParser ------------------------------
(***************************************************************************)
(* The parser of the configuration files, src/tty_reader/toml.c: a lexer   *)
(* that looks one token ahead and takes a dot for a token or for a part of *)
(* a word as its caller says, and a recursive descent that builds a tree   *)
(* of tables and arrays.  The calls of the descent are the stack calls.    *)
(*                                                                         *)
(* A character or a run of characters that the lexer never splits is one   *)
(* symbol; a word, a key or a value is a sequence of symbols.  The file is *)
(* chosen line by line, when the parser gets there.  Memory that cannot be *)
(* allocated is not modelled, nor are dates and times without quotes, and  *)
(* a code point is the same whatever its number.                           *)
(***************************************************************************)
EXTENDS Integers, Sequences, SequencesExt, FiniteSetsExt

CONSTANTS
    Words,      \* runs of letters, digits and +-_
    BadKeys,    \* those of them that are no bare key
    Lines,      \* what a line may be: each a sequence of symbols
    MaxPath,    \* entries of tpath: 10 in the code
    MaxLines    \* bound: lines of a file

NL == "\n"

Punctuation ==
    [s \in {".", ",", "=", "{", "}", "[", "]", NL} |->
        CASE s = "." -> "DOT"    [] s = "," -> "COMMA"
          [] s = "=" -> "EQUAL"  [] s = NL  -> "NEWLINE"
          [] s = "{" -> "LBRACE" [] s = "}" -> "RBRACE"
          [] s = "[" -> "LBRACKET" [] s = "]" -> "RBRACKET"]

ASSUME TomlAssumption ==
    /\ BadKeys \subseteq Words
    /\ Words \cap (DOMAIN Punctuation \cup {"'", "\"", "\\", " ", "#"}) = {}
    /\ MaxPath \in Nat \ {0} /\ MaxLines \in Nat

VARIABLES
    file,     \* the lines of the file so far
    closed,   \* there are no more
    text,     \* what is left of them after ctx.tok
    tok,      \* ctx.tok: its kind, its symbols, eof
    heap,     \* the tables and arrays; the first is ctx.root
    curtab,   \* ctx.curtab
    calls,    \* toml_parse's calls in progress, the innermost last
    result,   \* "none", "ok" or "error": what toml_parse returned
    work      \* nodes that toml_free has yet to free, or 0

input == <<file, closed>>
lexer == <<text, tok>>
vars  == <<input, lexer, heap, curtab, calls, result, work>>

-----------------------------------------------------------------------------
\* The lexer.

Commented(i) == \E h \in 1 .. i : /\ text[h] = "#"
                                  /\ \A k \in h .. i : text[k] # NL

Starts == {i \in 1 .. Len(text) : text[i] # " " /\ ~Commented(i)}

\* How many symbols the escape at the backslash str[i] takes, 0 if it is wrong.
Hex == {"0", "1", "2", "3", "4", "5", "6", "7", "8", "9",
        "A", "B", "C", "D", "E", "F"}
HexAt(str, i, n) == i + n - 1 <= Len(str) /\ \A k \in i .. i + n - 1 : str[k] \in Hex

EscapeLen(str, i) ==
    IF i = Len(str) THEN 0
    ELSE CASE str[i + 1] \in {"b", "t", "n", "f", "r", "\"", "\\"} -> 2
           [] str[i + 1] = "u" /\ HexAt(str, i + 2, 4) -> 6
           [] str[i + 1] = "U" /\ HexAt(str, i + 2, 8) -> 10
           [] OTHER -> 0

\* Only blanks up to the end of the line.
LineEnds(str, i) == \E j \in i .. Len(str) :
                        str[j] = NL /\ \A k \in i .. j - 1 : str[k] = " "

Three(str, i, quote) == /\ i + 2 <= Len(str)
                        /\ \A k \in i .. i + 2 : str[k] = quote

\* scan_string: how many symbols the string at p takes, -1 for an error.

\* The first three quotes that end it; any that follow belong to it.
Closes(p, quote) == {q \in p + 3 .. Len(text) :
                        /\ Three(text, q, quote)
                        /\ quote = "\"" => text[q - 1] # "\\"}

EscapesRight(from, to) ==
    LET right[i \in Nat] ==
          IF i >= to + 1 THEN i = to + 1
          ELSE IF text[i] # "\\" THEN right[i + 1]
          ELSE IF LineEnds(text, i + 1) THEN right[i + 2]
          ELSE EscapeLen(text, i) > 0 /\ right[i + EscapeLen(text, i)]
    IN right[from]

scan_triple(p, quote) ==
    LET closes == Closes(p, quote)
        after == Min({r \in Min(closes) .. Len(text) + 1 :
                        r = Len(text) + 1 \/ text[r] # quote})
    IN IF closes # {} /\ (quote = "\"" => EscapesRight(p + 3, after - 4))
       THEN after - p ELSE -1

scan_literal(p) ==
    LET ends == {q \in p + 1 .. Len(text) : text[q] \in {"'", NL}}
    IN IF ends # {} /\ text[Min(ends)] = "'" THEN Min(ends) + 1 - p ELSE -1

scan_basic(p) ==
    LET quote[i \in Nat] ==
          IF i > Len(text) \/ text[i] = NL \/ Three(text, i, "'") THEN 0
          ELSE IF text[i] = "\"" THEN i
          ELSE IF text[i] # "\\" THEN quote[i + 1]
          ELSE IF EscapeLen(text, i) > 0 THEN quote[i + EscapeLen(text, i)] ELSE 0
        end == quote[p + 1]
    IN IF end > 0 THEN end + 1 - p ELSE -1

InWord(s, dotisspecial) == s \in Words \/ (s = "." /\ ~dotisspecial)
scan_word(p, dotisspecial) ==
    Max({n \in 0 .. Len(text) - p + 1 :
            \A k \in p .. p + n - 1 : InWord(text[k], dotisspecial)})

scan_string(p, dotisspecial) ==
    CASE text[p] \in {"'", "\""} /\ Three(text, p, text[p]) -> scan_triple(p, text[p])
      [] text[p] = "'" /\ ~Three(text, p, "'")   -> scan_literal(p)
      [] text[p] = "\"" /\ ~Three(text, p, "\"") -> scan_basic(p)
      [] OTHER -> scan_word(p, dotisspecial)

Token(kind, p, len) ==
    [tok |-> kind, word |-> SubSeq(text, p, p + len - 1), eof |-> FALSE]

TokenAt(p, dotisspecial) ==
    LET len == scan_string(p, dotisspecial)
    IN IF text[p] \in DOMAIN Punctuation /\ ~InWord(text[p], dotisspecial)
       THEN Token(Punctuation[text[p]], p, 1)
       ELSE IF len = -1 THEN Token("INVALID", p, 0) ELSE Token("STRING", p, len)

EndOfFile == [tok |-> "NEWLINE", word |-> <<>>, eof |-> TRUE]

\* What there is of the file does not tell the next token.
Unread ==
    Starts # {} => LET p == Min(Starts)
                   IN /\ text[p] \in {"'", "\""} /\ Three(text, p, text[p])
                      /\ Closes(p, text[p]) = {}

next_token(dotisspecial) ==
    /\ Unread => closed
    /\ IF Starts = {} THEN tok' = EndOfFile /\ text' = <<>>
       ELSE \E p \in {Min(Starts)} : \E token \in {TokenAt(p, dotisspecial)} :
              /\ tok' = token
              /\ text' = SubSeq(text, p + Len(token.word), Len(text))

\* "[[" and "]]" are told by looking at the next symbol.
Adjacent(s) == text # <<>> /\ Head(text) = s

\* What a quoted string says, or Unreadable: norm_basic_str, norm_lit_str.
Unreadable == <<NL, NL>>
Controls == {"^A"}
Forbidden(s, multiline) == s \in Controls \/ (s = NL /\ ~multiline)
EscapeMeans(s) == CASE s = "n" -> NL [] s = "t" -> " " [] s = "r" -> " "
                    [] s \in {"b", "f"} -> "^A" [] OTHER -> s

NextInk(str, i) == Min({j \in i .. Len(str) + 1 :
                          j = Len(str) + 1 \/ str[j] \notin {" ", NL}})

norm_lit_str(str, multiline) ==
    IF \E i \in 1 .. Len(str) : Forbidden(str[i], multiline) THEN Unreadable ELSE str

Bad == "bad"
norm_basic_str(str, multiline) ==
    LET said[i \in Nat] ==
          IF i > Len(str) THEN <<>>
          ELSE IF Forbidden(str[i], multiline) THEN <<Bad>>
          ELSE IF str[i] # "\\" THEN <<str[i]>> \o said[i + 1]
          ELSE IF multiline /\ LineEnds(str, i + 1) THEN said[NextInk(str, i + 1)]
          ELSE CASE EscapeLen(str, i) = 0 -> <<Bad>>
                 [] EscapeLen(str, i) = 2 -> <<EscapeMeans(str[i + 1])>> \o said[i + 2]
                 [] OTHER -> <<"code">> \o said[i + EscapeLen(str, i)]
    IN IF Bad \in ToSet(said[1]) THEN Unreadable ELSE said[1]

Quotes(str) == IF str = <<>> \/ Head(str) \notin {"'", "\""} THEN 0
               ELSE IF Three(str, 1, Head(str)) THEN 3 ELSE 1
Inside(str, n) == SubSeq(str, n + 1, Len(str) - n)

BadKey == <<NL>>
normalize_key(str) ==
    LET n == Quotes(str)
        key == IF Head(str) = "'" THEN Inside(str, n)
               ELSE norm_basic_str(Inside(str, n), n = 3)
    IN IF n = 0
       THEN IF \E i \in 1 .. Len(str) : str[i] \in BadKeys THEN BadKey ELSE str
       ELSE IF \E i \in 1 .. Len(key) : key[i] = NL THEN BadKey ELSE key

\* toml_rtos: a newline right after the opening quotes does not count.
toml_rtos(str) ==
    LET n == Quotes(str)
        all == Inside(str, n)
        it == IF n = 3 /\ all # <<>> /\ Head(all) = NL THEN Tail(all) ELSE all
    IN IF n = 0 THEN Unreadable
       ELSE IF Head(str) = "'" THEN norm_lit_str(it, n = 3)
       ELSE norm_basic_str(it, n = 3)

Is(kind) == tok.tok = kind
-----------------------------------------------------------------------------
\* The tree.  A table's entries are records [key, val] and [key, node].

NewTable == [node |-> "table", kval |-> <<>>, arr |-> <<>>, tab |-> <<>>,
             implicit |-> FALSE, readonly |-> FALSE]
NewArray(kind) == [node |-> "array", kind |-> kind, item |-> <<>>]
Freed == [node |-> "freed"]

HasKey(entries, key) == \E i \in 1 .. Len(entries) : entries[i].key = key
NodeOf(entries, key) ==
    IF HasKey(entries, key)
    THEN entries[Min({i \in 1 .. Len(entries) : entries[i].key = key})].node
    ELSE 0

toml_array_in(h, tab, key) == NodeOf(h[tab].arr, key)
toml_table_in(h, tab, key) == NodeOf(h[tab].tab, key)

check_key(h, tab, key) ==
    CASE HasKey(h[tab].kval, key) -> "v"
      [] ~HasKey(h[tab].kval, key) /\ HasKey(h[tab].arr, key) -> "a"
      [] ~HasKey(h[tab].kval, key) /\ ~HasKey(h[tab].arr, key)
            /\ HasKey(h[tab].tab, key) -> "t"
      [] OTHER -> "none"

\* What the create functions return: the heap and the new node, 0 for none.
Nothing(h) == [heap |-> h, node |-> 0]
BugAbsent(h, tab, key) == key # BadKey /\ ~HasKey(h[tab].kval, key)
Absent(h, tab, key) == key # BadKey /\ check_key(h, tab, key) = "none"
WithTable(h, tab, key, made) ==
    [heap |-> Append([h EXCEPT ![tab].tab =
                        Append(@, [key |-> key, node |-> Len(h) + 1])], made),
     node |-> Len(h) + 1]

create_keyval_in_table(tab, key, val) ==
    IF Absent(heap, tab, key)
    THEN [heap |-> [heap EXCEPT ![tab].kval =
                        Append(@, [key |-> key, val |-> val])], node |-> tab]
    ELSE Nothing(heap)

\* A table that was created implicitly is made explicit.
BugCreateKeytable(h, tab, key) ==
    LET there == toml_table_in(h, tab, key)
        made == WithTable(h, tab, key, NewTable)
    IN IF Absent(h, tab, key) THEN made
       ELSE IF check_key(h, tab, key) = "t" /\ h[there].implicit
       THEN [heap |-> [h EXCEPT ![tab].tab = Append(@, [key |-> key, node |-> there])],
             node |-> there]
       ELSE Nothing(h)
BugMadeAnew(h, tab, key) ==
    LET there == toml_table_in(h, tab, key)
    IN IF Absent(h, tab, key) THEN WithTable(h, tab, key, NewTable)
       ELSE IF key # BadKey /\ check_key(h, tab, key) = "t" /\ h[there].implicit
       THEN [heap |-> [h EXCEPT ![there] = NewTable], node |-> there]
       ELSE Nothing(h)
create_keytable_in_table(h, tab, key) ==
    LET there == toml_table_in(h, tab, key)
    IN IF Absent(h, tab, key) THEN WithTable(h, tab, key, NewTable)
       ELSE IF key # BadKey /\ check_key(h, tab, key) = "t" /\ h[there].implicit
       THEN [heap |-> [h EXCEPT ![there].implicit = FALSE], node |-> there]
       ELSE Nothing(h)

create_keyarray_in_table(h, tab, key, kind) ==
    IF Absent(h, tab, key)
    THEN [heap |-> Append([h EXCEPT ![tab].arr =
                        Append(@, [key |-> key, node |-> Len(h) + 1])],
                     NewArray(kind)),
          node |-> Len(h) + 1]
    ELSE Nothing(h)

\* An item has a value, an array or a table; 0 and no symbols stand for NULL.
WithItem(h, arr, val, subarr, subtab) ==
    [h EXCEPT ![arr].item =
        Append(@, [val |-> val, arr |-> subarr, tab |-> subtab])]

create_value_in_array(h, arr, val) == WithItem(h, arr, val, 0, 0)
create_array_in_array(h, arr) ==
    Append(WithItem(h, arr, <<>>, Len(h) + 1, 0), NewArray("0"))
create_table_in_array(h, arr) ==
    Append(WithItem(h, arr, <<>>, 0, Len(h) + 1), NewTable)

\* arr->kind when an item of that kind is added.
BugKindWith(kind, added) == IF kind = "0" THEN added ELSE kind
KindWith(kind, added) ==
    IF kind = "0" \/ kind = added THEN added ELSE "m"
SetKind(arr, kind) == [heap EXCEPT ![arr].kind = KindWith(@, kind)]

BugLastTable(items) == Head(items).tab
LastTable(items) == Last(items).tab

\* One step of walk_tabpath from [heap, tab]; tab is 0 after an error.
Walk(at, key) ==
    IF at.tab = 0 THEN at
    ELSE LET h == at.heap
             arr == toml_array_in(h, at.tab, key)
             kind == check_key(h, at.tab, key)
             made == WithTable(h, at.tab, key, [NewTable EXCEPT !.implicit = TRUE])
         IN CASE kind = "t" -> [at EXCEPT !.tab = toml_table_in(h, at.tab, key)]
              [] kind = "a" ->
                   [at EXCEPT !.tab = IF h[arr].kind = "t" /\ h[arr].item # <<>>
                                      THEN LastTable(h[arr].item) ELSE 0]
              [] kind = "v" -> [at EXCEPT !.tab = 0]
              [] kind = "none" -> [heap |-> made.heap, tab |-> made.node]

walk_tabpath(path) ==
    LET at[i \in 0 .. Len(path)] ==
          IF i = 0 THEN [heap |-> heap, tab |-> 1] ELSE Walk(at[i - 1], path[i])
    IN at[Len(path)]

-----------------------------------------------------------------------------
Init ==
    /\ file = <<>> /\ closed = FALSE /\ text = <<>>
    /\ tok = [tok |-> "NEWLINE", word |-> <<>>, eof |-> FALSE]
    /\ heap = <<NewTable>> /\ curtab = 1
    /\ calls = <<>> /\ result = "none" /\ work = <<>>

\* The file, one line more, or its end, when the parser gets there.
Wanted == result = "none" /\ Unread /\ ~closed

MoreFile ==
    /\ Wanted /\ Len(file) < MaxLines
    /\ \E line \in Lines :
          /\ file' = Append(file, line)
          /\ text' = text \o (IF file = <<>> THEN <<>> ELSE <<NL>>) \o line
    /\ UNCHANGED <<closed, tok, heap, curtab, calls, result, work>>

CloseFile ==
    /\ Wanted /\ closed' = TRUE
    /\ UNCHANGED <<file, lexer, heap, curtab, calls, result, work>>

-----------------------------------------------------------------------------
\* Calls and returns.  next_token ends every step that does not fail.

Outer == Front(calls)
Top == Last(calls)
InMain == result = "none" /\ calls = <<>>
In(proc) == result = "none" /\ calls # <<>> /\ Top.proc = proc

Frame(proc, node) == [proc |-> proc, node |-> node]
Goto(frame) == calls' = Append(Outer, frame)
GoCall(frame, callee) == calls' = Append(Append(Outer, frame), callee)
Return == calls' = Outer

Parses == UNCHANGED <<input, result, work>>
Keeps == UNCHANGED <<heap, curtab>>

\* "goto fail": toml_free of the root with all that has been linked to it,
\* and 0.  ctx.curtab is not looked at any more.
FailWith(h) == /\ result' = "error" /\ calls' = <<>> /\ work' = <<1>>
               /\ heap' = h /\ UNCHANGED <<input, lexer, curtab>>
Fail == FailWith(heap)

-----------------------------------------------------------------------------
\* toml_parse: its loop.

MainNewline ==
    /\ InMain /\ Is("NEWLINE") /\ ~tok.eof
    /\ next_token(TRUE) /\ Parses /\ Keeps /\ UNCHANGED calls

MainKeyval ==
    /\ InMain /\ Is("STRING")
    /\ calls' = <<Frame("endline", 0), Frame("keyval", curtab)>>
    /\ Parses /\ Keeps /\ UNCHANGED lexer

MainSelect ==
    /\ InMain /\ Is("LBRACKET")
    /\ calls' = <<[proc |-> IF Adjacent("[") THEN "bracket" ELSE "path",
                   llb |-> Adjacent("["), path |-> <<>>]>>
    /\ next_token(TRUE) /\ Parses /\ Keeps

MainFail ==
    /\ InMain /\ tok.tok \notin {"NEWLINE", "STRING", "LBRACKET"}
    /\ Fail

MainEnd ==
    /\ InMain /\ tok.eof /\ result' = "ok"
    /\ UNCHANGED <<input, lexer, heap, curtab, calls, work>>

EndLine ==
    /\ In("endline")
    /\ IF Is("NEWLINE")
       THEN next_token(TRUE) /\ Return /\ Parses /\ Keeps
       ELSE Fail

-----------------------------------------------------------------------------
\* parse_keyval: the key, what follows it, the value.

KeyvalKey ==
    /\ In("keyval")
    /\ IF heap[Top.node].readonly \/ ~Is("STRING") THEN Fail
       ELSE /\ Goto([proc |-> "afterkey", node |-> Top.node,
                     key |-> normalize_key(tok.word)])
            /\ next_token(TRUE) /\ Parses /\ Keeps

KeyvalDot ==
    /\ In("afterkey") /\ Is("DOT")
    /\ LET there == toml_table_in(heap, Top.node, Top.key)
           made == create_keytable_in_table(heap, Top.node, Top.key)
           subtab == IF there # 0 THEN [heap |-> heap, node |-> there] ELSE made
       IN IF subtab.node = 0 THEN Fail
          ELSE /\ heap' = subtab.heap /\ Goto(Frame("keyval", subtab.node))
               /\ next_token(TRUE) /\ Parses /\ UNCHANGED curtab

\* A value's words are taken whole, dots and all.
BugEqual == /\ In("afterkey") /\ Is("EQUAL")
            /\ Goto([Top EXCEPT !.proc = "value"])
            /\ next_token(TRUE) /\ Parses /\ Keeps
KeyvalEqual ==
    /\ In("afterkey") /\ Is("EQUAL")
    /\ Goto([Top EXCEPT !.proc = "value"])
    /\ next_token(FALSE) /\ Parses /\ Keeps

KeyvalNoEqual == In("afterkey") /\ ~Is("DOT") /\ ~Is("EQUAL") /\ Fail

ValueString ==
    /\ In("value") /\ Is("STRING")
    /\ LET made == create_keyval_in_table(Top.node, Top.key, tok.word)
       IN IF made.node = 0 THEN Fail
          ELSE /\ heap' = made.heap /\ Return
               /\ next_token(TRUE) /\ Parses /\ UNCHANGED curtab

ValueArray ==
    /\ In("value") /\ Is("LBRACKET")
    /\ LET made == create_keyarray_in_table(heap, Top.node, Top.key, "0")
       IN IF made.node = 0 THEN Fail
          ELSE /\ heap' = made.heap /\ Goto(Frame("array", made.node))
               /\ next_token(FALSE) /\ Parses /\ UNCHANGED curtab

ValueTable ==
    /\ In("value") /\ Is("LBRACE")
    /\ LET made == create_keytable_in_table(heap, Top.node, Top.key)
       IN IF made.node = 0 THEN Fail
          ELSE /\ heap' = made.heap /\ Goto(Frame("inline", made.node))
               /\ next_token(TRUE) /\ Parses /\ UNCHANGED curtab

ValueFail ==
    In("value") /\ tok.tok \notin {"STRING", "LBRACKET", "LBRACE"} /\ Fail

-----------------------------------------------------------------------------
\* parse_inline_table, after "{" or "," and after an entry.

InlineEntry ==
    /\ In("inline") /\ Is("STRING")
    /\ GoCall(Frame("inlinenext", Top.node), Frame("keyval", Top.node))
    /\ Parses /\ Keeps /\ UNCHANGED lexer

InlineComma ==
    /\ In("inlinenext") /\ Is("COMMA")
    /\ Goto(Frame("inline", Top.node))
    /\ next_token(TRUE) /\ Parses /\ Keeps

InlineEnd ==
    /\ In("inline") \/ In("inlinenext")
    /\ Is("RBRACE")
    /\ heap' = [heap EXCEPT ![Top.node].readonly = TRUE]
    /\ Return /\ next_token(TRUE) /\ Parses /\ UNCHANGED curtab

InlineFail ==
    /\ \/ In("inline") /\ tok.tok \notin {"STRING", "RBRACE"}
       \/ In("inlinenext") /\ tok.tok \notin {"COMMA", "RBRACE"}
    /\ Fail

-----------------------------------------------------------------------------
\* parse_array, after "[" or "," and after an item.

BugMoreLines == Is("NEWLINE")
MoreLines == Is("NEWLINE") /\ ~tok.eof

ArrayNewline ==
    /\ In("array") \/ In("arraynext")
    /\ MoreLines
    /\ next_token(FALSE) /\ Parses /\ Keeps /\ UNCHANGED calls

AfterItem == Frame("arraynext", Top.node)

ArrayValue ==
    /\ In("array") /\ Is("STRING")
    /\ heap' = create_value_in_array(SetKind(Top.node, "v"), Top.node, tok.word)
    /\ Goto(AfterItem)
    /\ next_token(FALSE) /\ Parses /\ UNCHANGED curtab

ArrayArray ==
    /\ In("array") /\ Is("LBRACKET")
    /\ heap' = create_array_in_array(SetKind(Top.node, "a"), Top.node)
    /\ GoCall(AfterItem, Frame("array", Len(heap) + 1))
    /\ next_token(FALSE) /\ Parses /\ UNCHANGED curtab

ArrayTable ==
    /\ In("array") /\ Is("LBRACE")
    /\ heap' = create_table_in_array(SetKind(Top.node, "t"), Top.node)
    /\ GoCall(AfterItem, Frame("inline", Len(heap) + 1))
    /\ next_token(TRUE) /\ Parses /\ UNCHANGED curtab

ArrayComma ==
    /\ In("arraynext") /\ Is("COMMA")
    /\ Goto(Frame("array", Top.node))
    /\ next_token(FALSE) /\ Parses /\ Keeps

ArrayEnd ==
    /\ In("array") \/ In("arraynext")
    /\ Is("RBRACKET")
    /\ Return /\ next_token(TRUE) /\ Parses /\ Keeps

ArrayFail ==
    /\ ~MoreLines
    /\ \/ In("array")
          /\ tok.tok \notin {"STRING", "LBRACKET", "LBRACE", "RBRACKET"}
       \/ In("arraynext") /\ tok.tok \notin {"COMMA", "RBRACKET"}
    /\ Fail

-----------------------------------------------------------------------------
\* parse_select: [x.y.z] or [[x.y.z]].

SelectBracket ==
    /\ In("bracket") /\ Goto([Top EXCEPT !.proc = "path"])
    /\ next_token(TRUE) /\ Parses /\ Keeps

\* fill_tabpath
PathKey ==
    /\ In("path")
    /\ LET key == normalize_key(tok.word)
       IN IF Len(Top.path) >= MaxPath \/ ~Is("STRING") \/ key = BadKey THEN Fail
          ELSE /\ Goto([Top EXCEPT !.proc = "pathnext",
                                   !.path = Append(@, key)])
               /\ next_token(TRUE) /\ Parses /\ Keeps

PathDot ==
    /\ In("pathnext") /\ Is("DOT")
    /\ Goto([Top EXCEPT !.proc = "path"])
    /\ next_token(TRUE) /\ Parses /\ Keeps

PathFail == In("pathnext") /\ ~Is("DOT") /\ ~Is("RBRACKET") /\ Fail

\* z is created in x.y, or a table is appended to the array z.
SelectTable(at, z) == create_keytable_in_table(at.heap, at.tab, z)

SelectElement(at, z) ==
    LET there == toml_array_in(at.heap, at.tab, z)
        arr == IF there # 0 THEN [heap |-> at.heap, node |-> there]
               ELSE create_keyarray_in_table(at.heap, at.tab, z, "t")
    IN IF arr.node = 0 \/ arr.heap[arr.node].kind # "t" THEN Nothing(arr.heap)
       ELSE [heap |-> create_table_in_array(arr.heap, arr.node),
             node |-> Len(arr.heap) + 1]

Selected ==
    LET at == walk_tabpath(Front(Top.path))
    IN IF at.tab = 0 THEN Nothing(at.heap)
       ELSE IF Top.llb THEN SelectElement(at, Last(Top.path))
            ELSE SelectTable(at, Last(Top.path))

\* What has been linked before the header is refused stays.
SelectEnd ==
    /\ In("pathnext") /\ Is("RBRACKET")
    /\ IF Selected.node = 0 \/ (Top.llb /\ ~Adjacent("]"))
       THEN FailWith(Selected.heap)
       ELSE /\ heap' = Selected.heap /\ curtab' = Selected.node
            /\ Goto([Top EXCEPT !.proc = IF Top.llb THEN "close" ELSE "selected"])
            /\ next_token(TRUE) /\ Parses

SelectClose ==
    /\ In("close") /\ Goto([Top EXCEPT !.proc = "selected"])
    /\ next_token(TRUE) /\ Parses /\ Keeps

SelectLine ==
    /\ In("selected")
    /\ IF Is("NEWLINE") THEN Return /\ Parses /\ Keeps /\ UNCHANGED lexer
       ELSE Fail

-----------------------------------------------------------------------------
\* toml_free: by toml_parse when it fails, else by its caller, at the end.

FreeRoot ==
    /\ result = "ok" /\ heap[1] # Freed /\ work = <<>> /\ work' = <<1>>
    /\ UNCHANGED <<input, lexer, heap, curtab, calls, result>>

Nodes(entries) == [i \in 1 .. Len(entries) |-> entries[i].node]
NodeIn(item) == IF item.val # <<>> THEN 0 ELSE IF item.arr # 0 THEN item.arr ELSE item.tab
Children(n) ==
    IF n.node = "table" THEN Nodes(n.arr) \o Nodes(n.tab)
    ELSE [i \in 1 .. Len(n.item) |-> NodeIn(n.item[i])]

\* An item that is a value, for which 0 stands, has no node of its own.
FreeNode ==
    /\ work # <<>>
    /\ IF Head(work) = 0 THEN work' = Tail(work) /\ UNCHANGED heap
       ELSE /\ heap' = [heap EXCEPT ![Head(work)] = Freed]
            /\ work' = Children(heap[Head(work)]) \o Tail(work)
    /\ UNCHANGED <<input, lexer, curtab, calls, result>>

Stopped == heap[1] = Freed /\ work = <<>> /\ UNCHANGED vars

-----------------------------------------------------------------------------
World  == MoreFile \/ CloseFile
Main   == \/ MainNewline \/ MainKeyval \/ MainSelect \/ MainFail \/ MainEnd
          \/ EndLine
Keyval == \/ KeyvalKey \/ KeyvalDot \/ KeyvalEqual \/ KeyvalNoEqual
          \/ ValueString \/ ValueArray \/ ValueTable \/ ValueFail
Inline == InlineEntry \/ InlineComma \/ InlineEnd \/ InlineFail
Array  == \/ ArrayNewline \/ ArrayValue \/ ArrayArray \/ ArrayTable
          \/ ArrayComma \/ ArrayEnd \/ ArrayFail
Select == \/ SelectBracket \/ PathKey \/ PathDot \/ PathFail \/ SelectEnd
          \/ SelectClose \/ SelectLine
Frees  == FreeRoot \/ FreeNode

Next == World \/ Main \/ Keyval \/ Inline \/ Array \/ Select \/ Frees \/ Stopped

Spec == Init /\ [][Next]_vars
-----------------------------------------------------------------------------
IsTable(n) == n \in 1 .. Len(heap) /\ heap[n].node = "table"
IsArray(n) == n \in 1 .. Len(heap) /\ heap[n].node = "array"

TypeOK ==
    /\ tok.eof => Is("NEWLINE") /\ closed
    /\ result = "none" =>
         /\ work = <<>> /\ IsTable(1) /\ IsTable(curtab)
         /\ \A i \in 1 .. Len(calls) :
               CASE calls[i].proc \in {"array", "arraynext"} -> IsArray(calls[i].node)
                 [] calls[i].proc \in {"keyval", "afterkey", "value",
                                      "inline", "inlinenext"} -> IsTable(calls[i].node)
                 [] OTHER -> TRUE

\* What walk_tabpath's item[nitem - 1].tab relies on: an array of kind t holds
\* tables and nothing else, and likewise the other kinds; an item is one thing.
KindTellsItems ==
    \A n \in 1 .. Len(heap) : IsArray(n) =>
        \A i \in 1 .. Len(heap[n].item) :
            LET item == heap[n].item[i]
            IN /\ item.tab # 0 => item.arr = 0 /\ item.val = <<>>
               /\ heap[n].kind = "t" => IsTable(item.tab)
               /\ heap[n].kind = "a" => IsArray(item.arr)
               /\ heap[n].kind = "v" => item.arr = 0 /\ item.tab = 0

\* The readers take the first entry that has a key, values before arrays before
\* tables, and so do the parser's own lookups: there is no second one that would
\* be out of their reach, whichever statements named the table and however.
KeysOnce ==
    \A n \in 1 .. Len(heap) : IsTable(n) =>
        \A f, g \in {"kval", "arr", "tab"} :
            \A i \in 1 .. Len(heap[n][f]), j \in 1 .. Len(heap[n][g]) :
                heap[n][f][i].key = heap[n][g][j].key => f = g /\ i = j

\* toml_free frees what there is, each once: every table and array that the
\* parser made has one owner, also when it gives up half-way.
FreedOnce ==
    /\ \A i \in 1 .. Len(work) : work[i] # 0 =>
          heap[work[i]] # Freed /\ \A j \in 1 .. i - 1 : work[j] # work[i]
    /\ heap[1] = Freed /\ work = <<>> =>
          \A n \in 1 .. Len(heap) : heap[n] = Freed

\* What has been said stays: a table or array that is opened again, by a header,
\* a dotted key or the end of an implicit one, is only added to, until it is freed.
SaidStays ==
    [][\A n \in 1 .. Len(heap) : heap'[n] # Freed =>
          /\ heap'[n].node = heap[n].node
          /\ IsTable(n) => /\ IsPrefix(heap[n].kval, heap'[n].kval)
                           /\ IsPrefix(heap[n].arr, heap'[n].arr)
                           /\ IsPrefix(heap[n].tab, heap'[n].tab)
          /\ IsArray(n) => IsPrefix(heap[n].item, heap'[n].item)]_vars

\* struct toml_table_t on readonly: "no more modification allowed".  An inline
\* table stays as it was written.
ReadonlyStays ==
    [][\A n \in 1 .. Len(heap) :
          IsTable(n) /\ heap[n].readonly /\ heap'[n] # Freed
              => heap'[n] = heap[n]]_vars
=============================================================================
