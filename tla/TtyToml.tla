------------------------------- MODULE TtyToml -------------------------------
(***************************************************************************)
(* What the publisher takes from its configuration file, setup_tty_info of *)
(* src/tty_reader/tty_toml.zig, read off the tree that TomlParser built.   *)
(* ScanSchedule starts from the result.  A number that does not fit its    *)
(* field is left out: @intCast has no defined outcome for it.              *)
(***************************************************************************)
EXTENDS TomlParser

CONSTANTS
    IdKeys,        \* the keys that start with "id"
    IdOf,          \* what parseInt makes of the rest, where it is a number
    IntOf,         \* the raw values that are integers, with their numbers
    IntFields,     \* item_mstime and list_mstime of [main]
    StringFields,  \* tty and listen_socket of [main]
    IdFields       \* read_address, read_count, ... of an [idN]

MainKey == <<"main">>

ASSUME TtyTomlAssumption == MainKey \notin IdKeys

Unset == "unset"    \* as tty_info_t.init left it

KeysOf(entries) == [i \in 1 .. Len(entries) |-> entries[i].key]

\* The keys in the order in which toml_key_in shows them.
Bugtoml_key_in(h, tab) ==
    KeysOf(h[tab].kval) \o KeysOf(h[tab].arr)
        \o KeysOf(SubSeq(h[tab].tab, Len(h[tab].kval) + 1, Len(h[tab].tab)))
toml_key_in(h, tab) ==
    KeysOf(h[tab].kval) \o KeysOf(h[tab].arr) \o KeysOf(h[tab].tab)

toml_raw_in(h, tab, key) ==
    LET at == {i \in 1 .. Len(h[tab].kval) : h[tab].kval[i].key = key}
    IN IF at = {} THEN <<>> ELSE h[tab].kval[Min(at)].val

\* val.ok, or otherwise.
toml_int_in(h, tab, key, otherwise) ==
    LET raw == toml_raw_in(h, tab, key)
    IN IF raw \in DOMAIN IntOf THEN IntOf[raw] ELSE otherwise

toml_string_in(h, tab, key, otherwise) ==
    LET raw == toml_raw_in(h, tab, key)
    IN IF toml_rtos(raw) # Unreadable THEN toml_rtos(raw) ELSE otherwise

MainInfo(h, tab) ==
    [ints |-> [f \in IntFields |-> toml_int_in(h, tab, f, Unset)],
     strings |-> [f \in StringFields |-> toml_string_in(h, tab, f, <<Unset>>)]]

Nobody == [ints |-> [f \in IntFields |-> Unset],
           strings |-> [f \in StringFields |-> <<Unset>>]]

DeviceOf(h, key, tab) ==
    [id |-> IdOf[key], fields |-> [f \in IdFields |-> toml_int_in(h, tab, f, 0)]]

\* One turn of the loop over the keys of the file; an error ends it.
SetupKey(h, info, key) ==
    LET tab == toml_table_in(h, 1, key)
    IN IF info.failed THEN info
       ELSE IF key = MainKey
       THEN IF tab = 0 THEN [info EXCEPT !.failed = TRUE]
            ELSE [info EXCEPT !.main = MainInfo(h, tab)]
       ELSE IF key \in IdKeys
       THEN IF tab = 0 \/ key \notin DOMAIN IdOf THEN [info EXCEPT !.failed = TRUE]
            ELSE [info EXCEPT !.id_list = Append(@, DeviceOf(h, key, tab))]
       ELSE info

\* The loop: what it has made of the first n keys.
setup_tty_info(h) ==
    LET keys == toml_key_in(h, 1)
        info[n \in 0 .. Len(keys)] ==
            IF n = 0 THEN [failed |-> FALSE, main |-> Nobody, id_list |-> <<>>]
            ELSE SetupKey(h, info[n - 1], keys[n])
    IN info[Len(keys)]

-----------------------------------------------------------------------------
IsDevice(key) == key \in IdKeys
IsNamed(key) == key = MainKey \/ IsDevice(key)

\* What is refused: [main] or an [idN] that is no table, an idN that has no number.
Misnamed(t) ==
    \/ \E i \in 1 .. Len(t.kval) : IsNamed(t.kval[i].key)
    \/ \E i \in 1 .. Len(t.arr) : IsNamed(t.arr[i].key)
    \/ \E i \in 1 .. Len(t.tab) : IsDevice(t.tab[i].key) /\ t.tab[i].key \notin DOMAIN IdOf

\* The publisher finds the tables of its file by their names: each [idN] is one
\* device, with the numbers of that table, the n-th one the n-th in id_list,
\* and there are no others; [main] likewise.
ConfigOfTree ==
    result = "ok" /\ work = <<>> /\ heap[1] # Freed =>
        LET info == setup_tty_info(heap)
            tab == heap[1].tab
            place(n) == Cardinality({i \in 1 .. n : IsDevice(tab[i].key)})
        IN /\ info.failed <=> Misnamed(heap[1])
           /\ ~info.failed =>
                /\ Len(info.id_list) = place(Len(tab))
                /\ \A n \in 1 .. Len(tab) :
                      /\ IsDevice(tab[n].key) =>
                            info.id_list[place(n)] = DeviceOf(heap, tab[n].key, tab[n].node)
                      /\ tab[n].key = MainKey => info.main = MainInfo(heap, tab[n].node)
                /\ HasKey(tab, MainKey) \/ info.main = Nobody
=============================================================================
