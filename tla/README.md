# renogy_x10 in TLA+

renogy_x10 watches a solar installation. A daemon reads the registers of a
charge controller and of power meters from a Modbus line and publishes them on
a Unix socket; subscribers print them, forward them to InfluxDB, or switch a
battery charger through X10. This directory holds a model of these programs,
the model checking of small instances with TLC, and proofs with TLAPS.

Contents: 1 the system, 2 modules, 3 runs, 4 fairness, 5 proofs, 6 where the
code and its documentation disagree, 7 what is not modelled, 8 plan.

## 1. The system

    Modbus RTU --- tty_reader ---Unix socket---+--- tty_reader_client (prints)
                   (publisher)                 +--- tty_reader_influx --- InfluxDB
                                               +--- tty_reader_heyu --- heyu --- X10
    Modbus RTU --- renogy_influx --- InfluxDB              (an older program)
    test1 --- libcm11a --- CM11A interface --- X10         (a driver)
    x10_cm11 ------------- CM11A interface --- X10         (an example without it)
    tty_reader.toml --- toml.c --- tty_toml --- tty_reader's list of devices

| Part | State | Operations | What makes it correct |
|---|---|---|---|
| Scan schedule, `tty_reader.zig` (`check_modbus`, `get_next_id_info`, `main`) | device list, cursor, three optional times | one turn of the loop, one read, reload, retry after a minute, signals | every block is read once a pass, in order, at its time, never too close to the last |
| Peer fan-out, `tty_reader.zig` (`tty_main_loop`, `check_peers`) | peers with their send lists, poll table | accept, queue, send a part, mark, sweep, reopen the listener | every client gets what is published while it is there, whole and in order; none is leaked; one does not hold up another |
| Frame reader, `process_csck_in` of both subscribers | what is read of a header or a body | one recv | messages come out as they went in |
| Charger controller, `tty_reader_heyu.zig` | Charging or not, the time to switch off | a message, a timeout, reload, terminate | the charger is on when the program thinks so, and is switched off |
| InfluxDB forwarder, `tty_reader_influx.zig` | the connection to InfluxDB, the queue of requests | a message, answers, sends, loss of the connection | each connection carries whole requests |
| `renogy_influx.c` | where it is in three nested loops, the request, the answer so far | open, connect, read, post, retry | paced reads, no false "ok", it can be stopped |
| TOML parser, `toml.c` | the token, the tree, the calls of the descent | parse, look up, free | a file means what it says, once; only wrong files are refused; nothing is leaked or freed twice |
| Configuration, `tty_toml.zig` | `tty_info_t` | one pass over the keys | the settings of `[main]` and the devices of the file, each once, in order |
| `libcm11a`, `test1.c` | the write under way, whether a checksum is awaited, test1's progress | one byte in, one write out, callbacks | only intact commands are executed, in order |
| `x10_cm11.c` | the place in its one conversation | send, read the sum, send again | each command is executed once, and the conversation ends |

Every program is one thread around `poll` or `select`. Nothing is persisted.
What is hard here is not parallelism in a program but the order of things
between one `poll` and the next: a poll table that is older than what the
handlers do with it, a byte stream cut anywhere, a connection that ends in the
middle of something, a state that survives a reload or an error, clocks, and
peers and devices that stop answering. PROJECT.json lists each of these
hazards at its line, with the property that is about it.

The programs interact through the publisher's socket. Its contract is module
`Feed`; `PeerFanout` implements it on one side, and `FrameReader` starts from
it on the other: "a connection begins with a whole message".

## 2. Modules

| Module | Models | Notes |
|---|---|---|
| `ScanSchedule` | the scan schedule | `pc` is the place in the loop: `open` (main), `top` (top of `tty_main_loop`), `reading` (inside libmodbus), `poll`, `sleep` (`tty_sleep`), `exit`. The other variables keep their names from `tty_info_t`. Peers are only counted. Holds `get_next_id_info` as the recursive function it is (`NextItem`) and compares it with `IsNext`, which the schedule is written with |
| `MCScanSchedule` | instances | the clock that has no end; liveness |
| `Feed` | what a client is promised | the abstract specification of the fan-out and of the forwarder |
| `PeerFanout`, `MCPeerFanout` | the fan-out | one action for each step of `check_peers` per polled descriptor, since a client may close between any two, and one for each marked peer of the sweep (`CheckEnd`, `Sweep`, `SweepEnd`). The accepted sockets are blocking (`accept` with flags 0): `send` takes pieces as there is room and holds the thread (`pc` is `sending`) until it has the whole rest of the message, its client closes or a signal comes (`SendShort`). `PollRoom` is how much room POLLOUT stands for; the kernel hands out the lowest free descriptor |
| `FrameReader`, `MCFrameReader` | the frame reader | a byte is named by its message and its place; `recv` returns any number of them up to `to_read - readed` |
| `Charger`, `MCCharger` | the charger controller | `on` is the real charger; heyu does it, refuses, cannot be run, or is killed |
| `InfluxForwarder` | the forwarder, whose messages come out of nowhere | `polled` is the socket `isck_index` stands for; the connection may be refused or lost at any moment; implements `Feed` with InfluxDB as the client |
| `TtyInflux`, `MCTtyInflux` | the forwarder's `main_loop` whole | `InfluxForwarder` composed with an instance of `FrameReader`, whose `up` is that the loop has not ended: a step that receives is a step of both, and whether a message is complete decides what the forwarder does next |
| `RenogyInflux` | renogy_influx | time is a countdown to the end of the round or of the pause; what is under way on the connection is `cur` or `old` |
| `Cm11aDevice` | the interface and the serial line | external; does what `docs/X10/CM11A.txt` says. Polls and time requests come unasked, and until a time request is satisfied the interface answers nothing else (`Deaf`, section 8 of the document). The line garbles replies to any other byte, those the programs dispatch on included (`Garble`), and transmissions: a command arrives as another with another sum (`DevGarbled`), something is taken for the confirming 0x00 (`DevFalseAck`), or for nothing, so that no answer comes (`DevMiss`). `faults` remembers what no sum gives away |
| `Cm11a` | driver, test1 | a step is one byte in, one write out, or the application's turn |
| `X10Example` | x10_cm11 | `at` is the blocking call the program is in |
| `MCCm11a` | instances | chooses one of the two programs at the start |
| `TomlParser` | `toml.c` | `tok` is `ctx.tok`, `text` what follows it, `heap` the tables and arrays, `calls` the C stack of the descent. A file is chosen line by line, when the lexer gets to it. A run of characters the lexer never splits is one symbol. A header that is refused leaves in the tree what it had linked by then (`FailWith(Selected.heap)`): implicit tables, an array, an element. Freeing goes by a list of nodes still to free (`work`), 0 for the items of an array that hold values |
| `TtyToml` | `setup_tty_info` | operators on the tree; its loop over the keys is a function of how many it has seen |
| `MCTomlParser` | instances | what files mean, as a set of facts about paths, built statement by statement with no lexer, no tree and no calls: the reference the parser is compared with |
| `FeedLemmas`, `..._proofs` | | lemmas, invariants and theorems about the module each is named after, section 5 |

Operators called `Bug...` stand next to the one they vary. Each is a
plausible mistake in the code behind that operator; put in its place it makes
the run of that module fail on the property PROJECT.json names. They show that
no property holds by itself, and are part of no specification.

## 3. Runs

| Run | Passes | What it shows |
|---|---|---|
| `scan` | yes | each pass reads every wanted block exactly once in order, never early; reads keep their distance while the last is remembered; poll wakes in time; the recursive `get_next_id_info` is what the model uses; no block starves, SIGTERM and SIGHUP are served |
| `scan_too_close` | no | the distance is not kept when the last read has been forgotten |
| `fanout` | yes | `PeerFanout` implements `Feed`; one peer per descriptor, none leaked; the lookup never fails |
| `fanout_live` | yes | where POLLOUT means room for a whole message, a client that reads is served whatever the other does, and a closed one is dropped |
| `fanout_table` | no | the poll table can be overrun |
| `frames_reconnect` | no | after a reload in mid-message the controller is out of step |
| `influx` | yes | messages are taken off the publisher's stream whole, in order, none skipped; the forwarder implements `Feed` towards InfluxDB; no request stays queued for ever, and every message is processed |
| `charger` | yes | the charger follows the program's state, is off at the end and switched off in time, with three named exceptions |
| `renogy` | yes | paced reads, no false "ok" on a tidy connection, SIGTERM works |
| `cm11a` | yes | test1: on a line that garbles or brings unasked bytes, not both, and makes no sum by chance, nothing garbled is executed and done means executed; it ends if undisturbed. x10_cm11: its retries execute each command once, and its conversation ends, but for a time request in the middle of it and transmissions garbled beyond an answer |
| `toml` | yes | the tree holds exactly the facts the file states; no path is given two meanings, no table has two entries under a key, and what was said stays until it is freed; a file that is refused deserves it; array kinds tell what items are; everything is freed once, also after an error, with what a refused header had half built; the publisher's settings and device list are those of the file, and of the tree; parsing ends |
| `toml_readonly` | no | a header adds to a table that is marked readonly |

Bounds, and why they are enough:

* `scan`: three configurations, one with a gap in the list and a device of
  both kinds, one with input registers only, one with nothing to read;
  `min_mstime` is 2 and the pause 3; `item_mstime` comes below and above
  `min_mstime`, and a pass takes longer than `list_mstime` in one, less in
  another. The clock has a window of six ticks and no end: at the bound all
  remembered times slide back instead, which the code, comparing and
  subtracting, cannot tell from a tick. A time that would leave the window
  stays at its edge, so that lateness is capped at the window.
* `fanout`: two clients that may connect, read, talk, close and come back,
  three descriptors, two messages of two pieces, one reload or error. A
  descriptor can be handed out again while its old number is still in the poll
  table. A client's buffer holds one message and POLLOUT promises room for half
  of one, so that sends block in the middle. `fanout_live` has messages of one
  piece and room for one, which is its assumption (section 4); with two pieces
  and room for one `FastClientServed` is violated, as it should be.
  `fanout_table` needs three clients for a table of five entries, three
  of which are not clients.
* `influx`: two messages with bodies of two and four bytes, cut anywhere, the
  header too: the code compares lengths and is sensitive to nothing beyond
  that. Three requests of two pieces, on as many connections to InfluxDB as
  one likes, of two descriptors. `frames_reconnect` has messages of the sizes
  the publisher sends.
* `charger`: two units, two times to charge, one SIGHUP waiting at a time, a
  clock that slides like that of `scan`.
* `renogy` has no bound on the number of rounds: only pieces under way are
  counted.
* `cm11a`: three garblings and three unasked bytes, enough for one of each
  command, its sum and its confirmation to go wrong, and one more of each than
  it takes for a stale sum to vouch for a garbled command. The garbling of a
  reply chooses among all bytes either program tells apart.
* `toml`: every sequence of up to three of thirty-odd lines. Among them are keys
  that are bare, quoted, dotted and wrong; headers of one, two and (one too
  many: `MaxPath` is 2 for the code's 10) three parts; elements of arrays of
  tables; arrays of values, of tables, of lines, mixed and nested; inline
  tables with dotted keys; all four kinds of strings with escapes, quotes at
  their ends and line breaks; comments, and every broken form the parser has a
  message for that the grammar can still tell apart. Two statements suffice for
  a clash, the third is what comes between them.

## 4. Fairness

Each program is one thread, so weak fairness on each of its steps says that
it runs when it can, that `open`, `read`, `connect` and `heyu` return one way
or another (libmodbus has a response timeout), and that time passes. Nothing
is assumed of peers, signals or the outcome of a call except:

* `EveryBlockReadAgain` and `HupServed` suppose that the daemon keeps getting
  back to its loop, i.e. that the serial port can be opened again and again,
  and the first that somebody listens and the operator leaves it alone. Both
  are premises of the formulas, not fairness.
* `FastClientServed`: client c1 reads. c2 may never do so. And a send that
  starts when `poll` has said POLLOUT has room for the whole message
  (`PollRoom = Units`): a Unix stream socket is writable only while at most a
  quarter of its send buffer is in use, and messages are of a few hundred bytes
  against a buffer of some hundred thousand. The code relies on it, since its
  sockets are blocking: without it a client that stops reading in the middle of
  a message would hold the one thread for as long as it likes. The safety
  properties of the fan-out do without this assumption.
* `influx`: bytes that wait at the publisher's socket are not passed over by
  `poll` for ever (strong fairness on `TtyPollCsck`: poll is level-triggered),
  the network answers a connection request, yes or no, and InfluxDB
  reads. TCP keeps the first; the second is what `QueueEmpties` depends on: an
  InfluxDB that stops reading without closing stops the forwarder's queue.
* `toml`: the parser takes its next step, and the file is read to its end.
* `cm11a`: the program takes its next step, and the interface does what it has
  been told to.
* `renogy`: strong fairness on `ConnectOk` and `ReadOk`. While InfluxDB cannot
  be reached or the bus does not answer, renogy_influx does not look at the
  terminate pipe, and SIGTERM has no effect until they do.
* `ChargingEnds` supposes that SIGHUPs stop: each leaves the loop before the
  time is compared.

## 5. Proofs

Each theorem holds for every value of the constants that satisfies the module's
named assumption: any number of clients, descriptors, pieces, messages, lines
of configuration, ticks. The runs check the same properties on small instances.

| Module | Theorem | What it says |
|---|---|---|
| `ScanSchedule_proofs` | `TypeCorrect` | `TypeOK` |
| | `PrefixCorrect`, `NeverTwice`, `PassesComplete` | `AttemptedIsPrefix`, `NoBlockTwice`, `PassIsComplete` |
| | `NeverEarly`, `WakesInTime`, `Spaced` | `PassNeverEarly`, `PollWakesInTime`, `CallsSpaced` |
| | `GetNextRight` | `GetNextAgrees`: what the recursive `get_next_id_info` answers |
| `PeerFanout_proofs` | `TypeCorrect`, `OnePeer`, `PeerFound` | `TypeOK`, `OnePeerPerDescriptor`, `PeerAlwaysFound` |
| | `FanoutImplementsFeed` | `FeedSpec`: the fan-out implements `Feed` |
| `Charger_proofs` | `ChargerTypeCorrect`, `FollowsState`, `NeverLeftOn` | `TypeOK`, `ChargerFollowsState`, `OffAtExit` |
| `TtyInflux_proofs` | `ForwarderTypes`, `PolledCurrent` | `TypeOK` and `PolledIsCurrent` of the forwarder |
| | `ForwarderImplementsFeed` | `RequestsSpec`: the forwarder implements `Feed` towards InfluxDB |
| | `ReaderTypes` | `TypeOK` of the frame reader: `recv` is never asked for nothing, the buffer never overrun |
| | `ReaderWhole`, `ReaderInStep` | `OnlyWholeMessages`, `NothingSkipped` |
| | `ComponentsImplemented` | each behaviour of the whole is one of the forwarder and one of the frame reader |
| `RenogyInflux_proofs` | `RenogyTypes`, `ReadsArePaced`, `OkIsStored` | `TypeOK`, `ReadsPaced`, `OkMeansStored` |
| `Cm11a_proofs` | `Test1Intact`, `DoneExecuted`, `ExampleOnce` | `Test1OnlyIntact`, `DoneMeansExecuted`, `X10ExecutesOnce` |
| `TomlParser_proofs` | `ParserTypes`, `KindTells`, `FreesOnce` | `TypeOK`, `KindTellsItems`, `FreedOnce` |
| | `KeysAreOnce`, `SaidIsKept` | `KeysOnce`, `SaidStays` |
| | `ConfigRead` | `ConfigOfTree`: the publisher polls the devices the tree describes, each once, in order |

`FeedLemmas` holds what several of them need about a stream of pieces and the
list of messages still to be sent. The type invariants, `NoBlockTwice` and
`PassIsComplete` are proved and not run: the last two follow from
`AttemptedIsPrefix`, which is.

**Assumptions.** Sizes and bounds are natural numbers, zero excluded where the
code has a positive constant; descriptors are numbers; `Nobody` is no client.
Beyond that: `MinMs <= SleepMs` and `MinMs <= Epoch` of `ScanSchedule` (the
response timeout of libmodbus is no longer than the pause after an error, the
wall clock counts from 1970); `Secs <= Sleep` of `RenogyInflux` (a round and
the pause after an error are both a minute); messages longer than their four
bytes of header in `TtyInflux`; heyu may succeed in `Charger`; in `TomlParser`
the words that stand for runs of characters are none of the characters the
lexer knows; in `TtyToml` `main` does not start with `id`.

**Arguments.** None of the properties but the type invariants is inductive
alone. What had to be added:

* *Scan schedule.* `AttemptedIsPrefix` goes with typing, because a read takes
  the first remaining block and so moves the cursor over nothing that is wanted;
  `NoBlockTwice` and `PassIsComplete` follow. `PassNeverEarly` is about the
  moment of a read and says nothing of the times kept until then: `DueInv` adds
  that while a pass has a place in the timetable (`due`), `first_modbus_time`
  is not before it, so that neither the adjustment nor the next pass can come
  early. `WakesInTime` follows from how each branch that ends in `poll` sets
  the deadline. For `Spaced`, `SpacedInv` says where the daemon can be after a
  failed read, which the code does not remember: in the pause, past it, or in
  `exit`. `GetNextRight` shows by a least counterexample on the distance from
  the cursor to the end of the list that `NextItem` is the first wanted block.
* *Fan-out.* Its invariant has four parts. `HeldInv`: a client holds at
  most one descriptor or place in the backlog. `PeersInv`: the peers and the
  open descriptors correspond one to one. `TableInv`: while the poll table is
  in use, its entries are the first peers of the list, in their places, which
  is what `PeerAlwaysFound` depends on: peers come to the end of the list
  while the table is in use and leave it only in the sweep. `StreamInv`: what a
  client has been sent is the text `Feed` promises it, and its send list is
  exactly what is lacking. With these, each action maps to a step of `Feed` or
  a stutter; the proof goes through the actions one by one.
* *Forwarder.* `PolledInv`: what was polled as the InfluxDB socket is that
  socket or nothing. `QueueInv`: a connection starts with an empty queue. So
  `StreamInv` holds as for the fan-out: what InfluxDB has got on this connection
  and what is queued make up whole requests. `RInv`: between messages the
  reader's last byte is the last of a message; within one, the buffer and the
  bytes still to read make up the frame. That each behaviour of the whole is one
  of both parts needs only the actions: a step that receives is by definition
  a step of both, and of the others the reader sees those that end `main_loop`
  as its own end and the rest as nothing.
* *Charger.* The two properties are inductive together: what is known of the
  charger at the end depends on its having followed the state until then.
* *renogy_influx.* `Paced`: what is left of a round or a pause and what has
  passed since the last read began add up to a round at least. `Tidy`: in a
  round of a tidy connection every piece InfluxDB has belongs to the present
  request, so a 204 means it is stored.
* *CM11A.* Each program has two invariants, one for each of the disturbances
  its property allows. For test1 without garbling, `Stage` lists the stages of
  one conversation (unsent, sent, summed, given up, acknowledged, run) with what
  may be on the line in each, time requests and their answers among it; without
  unasked bytes and chance sums, `Turns` says that program and interface take
  turns, so that whatever a garbled reply is taken for, no other reply follows it
  that could be mistaken. `Counted` ties `noise`, `polls` and `faults` together.
  For x10_cm11 without garbling, the writes under way form a path through the
  program's order (`Ordered`), the ones that an interface waiting for the time
  ignores included; without unasked bytes, program and interface take turns
  (`Alternating`).
* *TOML parser.* `Tree`: every node is a well formed table, array or freed;
  places point to newer live nodes of the type they say; no node has two
  owners. `Building`: while the file is read, every node has an owner and each
  call on the C stack works on a node it may work on. A parser that gives up
  has only grown the tree on the way (`GivesUp`): the walk along a header and
  the creations at its end do so whether they succeed or not (`SelectedGrows`).
  `Pending`: once freeing
  has begun, its work list names exactly the nodes that nothing points to any
  more, each once. So nothing is freed twice; and nothing is left, for the
  oldest live node would have an owner older than itself. `KeysApart`, a part of
  `Tree`: an entry is made only where the lookup found none. For `SaidStays`,
  `Extends` says of one node what a statement may do to it, and is transitive,
  so that it holds for a statement that makes several.
* *Configuration.* `KeysApart` and `Tree` at the root (`RootKeys`) say that a
  lookup by a key finds the table the key was listed for. `ReadsFirst` is the
  invariant of the loop over the keys: what has been made of the first `i`
  tables. Values and arrays come before the tables and, with the right name, can
  only be refused.

Recursive functions (`NextItem`, the walk along a path of keys, the loop over
the keys of a file, the bytes up to a place in a stream) are unfolded by
exhibiting a solution of their defining equation; what is said of them for every
input goes by least counterexample (`NatLeast`), for an induction principle over
data cannot be stated to these provers.

**Only model-checked.** Liveness, which the prover does not reach:
`EveryBlockReadAgain`,
`HupServed` and `TermExits` (of two programs), `FastClientServed`,
`ClosedIsDropped`, `QueueEmpties`, `AllProcessed`, `ChargingEnds`, `Test1Ends`,
`X10Ends`, `Ends`. Of `MCTomlParser`, the comparison of
the parser with what files mean (`Faithful`, `SaidOnce`, `RefusedForReason`,
`ConfigFromFile`): the reference meaning is a recursive operator over
statements, and to relate it to the parser is an induction over the file.

## 6. Disagreements

Four runs end in a counterexample on purpose; PROJECT.json quotes the lines.

1. *Two reads too close together* (`scan_too_close`). `last_modbus_time`
   becomes null when the last peer leaves and on a reload, and null passes the
   check that is to keep calls apart.
2. *The poll table* (`fanout_table`). `max_polls` is never compared with
   anything.
3. *A reload in mid-message* (`frames_reconnect`). `tty_reader_heyu` makes a
   new connection and keeps the half-read frame of the old one.
4. *An inline table that is extended* (`toml_readonly`). `readonly`, "no more
   modification allowed", is looked at by `parse_keyval` and not by headers:
   after `id1 = [{read_count=1}]` the header `[id1.id2]` adds a table to it.

Not disagreements with anything written, but worth knowing, and visible as the
provisos of properties that hold: `ChargerFollowsState` and `OffAtExit` except
a failing heyu, a unit renamed by a reload while it charges, and a publisher
that is not there after a reload; `OkMeansStored` excepts a late answer, which
renogy_influx takes for that of the next round; `TermExits` of renogy_influx
needs a reachable InfluxDB; `DoneIfUndisturbed` excepts noise, since test1
ignores a wrong checksum, where section 3.1.2 of CM11A.txt wants another
transmission, and then waits for ever, and unasked bytes, since one that is
taken for the sum leaves the true sum to end `main_loop`, or, a time request,
is not answered, and the interface says nothing more. test1's two safety
properties except noise and unasked bytes together: the sum of the address
left behind by an unasked byte and garbled to 0x55 on its way looks like the
interface being ready, and the function is executed without its address. They
also except a reply that is garbled to one of the two sums. x10_cm11, which does transmit again, takes any byte for the
sum too: an unasked one leaves the true sum in the line, and noise on the next
command can then go unnoticed; `X10ExecutesOnce` excepts the two together. It
answers no time request during its conversation, and waits for ever for a
byte when the interface was not understood: `X10Finishes` excepts both.
A string of the configuration that cannot be read (a control
character in it) is not refused: the publisher keeps its default.

## 7. Not modelled

* Of the configuration files: dates and times without quotes (`scan_date`,
  `scan_time`), allocations that fail, the encoding of code points
  (`toml_ucs_to_utf8`), the readers of booleans, numbers and dates (a raw value
  that is an integer is given by `IntOf`), reading the file into memory, and
  the narrowing casts of `tty_toml.zig`.
* The fields of a message, the width of its size, and which registers mean
  what. `ScanSchedule` takes a configuration as it comes out of parsing,
  `Charger` a message as a low voltage or another one, `InfluxForwarder` a
  message as some requests.
* A wall clock that is set back.
* `tty_reader_client`: it has no state. It takes one `recv` for one message.
* The pieces of a transmission to the CM11A: `sp_blocking_write` with no
  timeout writes all of it, so `data_sent` never matters.
* A transmission to the CM11A that the line turns into a download or a status
  request (0x9B, 0x8B and others), which is answered by more than a byte.
* Logging, command lines, becoming a daemon; the example programs that read
  registers, which are straight lines; build files.
* libmodbus, libserialport, the kernel, heyu, InfluxDB and the CM11A are
  external: modelled only in what the programs see of them.

## 8. Plan

Order of the modules, the core first; done up to the line.

1. `ScanSchedule`: what the daemon is for. Theorems on all of its safety.
2. `Feed`, `PeerFanout`: the socket's contract and its implementation.
3. `FrameReader`, `Charger`: the subscriber with an effect on the world.
4. `InfluxForwarder`, `RenogyInflux`, `Cm11a`.
5. `TomlParser`, `TtyToml`: where the list of devices comes from.
6. `TtyInflux`: the forwarder composed with its frame reader. `X10Example`,
   and the interface as a module of its own.
7. Proofs of the safety invariants, of both refinements of `Feed`, of the parts
   of `TtyInflux` by the whole, and of what the publisher reads off the tree.

   ---

8. `Messages`: the layout of a message and the widths of its fields, the
   values the subscribers take out of it, with the casts of `tty_toml`; the
   number readers and the encoder of `toml.c` with them; pure operators checked
   over bounded inputs, and lemmas on sizes.
9. `TtyReader`: `ScanSchedule` and `PeerFanout` composed on `peer_list`, each
   shown to be what the composition implements.
10. An application that retries from `crc_not_ok`, against `libcm11a`, where
   `want_crc` is cleared after the callback.
11. More proofs: the contract of the frame reader by itself, over reconnections;
   the state machine of `x10_cm11` with both disturbances, to make precise what
   `X10ExecutesOnce` excepts.
