---------------------------- MODULE ScanSchedule ----------------------------
(***************************************************************************)
(* The Modbus scan of the publisher daemon, src/tty_reader/tty_reader.zig: *)
(* check_modbus and get_next_id_info decide what is read from the serial   *)
(* bus and when, tty_main_loop polls until the time they ask for, and main *)
(* opens the bus again after a reload or a failure.                        *)
(*                                                                         *)
(* Peers are only counted here: the schedule tells "somebody is listening" *)
(* from "nobody is".  What they are sent is module PeerFanout.             *)
(***************************************************************************)
EXTENDS Integers, Sequences

CONSTANTS
    Configs,   \* the configuration files an operator may install
    NoTime,    \* the null of the three optional times; also poll's -1
    MinMs,     \* info.min_mstime, the Modbus response timeout
    SleepMs,   \* the pause of main after an error (60000)
    Epoch,     \* the wall clock when the daemon starts
    MaxTime,   \* bound: the clock stops here
    MaxPeers,  \* bound: connected peers
    MaxHups    \* bound: SIGHUPs waiting in the hup pipe

Device == [read_count : Nat, read_input_count : Nat]

ConfigType == [id_list : Seq(Device), item_mstime : Nat, list_mstime : Nat]

ASSUME ConfigsAssumption == Configs \subseteq ConfigType

ASSUME TimeAssumption ==
    /\ NoTime \notin Int
    /\ MinMs \in Nat /\ SleepMs \in Nat /\ Epoch \in Nat /\ MaxTime \in Nat
    /\ MinMs <= SleepMs   \* libmodbus waits 0.5 s for an answer, main 60 s
    /\ MinMs <= Epoch     \* the wall clock counts from 1970

ASSUME BoundAssumption == MaxPeers \in Nat /\ MaxHups \in Nat

VARIABLES
    pc,          \* where the daemon is: see TypeOK
    now,         \* std.time.milliTimestamp()
    cfg,         \* id_list, item_mstime and list_mstime of tty_info_t
    id_list_index, id_list_sub_index,   \* the next register block to read
    next_modbus_time, first_modbus_time, last_modbus_time,
    peerCount,   \* peer_list.items.len
    deadline,    \* when the poll or the sleep under way times out
    term,        \* the terminate pipe is readable (it is never read)
    hups,        \* SIGHUP messages in the hup pipe
    \* History variables, no code reads them:
    attempted,   \* the blocks the current pass has asked the bus for
    busEnd,      \* when the last exchange on the bus ended, well or badly
    due          \* when the timetable lets the current pass begin

cursor   == <<id_list_index, id_list_sub_index>>
times    == <<next_modbus_time, first_modbus_time, last_modbus_time>>
signals  == <<term, hups>>
history  == <<attempted, busEnd, due>>
scanVars == <<cfg, cursor, times, history>>
vars     == <<pc, now, scanVars, peerCount, deadline, signals>>

-----------------------------------------------------------------------------
\* Blocks: <<i, 0>> are the holding registers of the i-th device, <<i, 1>>
\* its input registers.  A block of no registers is never read.

Wanted(L) ==
    {b \in (0 .. Len(L) - 1) \X {0, 1} :
        IF b[2] = 0 THEN L[b[1] + 1].read_count > 0
                    ELSE L[b[1] + 1].read_input_count > 0}

Pos(b) == 2 * b[1] + b[2]

Cursor == 2 * id_list_index + id_list_sub_index

\* What get_next_id_info may still return in this pass, and what it returns.
Remaining == {b \in Wanted(cfg.id_list) : Pos(b) >= Cursor}
BugIsNext(b) == b \in Remaining
IsNext(b) == b \in Remaining /\ \A r \in Remaining : Pos(b) <= Pos(r)

\* get_next_id_info as it is written, from a cursor to the cursor it leaves
\* and the place of the item that it returns, 0 for null.
NextItem[c \in Nat \X (0 .. 2)] ==
    IF c[2] > 1 THEN NextItem[<<c[1] + 1, 0>>]
    ELSE IF c[1] >= Len(cfg.id_list) THEN <<0, 0, 0>>
    ELSE LET item  == cfg.id_list[c[1] + 1]
             count == IF c[2] = 0 THEN item.read_count ELSE item.read_input_count
         IN IF count > 0 THEN <<c[1], c[2] + 1, c[1] + 1>>
                         ELSE NextItem[<<c[1], c[2] + 1>>]

BugGetNext(i, s) == <<i, s + 1, i + 1>>
GetNext(i, s) == NextItem[<<i, s>>]

OrElse(t, default) == IF t = NoTime THEN default ELSE t

Later(s, t) == IF s < t THEN t ELSE s

-----------------------------------------------------------------------------
\* Broken variants (Bug...): each is the operator named after it with a
\* plausible mistake, and stands in for it in a run that must then fail.

\* tty_info_t.init and main before its loop.
Init ==
    /\ pc = "open" /\ now = Epoch
    /\ cfg \in Configs
    /\ id_list_index = 0 /\ id_list_sub_index = 0
    /\ next_modbus_time = NoTime /\ first_modbus_time = NoTime
    /\ last_modbus_time = NoTime
    /\ peerCount = 0 /\ deadline = NoTime
    /\ term = FALSE /\ hups = 0
    /\ attempted = {} /\ busEnd = NoTime /\ due = NoTime

-----------------------------------------------------------------------------
\* main: the bus is opened, the listener set up, libmodbus connected.

OpenOk ==
    /\ pc = "open" /\ pc' = "top"
    /\ UNCHANGED <<now, scanVars, peerCount, deadline, signals>>

\* tty_sleep(60000) after any error of process_tty_info.
GoToSleep == pc' = "sleep" /\ deadline' = now + SleepMs

OpenConnectFail ==
    /\ pc = "open" /\ GoToSleep
    /\ UNCHANGED <<now, scanVars, peerCount, signals>>

\* modbus_new_rtu returns null, or unlink, socket, bind or listen fails.
OpenFatal ==
    /\ pc = "open" /\ pc' = "exit"
    /\ UNCHANGED <<now, scanVars, peerCount, deadline, signals>>

-----------------------------------------------------------------------------
\* The top of tty_main_loop, up to poll.

\* The reset that ends a schedule: no peers, or a reload that succeeded.
ForgetSchedule ==
    /\ id_list_index' = 0 /\ id_list_sub_index' = 0
    /\ next_modbus_time' = NoTime /\ first_modbus_time' = NoTime
    /\ last_modbus_time' = NoTime
    /\ attempted' = {} /\ due' = NoTime

TopNobody ==
    /\ pc = "top" /\ peerCount = 0
    /\ ForgetSchedule
    /\ pc' = "poll" /\ deadline' = NoTime
    /\ UNCHANGED <<now, cfg, busEnd, peerCount, signals>>

\* The local variables of check_modbus.
nmt == OrElse(next_modbus_time, now)
fmt == OrElse(first_modbus_time, now)
lmt == OrElse(last_modbus_time, 0)

Due      == pc = "top" /\ peerCount > 0 /\ now >= nmt
BugTooClose == FALSE
TooClose == now - lmt < MinMs

\* timeout.* = max(nmt - now, 0)
BugWaitUntil(t) == deadline' = Later(now, t) + cfg.list_mstime
WaitUntil(t) == deadline' = Later(now, t)

TopWait ==
    /\ pc = "top" /\ peerCount > 0 /\ now < nmt
    /\ pc' = "poll" /\ WaitUntil(nmt)
    /\ UNCHANGED <<now, scanVars, peerCount, signals>>

TopAdjust ==
    /\ Due /\ TooClose
    /\ next_modbus_time' = lmt + MinMs /\ first_modbus_time' = lmt + MinMs
    /\ due' = OrElse(due, now)
    /\ pc' = "poll" /\ WaitUntil(lmt + MinMs)
    /\ UNCHANGED <<now, cfg, cursor, last_modbus_time, attempted, busEnd,
                   peerCount, signals>>

\* get_next_id_info returns a device: process_tty_id_info starts.
TopRead(b) ==
    /\ Due /\ ~TooClose /\ IsNext(b)
    /\ id_list_index' = b[1] /\ id_list_sub_index' = b[2] + 1
    /\ next_modbus_time' = now + cfg.item_mstime
    /\ attempted' = attempted \cup {b}
    /\ due' = OrElse(due, now)
    /\ pc' = "reading"
    /\ UNCHANGED <<now, cfg, first_modbus_time, last_modbus_time, busEnd,
                   peerCount, deadline, signals>>

BugNextPassAt(f) == f + cfg.item_mstime
NextPassAt(f) == f + cfg.list_mstime

\* get_next_id_info returns null: the list is done.
TopEndList ==
    /\ Due /\ ~TooClose /\ Remaining = {}
    /\ id_list_index' = 0 /\ id_list_sub_index' = 0
    /\ next_modbus_time' = NextPassAt(fmt)
    /\ first_modbus_time' = NextPassAt(fmt)
    /\ attempted' = {}
    /\ due' = OrElse(due, now) + cfg.list_mstime
    /\ pc' = "poll" /\ WaitUntil(NextPassAt(fmt))
    /\ UNCHANGED <<now, cfg, last_modbus_time, busEnd, peerCount, signals>>

\* The local nmt still holds the time that made this block due, so poll is
\* asked not to wait at all.
ReadEnds == pc' = "poll" /\ deadline' = now

ReadOk ==
    /\ pc = "reading" /\ ReadEnds
    /\ last_modbus_time' = now /\ busEnd' = now
    /\ UNCHANGED <<now, cfg, cursor, next_modbus_time, first_modbus_time,
                   attempted, due, peerCount, signals>>

\* A reader who retries the block that failed.
BugReadFail ==
    /\ pc = "reading" /\ GoToSleep
    /\ id_list_sub_index' = id_list_sub_index - 1
    /\ busEnd' = now
    /\ UNCHANGED <<now, cfg, id_list_index, times, attempted, due, peerCount,
                   signals>>

\* The bus does not answer, or answers something else.
ReadFail ==
    /\ pc = "reading" /\ GoToSleep
    /\ busEnd' = now
    /\ UNCHANGED <<now, cfg, cursor, times, attempted, due, peerCount,
                   signals>>

-----------------------------------------------------------------------------
\* poll returns: terminate is looked at first, then hup, then the sockets.

PollTerm ==
    /\ pc = "poll" /\ term
    /\ pc' = "exit"
    /\ UNCHANGED <<now, scanVars, peerCount, deadline, signals>>

\* A hup pipe that is never read.
BugHupNotRead == pc = "poll" /\ ~term /\ hups > 0 /\ hups' = hups
HupTaken == pc = "poll" /\ ~term /\ hups > 0 /\ hups' = hups - 1

\* reload_config with a file that parses; the peers stay connected.
Reload(c) == cfg' = c /\ ForgetSchedule

PollHup ==
    /\ HupTaken
    /\ \E c \in Configs : Reload(c)
    /\ pc' = "open"
    /\ UNCHANGED <<now, busEnd, peerCount, deadline, term>>

\* The new file is broken: the old configuration and schedule go on.
PollHupBroken ==
    /\ HupTaken
    /\ pc' = "open"
    /\ UNCHANGED <<now, scanVars, peerCount, deadline, term>>

\* A new peer, and peers dropped by check_peers, which only sees those that
\* were polled.
PollIo ==
    /\ pc = "poll" /\ ~term /\ hups = 0
    /\ \E joined \in {0, 1}, left \in 0 .. peerCount :
          /\ joined + peerCount > 0
          /\ peerCount + joined - left <= MaxPeers
          /\ peerCount' = peerCount + joined - left
    /\ pc' = "top"
    /\ UNCHANGED <<now, scanVars, deadline, signals>>

\* accept fails and the error leaves tty_main_loop.
PollAcceptFail ==
    /\ pc = "poll" /\ ~term /\ hups = 0
    /\ GoToSleep
    /\ UNCHANGED <<now, scanVars, peerCount, signals>>

PollTimeout ==
    /\ pc = "poll" /\ ~term /\ hups = 0
    /\ deadline # NoTime /\ now >= deadline
    /\ pc' = "top"
    /\ UNCHANGED <<now, scanVars, peerCount, deadline, signals>>

-----------------------------------------------------------------------------
\* tty_sleep: only the terminate pipe cuts it short.

\* A caller that retries whatever tty_sleep returns.
BugSleepTerm ==
    /\ pc = "sleep" /\ term
    /\ pc' = "open"
    /\ UNCHANGED <<now, scanVars, peerCount, deadline, signals>>

SleepTerm ==
    /\ pc = "sleep" /\ term
    /\ pc' = "exit"
    /\ UNCHANGED <<now, scanVars, peerCount, deadline, signals>>

SleepDone ==
    /\ pc = "sleep" /\ ~term /\ now >= deadline
    /\ pc' = "open"
    /\ UNCHANGED <<now, scanVars, peerCount, deadline, signals>>

-----------------------------------------------------------------------------
\* The world: time, and signals at any moment.

Tick ==
    /\ now < MaxTime /\ now' = now + 1
    /\ UNCHANGED <<pc, scanVars, peerCount, deadline, signals>>

SigTerm ==
    /\ ~term /\ term' = TRUE
    /\ UNCHANGED <<pc, now, scanVars, peerCount, deadline, hups>>

SigHup ==
    /\ hups < MaxHups /\ hups' = hups + 1
    /\ UNCHANGED <<pc, now, scanVars, peerCount, deadline, term>>

\* The process is gone.
Stopped == pc = "exit" /\ UNCHANGED vars

-----------------------------------------------------------------------------
Open  == OpenOk \/ OpenConnectFail \/ OpenFatal
Top   == \/ TopNobody \/ TopWait \/ TopAdjust \/ TopEndList
         \/ \E b \in Wanted(cfg.id_list) : TopRead(b)
Read  == ReadOk \/ ReadFail
Poll  == PollTerm \/ PollHup \/ PollHupBroken \/ PollTimeout
Sleep == SleepTerm \/ SleepDone
World == Tick \/ SigTerm \/ SigHup

Next == Open \/ Top \/ Read \/ Poll \/ PollIo \/ PollAcceptFail \/ Sleep
        \/ World \/ Stopped

Spec == Init /\ [][Next]_vars

\* The daemon's one thread runs whenever it can: open, read and poll return.
\* Nothing obliges a peer to come, a signal to arrive or a read to succeed.
Fairness == /\ WF_vars(Open) /\ WF_vars(Top) /\ WF_vars(Read)
            /\ WF_vars(Poll) /\ WF_vars(Sleep) /\ WF_vars(Tick)

-----------------------------------------------------------------------------
TimeOrNull == Nat \cup {NoTime}

TypeOK ==
    /\ pc \in {"open", "top", "reading", "poll", "sleep", "exit"}
    /\ now \in Nat /\ cfg \in Configs
    /\ id_list_index \in Nat /\ id_list_sub_index \in 0 .. 2
    /\ next_modbus_time \in TimeOrNull /\ first_modbus_time \in TimeOrNull
    /\ last_modbus_time \in TimeOrNull
    /\ peerCount \in 0 .. MaxPeers /\ deadline \in TimeOrNull
    /\ term \in BOOLEAN /\ hups \in 0 .. MaxHups
    /\ attempted \subseteq Nat \X {0, 1}
    /\ busEnd \in TimeOrNull /\ due \in TimeOrNull

\* What the specification says of get_next_id_info with Remaining and IsNext
\* is what the recursive function computes at every cursor that is reached.
GetNextAgrees ==
    LET r == GetNext(id_list_index, id_list_sub_index)
    IN IF r[3] # 0 THEN r[3] = r[1] + 1 /\ IsNext(<<r[1], r[2] - 1>>)
                   ELSE Remaining = {} /\ r[1] = 0 /\ r[2] = 0

\* The cursor (id_list_index, id_list_sub_index) survives errors, sleeps and
\* re-opens, is moved before the read it stands for, and is reset in three
\* places.  At every moment the pass has asked for exactly the wanted blocks
\* before the cursor: none is skipped and none is asked for out of turn.
AttemptedIsPrefix ==
    attempted = {b \in Wanted(cfg.id_list) : Pos(b) < Cursor}

\* Within a pass no block is read twice, whatever fails in between.
NoBlockTwice ==
    [][\A b \in Wanted(cfg.id_list) : TopRead(b) => b \notin attempted]_vars

\* check_modbus ends a pass only when every wanted block was asked for.
PassIsComplete ==
    [][TopEndList => attempted = Wanted(cfg.id_list)]_vars

\* While the daemon remembers its last read, two exchanges on the bus are
\* min_mstime apart, end to start, also across failed reads (which do not
\* update last_modbus_time), the sleep after them, reloads and re-opens.
CallsSpaced ==
    [][\A b \in Wanted(cfg.id_list) :
          TopRead(b) /\ last_modbus_time # NoTime => now - busEnd >= MinMs]_vars

\* The same without the proviso, as the comment in check_modbus has it: "can
\* not let 2 process_tty_id_info calls too close together".
CallsNeverTooClose ==
    [][(pc = "top" /\ pc' = "reading" /\ busEnd # NoTime)
          => now - busEnd >= MinMs]_vars

\* However late the daemon runs, and whatever the safety adjustment does to
\* first_modbus_time, a pass never reads before its place in the timetable:
\* the start of the schedule plus list_mstime for every pass before it.
PassNeverEarly == pc = "reading" => due # NoTime /\ now >= due

\* poll never sleeps past the next block that is due, and never for ever
\* while somebody listens.
PollWakesInTime ==
    pc = "poll" /\ peerCount > 0 =>
        /\ deadline # NoTime
        /\ \/ deadline <= now
           \/ next_modbus_time # NoTime /\ deadline <= next_modbus_time
=============================================================================
