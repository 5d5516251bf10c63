--------------------------- MODULE MCScanSchedule ---------------------------
(***************************************************************************)
(* ScanSchedule on small instances, and liveness.  A clock that stops at   *)
(* MaxTime would end every schedule, so here time goes on: when the clock  *)
(* is at its bound, Slide lets a millisecond pass by moving every          *)
(* remembered time one back.                                               *)
(* ScanSchedule only compares and subtracts times, so a state and the same *)
(* state shifted behave alike; a time that would leave the window at Epoch *)
(* stays there, which caps how late the timetable can get.                 *)
(***************************************************************************)
EXTENDS ScanSchedule, TLC

Both(h, i) == [read_count |-> h, read_input_count |-> i]

\* Two devices with a gap in the middle of the list, a device nobody reads,
\* and a list with nothing to read at all.
MCConfigs == {
    [id_list |-> <<Both(2, 0), Both(0, 0), Both(1, 1)>>,
     item_mstime |-> 1, list_mstime |-> 4],
    [id_list |-> <<Both(0, 3)>>, item_mstime |-> 3, list_mstime |-> 5],
    [id_list |-> <<Both(0, 0)>>, item_mstime |-> 2, list_mstime |-> 3]}

-----------------------------------------------------------------------------
Back(t) == IF t = NoTime THEN NoTime ELSE Later(Epoch, t - 1)

Slide ==
    /\ now = MaxTime
    /\ next_modbus_time' = Back(next_modbus_time)
    /\ first_modbus_time' = Back(first_modbus_time)
    /\ last_modbus_time' = Back(last_modbus_time)
    /\ deadline' = Back(deadline)
    /\ busEnd' = Back(busEnd) /\ due' = Back(due)
    /\ UNCHANGED <<pc, now, cfg, cursor, attempted, peerCount, signals>>

\* The daemon's thread runs whenever it can, and time passes.
LiveSpec == /\ Init /\ [][Next \/ Slide]_vars
            /\ WF_vars(Open) /\ WF_vars(Top) /\ WF_vars(Read)
            /\ WF_vars(Poll) /\ WF_vars(Sleep) /\ WF_vars(Tick \/ Slide)

\* The daemon keeps getting back to its loop: the serial port can be opened
\* again and again, even if reads fail in between.
KeepsLooping == []<>(pc = "top")

\* Somebody listens from some time on, and the operator leaves the
\* configuration alone (a reload starts the pass again from its first block).
Quiet == <>[](peerCount > 0 /\ hups = 0)

\* No block starves: while somebody listens, every block of the
\* configuration is read again and again, whatever reads fail and however
\* the pauses after failures shift the timetable.
EveryBlockReadAgain ==
    \A c \in Configs : \A b \in Wanted(c.id_list) :
        KeepsLooping /\ Quiet /\ <>[](cfg = c)
            => []<>(pc = "reading" /\ Pos(b) + 1 = Cursor)

\* SIGTERM stops the daemon from wherever it is, also out of the pause.
TermExits == term ~> (pc = "exit")

\* A SIGHUP is served, also one that came while the daemon paused.
HupServed == KeepsLooping => [](hups = MaxHups => <>(hups < MaxHups \/ term))
=============================================================================
