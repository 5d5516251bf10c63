------------------------ MODULE ScanSchedule_proofs ------------------------
(***************************************************************************)
(* What ScanSchedule promises for every configuration, every timing        *)
(* constant and every bound.                                               *)
(***************************************************************************)
EXTENDS ScanSchedule, FeedLemmas

\* A pending time is a number: the facts about OrElse and Later used below.
LEMMA TimeOps ==
    ASSUME NEW t \in TimeOrNull, NEW d \in Nat, NEW e \in Nat
    PROVE  /\ OrElse(t, d) \in Nat
           /\ t = NoTime => OrElse(t, d) = d
           /\ t # NoTime => OrElse(t, d) = t /\ t \in Nat
           /\ Later(d, e) \in Nat
           /\ Later(d, e) >= d /\ Later(d, e) >= e
           /\ Later(d, e) = d \/ Later(d, e) = e
  BY DEF TimeOrNull, OrElse, Later

\* NoTime is not a number.
LEMMA NoTimeIsNull == NoTime \notin Nat /\ NoTime \in TimeOrNull
  BY TimeAssumption DEF TimeOrNull

LEMMA ConfigFacts ==
    ASSUME NEW c \in Configs
    PROVE  /\ Len(c.id_list) \in Nat
           /\ c.item_mstime \in Nat /\ c.list_mstime \in Nat
  <1>1. c \in ConfigType
    BY ConfigsAssumption
  <1>2. c.id_list \in Seq(Device)
    BY <1>1 DEF ConfigType
  <1> QED
    BY <1>1, <1>2 DEF ConfigType

LEMMA WantedFacts ==
    ASSUME NEW c \in Configs, NEW b \in Wanted(c.id_list)
    PROVE  /\ b = <<b[1], b[2]>> /\ b[1] \in Nat /\ b[2] \in {0, 1}
           /\ Pos(b) \in Nat
  BY ConfigFacts DEF Wanted, Pos

\* Two blocks at one position are one block.
LEMMA PosInjective ==
    ASSUME NEW c \in Configs, NEW a \in Wanted(c.id_list),
           NEW b \in Wanted(c.id_list), Pos(a) = Pos(b)
    PROVE  a = b
  <1>1. /\ a = <<a[1], a[2]>> /\ a[1] \in Nat /\ a[2] \in {0, 1}
        /\ b = <<b[1], b[2]>> /\ b[1] \in Nat /\ b[2] \in {0, 1}
    BY WantedFacts
  <1>2. 2 * a[1] + a[2] = 2 * b[1] + b[2]
    BY DEF Pos
  <1>3. a[1] = b[1] /\ a[2] = b[2]
    BY <1>1, <1>2
  <1> QED
    BY <1>1, <1>3

-----------------------------------------------------------------------------
(* Type correctness.                                                       *)

LEMMA TypeInit == Init => TypeOK
  <1> SUFFICES ASSUME Init PROVE TypeOK
    OBVIOUS
  <1>1. /\ now \in Nat /\ peerCount \in 0 .. MaxPeers
        /\ hups \in 0 .. MaxHups
    BY TimeAssumption, BoundAssumption DEF Init
  <1>2. term \in BOOLEAN /\ attempted \subseteq Nat \X {0, 1}
    BY DEF Init
  <1> QED
    BY <1>1, <1>2, NoTimeIsNull DEF Init, TypeOK

LEMMA TypeStep == TypeOK /\ [Next]_vars => TypeOK'
  <1> SUFFICES ASSUME TypeOK, [Next]_vars PROVE TypeOK'
    OBVIOUS
  <1> USE DEF TypeOK
  <1>1. /\ cfg.item_mstime \in Nat /\ cfg.list_mstime \in Nat
        /\ Len(cfg.id_list) \in Nat
    BY ConfigFacts
  <1>2. /\ nmt \in Nat /\ fmt \in Nat /\ lmt \in Nat
        /\ OrElse(due, now) \in Nat
        /\ \A d, e \in Nat : Later(d, e) \in Nat
    BY TimeOps DEF nmt, fmt, lmt
  <1>3. \A d, e \in Nat : d + e \in Nat
    OBVIOUS
  <1>4. NoTime \in TimeOrNull /\ \A t \in Nat : t \in TimeOrNull
    BY NoTimeIsNull DEF TimeOrNull
  <1>5. /\ SleepMs \in Nat /\ MinMs \in Nat /\ MaxPeers \in Nat
        /\ MaxHups \in Nat
    BY TimeAssumption, BoundAssumption
  <1>6. CASE Open
    BY <1>6, <1>4, <1>5
       DEF Open, OpenOk, OpenConnectFail, OpenFatal, GoToSleep, scanVars,
           cursor, times, history, signals
  <1>7. CASE TopNobody
    BY <1>7, <1>4 DEF TopNobody, ForgetSchedule, signals
  <1>8. CASE TopWait
    BY <1>8, <1>2, <1>4
       DEF TopWait, WaitUntil, scanVars, cursor, times, history, signals
  <1>9. CASE TopAdjust
    <2>1. lmt + MinMs \in Nat
      BY <1>2, <1>5
    <2>2. deadline' \in Nat /\ next_modbus_time' \in Nat
          /\ first_modbus_time' \in Nat /\ due' \in Nat
      BY <1>9, <1>2, <2>1 DEF TopAdjust, WaitUntil
    <2> QED
      BY <1>9, <1>4, <2>2 DEF TopAdjust, cursor, signals
  <1>10. CASE TopEndList
    <2>1. NextPassAt(fmt) \in Nat
      BY <1>1, <1>2, <1>3, Zenon DEF NextPassAt
    <2>2. deadline' \in Nat /\ next_modbus_time' \in Nat
          /\ first_modbus_time' \in Nat /\ due' \in Nat
      BY <1>10, <1>1, <1>2, <1>3, <2>1, Zenon DEF TopEndList, WaitUntil
    <2> QED
      BY <1>10, <1>4, <2>2 DEF TopEndList, signals
  <1>11. ASSUME NEW b \in Wanted(cfg.id_list), TopRead(b) PROVE TypeOK'
    <2>1. b \in Nat \X {0, 1} /\ b[1] \in Nat /\ b[2] \in {0, 1}
      BY WantedFacts
    <2>2. next_modbus_time' \in Nat /\ due' \in Nat
      BY <1>11, <1>1, <1>2, <1>3, Zenon DEF TopRead
    <2> QED
      BY <1>11, <1>4, <2>1, <2>2 DEF TopRead, signals
  <1>12. CASE Read
    BY <1>12, <1>4, <1>5
       DEF Read, ReadOk, ReadFail, ReadEnds, GoToSleep, cursor, times, signals
  <1>13. CASE Poll
    <2>1. CASE PollTerm \/ PollTimeout
      BY <2>1
         DEF PollTerm, PollTimeout, scanVars, cursor, times, history, signals
    <2>2. CASE PollHup
      BY <2>2, <1>4, <1>5 DEF PollHup, HupTaken, Reload, ForgetSchedule
    <2>3. CASE PollHupBroken
      BY <2>3, <1>5
         DEF PollHupBroken, HupTaken, scanVars, cursor, times, history
    <2> QED
      BY <1>13, <2>1, <2>2, <2>3 DEF Poll
  <1>14. CASE PollIo
    BY <1>14, <1>5
       DEF PollIo, scanVars, cursor, times, history, signals
  <1>15. CASE PollAcceptFail
    BY <1>15, <1>4, <1>5
       DEF PollAcceptFail, GoToSleep, scanVars, cursor, times, history, signals
  <1>16. CASE Sleep
    BY <1>16
       DEF Sleep, SleepTerm, SleepDone, scanVars, cursor, times, history,
           signals
  <1>17. CASE World
    <2>1. CASE Tick \/ SigHup
      BY <2>1, <1>5
         DEF Tick, SigHup, scanVars, cursor, times, history, signals
    <2>2. CASE SigTerm
      BY <2>2 DEF SigTerm, scanVars, cursor, times, history
    <2> QED
      BY <1>17, <2>1, <2>2 DEF World
  <1>18. CASE UNCHANGED vars
    BY <1>18 DEF vars, scanVars, cursor, times, history, signals
  <1> QED
    BY <1>6, <1>7, <1>8, <1>9, <1>10, <1>11, <1>12, <1>13, <1>14, <1>15, <1>16,
       <1>17, <1>18 DEF Next, Top, Stopped

\* Every variable keeps its type, whatever the file, the peers, the bus and
\* the signals do.
THEOREM TypeCorrect == Spec => []TypeOK
  BY TypeInit, TypeStep, PTL DEF Spec

-----------------------------------------------------------------------------
(* The pass.  AttemptedIsPrefix is inductive given the types.              *)

LEMMA PrefixStep ==
    TypeOK /\ AttemptedIsPrefix /\ [Next]_vars => AttemptedIsPrefix'
  <1> SUFFICES ASSUME TypeOK, AttemptedIsPrefix, [Next]_vars
               PROVE  AttemptedIsPrefix'
    OBVIOUS
  <1>1. /\ cfg \in Configs
        /\ id_list_index \in Nat /\ id_list_sub_index \in Nat
        /\ Cursor \in Nat
    BY DEF TypeOK, Cursor
  <1>2. ASSUME UNCHANGED <<cfg, cursor, attempted>> PROVE AttemptedIsPrefix'
    BY <1>2 DEF AttemptedIsPrefix, cursor, Cursor
  <1>3. ASSUME ForgetSchedule, cfg' \in Configs PROVE AttemptedIsPrefix'
    <2>1. Cursor' = 0 /\ attempted' = {}
      BY <1>3 DEF ForgetSchedule, Cursor
    <2>2. \A b \in Wanted(cfg'.id_list) : ~(Pos(b) < 0)
      BY <1>3, WantedFacts
    <2> QED
      BY <2>1, <2>2 DEF AttemptedIsPrefix
  <1>4. CASE TopEndList
    <2>1. Cursor' = 0 /\ attempted' = {} /\ cfg' = cfg
      BY <1>4 DEF TopEndList, Cursor
    <2>2. \A b \in Wanted(cfg.id_list) : ~(Pos(b) < 0)
      BY <1>1, WantedFacts
    <2> QED
      BY <2>1, <2>2 DEF AttemptedIsPrefix
  <1>5. ASSUME NEW b \in Wanted(cfg.id_list), TopRead(b)
        PROVE  AttemptedIsPrefix'
    <2>1. /\ b[1] \in Nat /\ b[2] \in {0, 1} /\ Pos(b) \in Nat
      BY <1>1, WantedFacts
    <2>2. Cursor' = Pos(b) + 1 /\ cfg' = cfg /\ attempted' = attempted \cup {b}
      BY <1>5, <2>1 DEF TopRead, Cursor, Pos
    <2>3. ASSUME NEW w \in Wanted(cfg.id_list)
          PROVE  Pos(w) < Pos(b) + 1 <=> Pos(w) < Cursor \/ w = b
      <3>1. Pos(w) \in Nat
        BY <1>1, WantedFacts
      <3>2. Pos(b) >= Cursor
        BY <1>5 DEF TopRead, IsNext, Remaining
      <3>3. Pos(w) >= Cursor => Pos(b) <= Pos(w)
        BY <1>5 DEF TopRead, IsNext, Remaining
      <3>4. Pos(w) = Pos(b) => w = b
        BY <1>1, PosInjective
      <3> QED
        BY <1>1, <2>1, <3>1, <3>2, <3>3, <3>4
    <2> QED
      BY <2>2, <2>3 DEF AttemptedIsPrefix
  <1>6. CASE TopNobody
    BY <1>6, <1>3, <1>1 DEF TopNobody
  <1>7. CASE PollHup
    BY <1>7, <1>3 DEF PollHup, Reload
  <1>8. CASE Open \/ TopWait \/ TopAdjust \/ Read \/ PollIo \/ PollAcceptFail
    BY <1>2, <1>8
       DEF Open, OpenOk, OpenConnectFail, OpenFatal, GoToSleep, TopWait,
           TopAdjust, Read, ReadOk, ReadFail, PollIo, PollAcceptFail,
           scanVars, history
  <1>9. CASE PollTerm \/ PollHupBroken \/ PollTimeout \/ Sleep \/ World
             \/ UNCHANGED vars
    BY <1>2, <1>9
       DEF PollTerm, PollHupBroken, PollTimeout, Sleep, SleepTerm, SleepDone,
           World, Tick, SigTerm, SigHup, vars, scanVars, history
  <1> QED
    BY <1>4, <1>5, <1>6, <1>7, <1>8, <1>9 DEF Next, Top, Poll, Stopped

LEMMA PrefixInit == Init => AttemptedIsPrefix
  <1> SUFFICES ASSUME Init PROVE AttemptedIsPrefix
    OBVIOUS
  <1>1. Cursor = 0 /\ attempted = {} /\ cfg \in Configs
    BY DEF Init, Cursor
  <1>2. \A b \in Wanted(cfg.id_list) : ~(Pos(b) < 0)
    BY <1>1, WantedFacts
  <1> QED
    BY <1>1, <1>2 DEF AttemptedIsPrefix

\* At every moment the pass has asked for exactly the wanted blocks before
\* the cursor of get_next_id_info.
THEOREM PrefixCorrect == Spec => []AttemptedIsPrefix
  BY TypeInit, TypeStep, PrefixInit, PrefixStep, PTL DEF Spec

\* No block is asked for twice in a pass.
THEOREM NeverTwice == Spec => NoBlockTwice
  <1>1. AttemptedIsPrefix /\ TypeOK =>
          \A b \in Wanted(cfg.id_list) : TopRead(b) => b \notin attempted
    <2> SUFFICES ASSUME AttemptedIsPrefix, TypeOK,
                        NEW b \in Wanted(cfg.id_list), TopRead(b)
                 PROVE  b \notin attempted
      OBVIOUS
    <2>1. Pos(b) >= Cursor
      BY DEF TopRead, IsNext, Remaining
    <2>2. Pos(b) \in Nat /\ Cursor \in Nat
      BY WantedFacts DEF TypeOK, Cursor
    <2> QED
      BY <2>1, <2>2 DEF AttemptedIsPrefix
  <1> QED
    BY <1>1, TypeCorrect, PrefixCorrect, PTL DEF NoBlockTwice

\* A pass ends only when every wanted block was asked for.
THEOREM PassesComplete == Spec => PassIsComplete
  <1>1. AttemptedIsPrefix /\ TypeOK
          => (TopEndList => attempted = Wanted(cfg.id_list))
    <2> SUFFICES ASSUME AttemptedIsPrefix, TypeOK, TopEndList
                 PROVE  attempted = Wanted(cfg.id_list)
      OBVIOUS
    <2>1. \A b \in Wanted(cfg.id_list) : ~(Pos(b) >= Cursor)
      BY DEF TopEndList, Remaining
    <2>2. \A b \in Wanted(cfg.id_list) : Pos(b) < Cursor
      <3> SUFFICES ASSUME NEW b \in Wanted(cfg.id_list)
                   PROVE  Pos(b) < Cursor
        OBVIOUS
      <3>1. Pos(b) \in Nat /\ Cursor \in Nat
        BY WantedFacts DEF TypeOK, Cursor
      <3> QED
        BY <2>1, <3>1
    <2> QED
      BY <2>2 DEF AttemptedIsPrefix
  <1> QED
    BY <1>1, TypeCorrect, PrefixCorrect, PTL DEF PassIsComplete

-----------------------------------------------------------------------------
(* The timetable.  The daemon keeps first_modbus_time, not due; between    *)
(* passes the first block waits for next_modbus_time.  What ties the three *)
(* together, through late passes and safety adjustments, is DueInv.        *)

DueInv ==
    /\ (due = NoTime) <=> (next_modbus_time = NoTime)
    /\ due = NoTime => first_modbus_time = NoTime
    /\ due # NoTime =>
         /\ due <= now \/ due <= next_modbus_time
         /\ IF first_modbus_time = NoTime THEN due <= now
                                          ELSE due <= first_modbus_time
    /\ PassNeverEarly

LEMMA DueInit == Init => DueInv
  BY DEF Init, DueInv, PassNeverEarly

LEMMA DueStep == TypeOK /\ DueInv /\ [Next]_vars => DueInv'
  <1> SUFFICES ASSUME TypeOK, DueInv, [Next]_vars PROVE DueInv'
    OBVIOUS
  <1>1. /\ now \in Nat /\ due \in TimeOrNull
        /\ next_modbus_time \in TimeOrNull
        /\ first_modbus_time \in TimeOrNull
        /\ last_modbus_time \in TimeOrNull
    BY DEF TypeOK
  <1>2. cfg.item_mstime \in Nat /\ cfg.list_mstime \in Nat
    BY ConfigFacts DEF TypeOK
  <1>3. NoTime \notin Nat /\ MinMs \in Nat
    BY NoTimeIsNull, TimeAssumption
  \* When a block or the end of the list is due, so is the pass.
  <1>4. ASSUME Due
        PROVE  /\ OrElse(due, now) \in Nat /\ OrElse(due, now) <= now
               /\ fmt \in Nat
               /\ OrElse(due, now) <= fmt
    BY <1>4, <1>1, <1>3 DEF DueInv, Due, nmt, fmt, OrElse, TimeOrNull
  <1>5. ASSUME now' = now, due' = due, next_modbus_time' = next_modbus_time,
               first_modbus_time' = first_modbus_time, pc' # "reading"
        PROVE  DueInv'
    BY <1>5 DEF DueInv, PassNeverEarly
  <1>6. ASSUME ForgetSchedule, pc' # "reading"
        PROVE  DueInv'
    BY <1>6 DEF ForgetSchedule, DueInv, PassNeverEarly
  <1>7. CASE TopAdjust
    <2>1. lmt \in Nat /\ lmt + MinMs \in Nat /\ lmt + MinMs > now
      BY <1>7, <1>1, <1>3 DEF TopAdjust, TooClose, lmt, OrElse, TimeOrNull
    <2>2. /\ due' \in Nat /\ due' <= now /\ now' = now /\ pc' = "poll"
          /\ next_modbus_time' = lmt + MinMs
          /\ first_modbus_time' = lmt + MinMs
      BY <1>7, <1>4 DEF TopAdjust
    <2> QED
      BY <1>1, <1>3, <2>1, <2>2 DEF DueInv, PassNeverEarly
  <1>8. CASE TopEndList
    <2> DEFINE p == cfg.list_mstime
    <2>1. /\ due' = OrElse(due, now) + p
          /\ next_modbus_time' = fmt + p /\ first_modbus_time' = fmt + p
          /\ now' = now /\ pc' = "poll"
      BY <1>8 DEF TopEndList, NextPassAt
    <2>2. /\ OrElse(due, now) \in Nat /\ fmt \in Nat
          /\ OrElse(due, now) <= fmt
      BY <1>8, <1>4 DEF TopEndList
    <2>3. p \in Nat
      BY <1>2
    <2> HIDE DEF p
    <2>4. /\ due' \in Nat /\ next_modbus_time' \in Nat
          /\ due' <= next_modbus_time'
      BY <2>1, <2>2, <2>3
    <2> QED
      BY <1>3, <2>1, <2>4 DEF DueInv, PassNeverEarly
  <1>9. ASSUME NEW b \in Wanted(cfg.id_list), TopRead(b)
        PROVE  DueInv'
    <2> DEFINE p == cfg.item_mstime
    <2>1. /\ due' = OrElse(due, now) /\ next_modbus_time' = now + p
          /\ first_modbus_time' = first_modbus_time /\ now' = now
      BY <1>9 DEF TopRead
    <2>2. /\ OrElse(due, now) \in Nat /\ OrElse(due, now) <= now
          /\ OrElse(due, now) <= fmt
      BY <1>9, <1>4 DEF TopRead
    <2>3. p \in Nat
      BY <1>2
    <2> HIDE DEF p
    <2>4. next_modbus_time' \in Nat /\ due' \in Nat /\ due' <= now
      BY <1>1, <2>1, <2>2, <2>3
    <2>5. first_modbus_time # NoTime => due' <= first_modbus_time
      BY <2>1, <2>2 DEF fmt, OrElse
    <2> QED
      BY <1>3, <2>1, <2>4, <2>5 DEF DueInv, PassNeverEarly
  <1>10. CASE Tick
    BY <1>10, <1>1, <1>3
       DEF Tick, DueInv, PassNeverEarly, TimeOrNull, scanVars, times, history
  <1>11. CASE TopNobody
    BY <1>11, <1>6 DEF TopNobody
  <1>12. CASE PollHup
    BY <1>12, <1>6 DEF PollHup, Reload
  <1>13. CASE Open \/ TopWait \/ Read \/ PollIo \/ PollAcceptFail
    BY <1>5, <1>13
       DEF Open, OpenOk, OpenConnectFail, OpenFatal, GoToSleep, TopWait,
           Read, ReadOk, ReadFail, ReadEnds, PollIo, PollAcceptFail,
           scanVars, times, history
  <1>14. CASE PollTerm \/ PollHupBroken \/ PollTimeout \/ Sleep
    BY <1>5, <1>14
       DEF PollTerm, PollHupBroken, PollTimeout, Sleep, SleepTerm, SleepDone,
           scanVars, times, history
  <1>15. CASE SigTerm \/ SigHup \/ UNCHANGED vars
    BY <1>15
       DEF SigTerm, SigHup, DueInv, PassNeverEarly, vars, scanVars, times,
           history
  <1> QED
    BY <1>7, <1>8, <1>9, <1>10, <1>11, <1>12, <1>13, <1>14, <1>15
       DEF Next, Top, Poll, World, Stopped

\* No pass reads before the start of the schedule plus list_mstime for every
\* pass before it.
THEOREM NeverEarly == Spec => []PassNeverEarly
  <1>1. DueInv => PassNeverEarly
    BY DEF DueInv
  <1> QED
    BY <1>1, TypeInit, TypeStep, DueInit, DueStep, PTL DEF Spec

-----------------------------------------------------------------------------
(* The poll timeout.  PollWakesInTime is inductive given the types.        *)

LEMMA WakeStep ==
    TypeOK /\ PollWakesInTime /\ [Next]_vars => PollWakesInTime'
  <1> SUFFICES ASSUME TypeOK, PollWakesInTime, [Next]_vars
               PROVE  PollWakesInTime'
    OBVIOUS
  <1>1. /\ now \in Nat /\ deadline \in TimeOrNull
        /\ next_modbus_time \in TimeOrNull /\ NoTime \notin Nat
    BY NoTimeIsNull DEF TypeOK
  <1>2. ASSUME pc' # "poll" PROVE PollWakesInTime'
    BY <1>2 DEF PollWakesInTime
  <1>3. ASSUME NEW t \in Nat, WaitUntil(t), now' = now,
               next_modbus_time' = t \/ t <= now
        PROVE  PollWakesInTime'
    <2>1. deadline' \in Nat /\ (deadline' = t \/ deadline' = now)
      BY <1>3, <1>1, TimeOps DEF WaitUntil
    <2> QED
      BY <1>3, <1>1, <2>1 DEF PollWakesInTime
  <1>4. CASE TopNobody
    BY <1>4 DEF TopNobody, PollWakesInTime
  <1>5. CASE TopWait
    <2>1. nmt \in Nat /\ next_modbus_time = nmt
      BY <1>5, <1>1 DEF TopWait, nmt, OrElse, TimeOrNull
    <2> QED
      BY <1>3, <1>5, <2>1 DEF TopWait, scanVars, times
  <1>6. CASE TopAdjust
    <2>1. lmt + MinMs \in Nat
      BY <1>1, TimeAssumption DEF TypeOK, lmt, OrElse, TimeOrNull
    <2> QED
      BY <1>3, <1>6, <2>1 DEF TopAdjust
  <1>7. CASE TopEndList
    <2>1. fmt \in Nat /\ cfg.list_mstime \in Nat
      BY <1>1, ConfigFacts DEF TypeOK, fmt, OrElse, TimeOrNull
    <2>2. \A d, e \in Nat : d + e \in Nat
      OBVIOUS
    <2>3. NextPassAt(fmt) \in Nat
      BY <2>1, <2>2, Zenon DEF NextPassAt
    <2> QED
      BY <1>3, <1>7, <2>3 DEF TopEndList
  <1>8. CASE Read
    BY <1>2, <1>8, <1>1
       DEF Read, ReadOk, ReadFail, GoToSleep, ReadEnds, PollWakesInTime
  <1>9. CASE Tick
    BY <1>9, <1>1
       DEF Tick, PollWakesInTime, TimeOrNull, scanVars, times
  <1>10. CASE SigTerm \/ SigHup \/ UNCHANGED vars
    BY <1>10
       DEF SigTerm, SigHup, PollWakesInTime, vars, scanVars, times
  <1>11. ASSUME NEW b \in Wanted(cfg.id_list), TopRead(b)
         PROVE  PollWakesInTime'
    BY <1>2, <1>11 DEF TopRead
  <1>12. CASE Open \/ Poll \/ PollIo \/ PollAcceptFail \/ Sleep
    BY <1>2, <1>12
       DEF Open, OpenOk, OpenConnectFail, OpenFatal, GoToSleep, Poll,
           PollTerm, PollHup, PollHupBroken, PollTimeout, PollIo,
           PollAcceptFail, Sleep, SleepTerm, SleepDone
  <1> QED
    BY <1>4, <1>5, <1>6, <1>7, <1>8, <1>9, <1>10, <1>11, <1>12
       DEF Next, Top, World, Stopped

\* While somebody listens, poll is never asked to sleep past the next block.
THEOREM WakesInTime == Spec => []PollWakesInTime
  <1>1. Init => PollWakesInTime
    BY DEF Init, PollWakesInTime
  <1> QED
    BY <1>1, TypeInit, TypeStep, WakeStep, PTL DEF Spec

-----------------------------------------------------------------------------
(* The spacing of two exchanges.  last_modbus_time is the end of the last  *)
(* exchange that went well; one that failed later is covered by the pause  *)
(* of main, which SpacedInv follows until it is over.                      *)

SpacedInv ==
    /\ pc = "sleep" => deadline # NoTime
    /\ last_modbus_time # NoTime =>
         /\ busEnd # NoTime
         /\ \/ pc = "reading" \/ pc = "exit"
            \/ busEnd = last_modbus_time
            \/ pc = "sleep" /\ deadline >= busEnd + SleepMs
            \/ now >= busEnd + SleepMs

LEMMA SpacedInit == Init => SpacedInv
  BY DEF Init, SpacedInv

LEMMA SpacedStep == TypeOK /\ SpacedInv /\ [Next]_vars => SpacedInv'
  <1> SUFFICES ASSUME TypeOK, SpacedInv, [Next]_vars PROVE SpacedInv'
    OBVIOUS
  <1>1. /\ now \in Nat /\ deadline \in TimeOrNull /\ busEnd \in TimeOrNull
        /\ last_modbus_time \in TimeOrNull
        /\ NoTime \notin Nat /\ SleepMs \in Nat
    BY NoTimeIsNull, TimeAssumption DEF TypeOK
  <1>2. ASSUME now' = now, last_modbus_time' = last_modbus_time,
               busEnd' = busEnd, pc \notin {"reading", "sleep", "exit"},
               pc' # "sleep"
        PROVE  SpacedInv'
    BY <1>2 DEF SpacedInv
  <1>3. ASSUME GoToSleep, now' = now, last_modbus_time' = last_modbus_time,
               busEnd' = busEnd, pc \notin {"reading", "sleep", "exit"}
        PROVE  SpacedInv'
    BY <1>3, <1>1 DEF SpacedInv, GoToSleep
  <1>4. ASSUME last_modbus_time' = NoTime, pc' # "sleep"
        PROVE  SpacedInv'
    BY <1>4 DEF SpacedInv
  <1>5. CASE OpenOk \/ OpenFatal \/ TopWait \/ TopAdjust \/ TopEndList
    BY <1>2, <1>5
       DEF OpenOk, OpenFatal, TopWait, TopAdjust, TopEndList, Due, scanVars,
           times, history
  <1>6. CASE OpenConnectFail \/ PollAcceptFail
    BY <1>3, <1>6 DEF OpenConnectFail, PollAcceptFail, scanVars, times, history
  <1>7. CASE TopNobody \/ PollHup
    BY <1>4, <1>7 DEF TopNobody, PollHup, Reload, ForgetSchedule
  <1>8. ASSUME NEW b \in Wanted(cfg.id_list), TopRead(b)
        PROVE  SpacedInv'
    BY <1>8 DEF TopRead, SpacedInv
  <1>9. CASE ReadOk
    BY <1>9, <1>1 DEF ReadOk, ReadEnds, SpacedInv
  <1>10. CASE ReadFail
    BY <1>10, <1>1 DEF ReadFail, GoToSleep, SpacedInv, times
  <1>11. CASE PollTerm \/ PollHupBroken \/ PollTimeout \/ PollIo
    BY <1>2, <1>11
       DEF PollTerm, PollHupBroken, HupTaken, PollTimeout, PollIo, scanVars,
           times, history
  <1>12. CASE SleepTerm \/ SleepDone
    <2>1. /\ now' = now /\ last_modbus_time' = last_modbus_time
          /\ busEnd' = busEnd /\ pc = "sleep"
          /\ pc' \in {"open", "exit"}
      BY <1>12 DEF SleepTerm, SleepDone, scanVars, times, history
    <2>2. CASE SleepDone
      <3>1. deadline \in Nat /\ now >= deadline
        BY <1>1, <2>2 DEF SleepDone, SpacedInv, TimeOrNull
      <3>2. busEnd # NoTime => busEnd \in Nat
        BY <1>1 DEF TimeOrNull
      <3> QED
        BY <1>1, <2>1, <3>1, <3>2 DEF SpacedInv
    <2>3. CASE SleepTerm
      BY <1>1, <2>1, <2>3 DEF SleepTerm, SpacedInv
    <2> QED
      BY <1>12, <2>2, <2>3
  <1>13. CASE Tick
    <2>1. busEnd # NoTime => busEnd + SleepMs \in Nat
      BY <1>1 DEF TimeOrNull
    <2> QED
      BY <1>13, <1>1, <2>1 DEF Tick, SpacedInv, scanVars, times, history
  <1>14. CASE SigTerm \/ SigHup \/ UNCHANGED vars
    BY <1>14
       DEF SigTerm, SigHup, SpacedInv, vars, scanVars, times, history
  <1> QED
    BY <1>5, <1>6, <1>7, <1>8, <1>9, <1>10, <1>11, <1>12, <1>13, <1>14
       DEF Next, Open, Top, Read, Poll, Sleep, World, Stopped

\* While the daemon remembers a read, the next one starts min_mstime after
\* the end of the last exchange, also when that one failed.
THEOREM Spaced == Spec => CallsSpaced
  <1>1. TypeOK /\ SpacedInv =>
          \A b \in Wanted(cfg.id_list) :
             TopRead(b) /\ last_modbus_time # NoTime => now - busEnd >= MinMs
    <2> SUFFICES ASSUME TypeOK, SpacedInv, NEW b \in Wanted(cfg.id_list),
                        TopRead(b), last_modbus_time # NoTime
                 PROVE  now - busEnd >= MinMs
      OBVIOUS
    <2>1. /\ now \in Nat /\ busEnd \in Nat /\ MinMs \in Nat /\ SleepMs \in Nat
          /\ MinMs <= SleepMs
      BY TimeAssumption DEF TypeOK, SpacedInv, TimeOrNull
    <2>2. pc = "top" /\ ~(now - last_modbus_time < MinMs)
      BY DEF TopRead, Due, TooClose, lmt, OrElse
    <2>3. busEnd = last_modbus_time \/ now >= busEnd + SleepMs
      BY <2>2 DEF SpacedInv
    <2> QED
      BY <2>1, <2>2, <2>3
  <1>2. Spec => []SpacedInv
    BY TypeInit, TypeStep, SpacedInit, SpacedStep, PTL DEF Spec
  <1> QED
    BY <1>1, <1>2, TypeCorrect, PTL DEF CallsSpaced

-----------------------------------------------------------------------------
(* get_next_id_info.  What it should compute from a cursor solves the       *)
(* equation that it is written as, so the equation has a solution; and no   *)
(* two solutions differ, since the recursion comes to an end.               *)

Cursors == Nat \X (0 .. 2)
At(c)    == 2 * c[1] + c[2]
After(c) == {b \in Wanted(cfg.id_list) : Pos(b) >= At(c)}
First(c) == CHOOSE b \in After(c) : \A r \in After(c) : Pos(b) <= Pos(r)

Answer(c) == IF After(c) = {} THEN <<0, 0, 0>>
             ELSE <<First(c)[1], First(c)[2] + 1, First(c)[1] + 1>>

\* Whether the item at c has registers of the kind at c.
Reads(c) == IF c[2] = 0 THEN cfg.id_list[c[1] + 1].read_count > 0
                        ELSE cfg.id_list[c[1] + 1].read_input_count > 0

\* The equation.
Body(c, f) == IF c[2] > 1 THEN f[<<c[1] + 1, 0>>]
              ELSE IF c[1] >= Len(cfg.id_list) THEN <<0, 0, 0>>
              ELSE IF Reads(c) THEN <<c[1], c[2] + 1, c[1] + 1>>
              ELSE f[<<c[1], c[2] + 1>>]

LEMMA CursorIs ==
    ASSUME NEW c \in Cursors
    PROVE  /\ c = <<c[1], c[2]>> /\ c[1] \in Nat /\ c[2] \in 0 .. 2 /\ At(c) \in Nat
           /\ c[2] > 1 => /\ <<c[1] + 1, 0>> \in Cursors
                          /\ At(<<c[1] + 1, 0>>) = At(c)
           /\ ~(c[2] > 1) => /\ <<c[1], c[2] + 1>> \in Cursors /\ c[2] \in {0, 1}
                             /\ At(<<c[1], c[2] + 1>>) = At(c) + 1 /\ Pos(c) = At(c)
  BY DEF Cursors, At, Pos

\* The first of the blocks there are.
LEMMA FirstIs ==
    ASSUME TypeOK, NEW c \in Cursors, After(c) # {}
    PROVE  First(c) \in After(c) /\ \A r \in After(c) : Pos(First(c)) <= Pos(r)
  <1> DEFINE T == {Pos(b) : b \in After(c)}
  <1>1. \A b \in After(c) : Pos(b) \in Nat
    BY WantedFacts DEF After, TypeOK
  <1>2. T \subseteq Nat /\ T # {}
    BY <1>1
  <1>3. PICK m \in T : \A k \in T : m <= k
    <2> HIDE DEF T
    <2> QED
      BY <1>2, NatLeast
  <1>4. \E b \in After(c) : \A r \in After(c) : Pos(b) <= Pos(r)
    BY <1>3
  <1> QED
    BY <1>4 DEF First

\* The blocks from c on are those from the next cursor on, and c if it is one.
LEMMA AfterIs ==
    ASSUME TypeOK, NEW c \in Cursors
    PROVE  /\ c[2] > 1 => After(<<c[1] + 1, 0>>) = After(c)
           /\ ~(c[2] > 1) /\ c[1] >= Len(cfg.id_list) => After(c) = {}
           /\ ~(c[2] > 1) /\ ~(c[1] >= Len(cfg.id_list)) =>
                IF Reads(c) THEN c \in After(c) /\ \A r \in After(c) : Pos(c) <= Pos(r)
                            ELSE After(<<c[1], c[2] + 1>>) = After(c)
  <1>1. /\ c = <<c[1], c[2]>> /\ c[1] \in Nat /\ c[2] \in 0 .. 2 /\ At(c) \in Nat
        /\ c[2] > 1 => At(<<c[1] + 1, 0>>) = At(c)
        /\ ~(c[2] > 1) => /\ c[2] \in {0, 1} /\ Pos(c) = At(c)
                          /\ At(<<c[1], c[2] + 1>>) = At(c) + 1
    BY CursorIs
  <1>2. Len(cfg.id_list) \in Nat
    BY ConfigFacts DEF TypeOK
  <1>3. \A b \in Wanted(cfg.id_list) : /\ b = <<b[1], b[2]>> /\ b[1] \in Nat /\ b[2] \in {0, 1}
                                       /\ b[1] < Len(cfg.id_list) /\ Pos(b) = 2 * b[1] + b[2]
                                       /\ Reads(b)
    BY <1>2 DEF Wanted, Pos, Reads
  <1>4. CASE c[2] > 1
    BY <1>1, <1>4 DEF After
  <1>5. CASE ~(c[2] > 1) /\ c[1] >= Len(cfg.id_list)
    <2>1. \A b \in Wanted(cfg.id_list) : ~(Pos(b) >= At(c))
      BY <1>1, <1>2, <1>3, <1>5 DEF At
    <2> QED
      BY <1>5, <2>1 DEF After
  <1>6. CASE ~(c[2] > 1) /\ ~(c[1] >= Len(cfg.id_list)) /\ Reads(c)
    <2>1. c \in Wanted(cfg.id_list)
      <3>1. c[1] \in 0 .. Len(cfg.id_list) - 1 /\ c[2] \in {0, 1}
        BY <1>1, <1>2, <1>6
      <3>2. <<c[1], c[2]>> \in (0 .. Len(cfg.id_list) - 1) \X {0, 1}
        BY <3>1
      <3> QED
        BY <1>1, <1>6, <3>2 DEF Wanted, Reads
    <2> QED
      BY <1>1, <1>6, <2>1 DEF After
  <1>7. CASE ~(c[2] > 1) /\ ~(c[1] >= Len(cfg.id_list)) /\ ~Reads(c)
    <2>1. \A b \in Wanted(cfg.id_list) : Pos(b) # At(c)
      <3> SUFFICES ASSUME NEW b \in Wanted(cfg.id_list), Pos(b) = At(c) PROVE FALSE
        OBVIOUS
      <3>1. b[1] = c[1] /\ b[2] = c[2]
        BY <1>1, <1>3, <1>7 DEF At
      <3>2. b = c
        BY <1>1, <1>3, <3>1
      <3> QED
        BY <1>3, <1>7, <3>2
    <2>2. \A b \in Wanted(cfg.id_list) : Pos(b) >= At(c) <=> Pos(b) >= At(c) + 1
      <3> TAKE b \in Wanted(cfg.id_list)
      <3>1. Pos(b) \in Nat /\ Pos(b) # At(c)
        BY <1>3, <2>1
      <3> QED
        BY <1>1, <3>1
    <2>3. After(<<c[1], c[2] + 1>>) = After(c)
      BY <1>1, <1>7, <2>2 DEF After
    <2> QED
      BY <1>7, <2>3
  <1> QED
    BY <1>4, <1>5, <1>6, <1>7

LEMMA AnswerSolves ==
    ASSUME TypeOK
    PROVE  [c \in Cursors |-> Answer(c)]
              = [c \in Cursors |-> Body(c, [d \in Cursors |-> Answer(d)])]
  <1> DEFINE f == [c \in Cursors |-> Answer(c)]
  <1> SUFFICES ASSUME NEW c \in Cursors PROVE Answer(c) = Body(c, f)
    OBVIOUS
  <1>1. /\ c[2] > 1 => <<c[1] + 1, 0>> \in Cursors
        /\ ~(c[2] > 1) => <<c[1], c[2] + 1>> \in Cursors
    BY CursorIs
  <1>2. \A d \in Cursors : f[d] = Answer(d)
    OBVIOUS
  <1> HIDE DEF f
  <1>3. \A d : After(d) = After(c) => Answer(d) = Answer(c)
    BY DEF Answer, First
  <1>4. CASE c[2] > 1
    BY <1>1, <1>2, <1>3, <1>4, AfterIs DEF Body
  <1>5. CASE ~(c[2] > 1) /\ c[1] >= Len(cfg.id_list)
    BY <1>5, AfterIs DEF Body, Answer
  <1>6. CASE ~(c[2] > 1) /\ ~(c[1] >= Len(cfg.id_list)) /\ ~Reads(c)
    <2>1. After(<<c[1], c[2] + 1>>) = After(c)
      BY <1>6, AfterIs
    <2>2. f[<<c[1], c[2] + 1>>] = Answer(c)
      BY <1>1, <1>2, <1>3, <1>6, <2>1
    <2> QED
      BY <1>6, <2>2 DEF Body
  <1>7. CASE ~(c[2] > 1) /\ ~(c[1] >= Len(cfg.id_list)) /\ Reads(c)
    <2>1. c \in After(c) /\ \A r \in After(c) : Pos(c) <= Pos(r)
      BY <1>7, AfterIs
    <2>2. First(c) \in After(c) /\ \A r \in After(c) : Pos(First(c)) <= Pos(r)
      BY <2>1, FirstIs
    <2>3. cfg \in Configs /\ c \in Wanted(cfg.id_list) /\ First(c) \in Wanted(cfg.id_list)
      BY <2>1, <2>2 DEF After, TypeOK
    <2>4. Pos(c) \in Nat /\ Pos(First(c)) \in Nat
      BY <2>3, WantedFacts
    <2>5. Pos(c) <= Pos(First(c)) /\ Pos(First(c)) <= Pos(c)
      BY <2>1, <2>2
    <2>6. Pos(First(c)) = Pos(c)
      BY <2>4, <2>5
    <2>7. First(c) = c
      BY <2>3, <2>6, PosInjective
    <2>8. Body(c, f) = <<c[1], c[2] + 1, c[1] + 1>>
      BY <1>7 DEF Body
    <2>9. Answer(c) = <<c[1], c[2] + 1, c[1] + 1>>
      BY <2>1, <2>7 DEF Answer
    <2> QED
      BY <2>8, <2>9
  <1> QED
    BY <1>4, <1>5, <1>6, <1>7

LEMMA NextItemSolves ==
    ASSUME TypeOK
    PROVE  \A c \in Cursors : NextItem[c] = Body(c, NextItem)
  <1>1. \E f : f = [c \in Cursors |-> Body(c, f)]
    BY AnswerSolves
  <1>2. NextItem = CHOOSE f : f = [c \in Cursors |-> Body(c, f)]
    BY DEF NextItem, Body, Reads, Cursors
  <1>3. NextItem = [c \in Cursors |-> Body(c, NextItem)]
    BY <1>1, <1>2
  <1> QED
    BY <1>3

\* The places from a cursor to the end of the list, and how one step of the
\* cursor leaves one fewer: the measure of the search below.
LEMMA PlacesLeft ==
    ASSUME NEW n \in Nat, NEW i \in Nat, NEW s \in 0 .. 2, i <= n
    PROVE  /\ 3 * n + 2 - (3 * i + s) \in Nat
           /\ 3 * i + s + (3 * n + 2 - (3 * i + s)) = 3 * n + 2
  OBVIOUS

LEMMA NextPlace ==
    ASSUME NEW n \in Nat, NEW m \in Nat,
           NEW i \in Nat, NEW s \in 0 .. 2, NEW j \in Nat, NEW t \in 0 .. 2,
           j <= n, 3 * i + s + m = 3 * n + 2,
           \/ s > 1 /\ j = i + 1 /\ t = 0
           \/ ~(s > 1) /\ j = i /\ t = s + 1
    PROVE  m - 1 \in Nat /\ 3 * j + t + (m - 1) = 3 * n + 2
  OBVIOUS

LEMMA NextItemAnswers ==
    ASSUME TypeOK
    PROVE  \A c \in Cursors : NextItem[c] = Answer(c)
  <1> DEFINE f == [c \in Cursors |-> Answer(c)]
             Bad == {c \in Cursors : NextItem[c] # Answer(c)}
             left(c) == 3 * c[1] + c[2]
  <1>1. \A c \in Cursors : NextItem[c] = Body(c, NextItem)
    BY NextItemSolves
  <1>2. \A c \in Cursors : Answer(c) = Body(c, f)
    BY AnswerSolves
  <1>3. Len(cfg.id_list) \in Nat
    BY ConfigFacts DEF TypeOK
  <1>4. \A c \in Cursors : f[c] = Answer(c)
    OBVIOUS
  <1> HIDE DEF f
  <1>5. ASSUME NEW c \in Cursors, c \in Bad
        PROVE  c[1] < Len(cfg.id_list) \/ c[2] > 1
    <2>1. ~(c[2] > 1) /\ c[1] >= Len(cfg.id_list) => Body(c, NextItem) = Body(c, f)
      BY DEF Body
    <2>2. c[1] \in Nat
      BY CursorIs
    <2> QED
      BY <1>1, <1>2, <1>3, <1>5, <2>1, <2>2
  <1>6. ASSUME NEW c \in Cursors, c \in Bad
        PROVE  \/ c[2] > 1 /\ <<c[1] + 1, 0>> \in Bad
               \/ ~(c[2] > 1) /\ <<c[1], c[2] + 1>> \in Bad
    <2>1. Body(c, NextItem) # Body(c, f)
      BY <1>1, <1>2, <1>6
    <2>2. /\ c[2] > 1 => <<c[1] + 1, 0>> \in Cursors
          /\ ~(c[2] > 1) => <<c[1], c[2] + 1>> \in Cursors
      BY CursorIs
    <2>3. \/ c[2] > 1 /\ NextItem[<<c[1] + 1, 0>>] # f[<<c[1] + 1, 0>>]
          \/ ~(c[2] > 1) /\ NextItem[<<c[1], c[2] + 1>>] # f[<<c[1], c[2] + 1>>]
      BY <2>1 DEF Body
    <2> QED
      BY <1>4, <2>2, <2>3
  <1>7. \A c \in Bad : /\ c \in Cursors /\ c[1] \in Nat /\ c[2] \in 0 .. 2
                       /\ c[1] <= Len(cfg.id_list) - 1 \/ c[2] > 1
                       /\ \E d \in Bad : \/ c[2] > 1 /\ d[1] = c[1] + 1 /\ d[2] = 0
                                         \/ ~(c[2] > 1) /\ d[1] = c[1] /\ d[2] = c[2] + 1
    <2> TAKE c \in Bad
    <2>1. c \in Cursors
      OBVIOUS
    <2>2. c[1] \in Nat /\ c[2] \in 0 .. 2
      BY <2>1, CursorIs
    <2>3. c[1] < Len(cfg.id_list) \/ c[2] > 1
      BY <1>5, <2>1
    <2>4. \/ c[2] > 1 /\ <<c[1] + 1, 0>> \in Bad
          \/ ~(c[2] > 1) /\ <<c[1], c[2] + 1>> \in Bad
      BY <1>6, <2>1
    <2> HIDE DEF Bad
    <2>5. \E d \in Bad : \/ c[2] > 1 /\ d[1] = c[1] + 1 /\ d[2] = 0
                         \/ ~(c[2] > 1) /\ d[1] = c[1] /\ d[2] = c[2] + 1
      BY <2>4
    <2> QED
      BY <1>3, <2>1, <2>2, <2>3, <2>5
  <1> SUFFICES ASSUME Bad # {} PROVE FALSE
    OBVIOUS
  <1> DEFINE n == Len(cfg.id_list)
             T == {k \in Nat : \E c \in Bad : left(c) + k = 3 * n + 2}
  <1> HIDE DEF Bad
  \* With the cursor past the list there is one more step at most.
  <1>8. \A c \in Bad : c[1] <= n
    <2> TAKE c \in Bad
    <2>1. PICK d \in Bad : \/ c[2] > 1 /\ d[1] = c[1] + 1 /\ d[2] = 0
                           \/ ~(c[2] > 1) /\ d[1] = c[1] /\ d[2] = c[2] + 1
      BY <1>7
    <2>2. c[1] <= n - 1 \/ c[2] > 1
      BY <1>7
    <2>3. d[1] <= n - 1 \/ d[2] > 1
      BY <1>7
    <2>4. c[1] \in Nat /\ c[2] \in 0 .. 2 /\ d[1] \in Nat /\ d[2] \in 0 .. 2
      BY <1>7
    <2> QED
      BY <1>3, <2>1, <2>2, <2>3, <2>4
  <1>9. T \subseteq Nat /\ T # {}
    <2>1. PICK c \in Bad : TRUE
      OBVIOUS
    <2>2. c[1] \in Nat /\ c[2] \in 0 .. 2 /\ c[1] <= n
      BY <1>7, <1>8
    <2> DEFINE k == 3 * n + 2 - (3 * c[1] + c[2])
    <2>3. k \in Nat /\ left(c) + k = 3 * n + 2
      BY <1>3, <2>2, PlacesLeft
    <2> HIDE DEF k
    <2> QED
      BY <2>3
  <1>10. PICK m \in T : \A k \in T : m <= k
    <2> HIDE DEF T
    <2> QED
      BY <1>9, NatLeast
  <1>11. PICK c \in Bad : left(c) + m = 3 * n + 2
    BY <1>10
  <1>12. PICK d \in Bad : \/ c[2] > 1 /\ d[1] = c[1] + 1 /\ d[2] = 0
                          \/ ~(c[2] > 1) /\ d[1] = c[1] /\ d[2] = c[2] + 1
    BY <1>7
  <1>13. c[1] \in Nat /\ c[2] \in 0 .. 2 /\ d[1] \in Nat /\ d[2] \in 0 .. 2 /\ d[1] <= n
    BY <1>7, <1>8
  <1>14. m \in Nat
    BY <1>10
  <1>15. m - 1 \in Nat /\ left(d) + (m - 1) = 3 * n + 2
    <2> DEFINE i == c[1]  s == c[2]  j == d[1]  t == d[2]
    <2>1. 3 * i + s + m = 3 * n + 2
      BY <1>11
    <2>2. \/ s > 1 /\ j = i + 1 /\ t = 0
          \/ ~(s > 1) /\ j = i /\ t = s + 1
      BY <1>12
    <2>3. /\ i \in Nat /\ s \in 0 .. 2 /\ j \in Nat /\ t \in 0 .. 2
          /\ j <= n /\ n \in Nat
      BY <1>3, <1>13
    <2>4. m - 1 \in Nat /\ 3 * j + t + (m - 1) = 3 * n + 2
      <3> HIDE DEF i, s, j, t, n
      <3> QED
        BY <1>14, <2>1, <2>2, <2>3, NextPlace
    <2>5. left(d) = 3 * j + t
      OBVIOUS
    <2> QED
      <3> HIDE DEF left, j, t, n
      <3> QED
        BY <2>4, <2>5
  <1>16. m - 1 \in T
    BY <1>15
  <1> QED
    BY <1>10, <1>14, <1>16

\* At whatever cursor the daemon is, get_next_id_info returns the first block
\* from there on that has registers to read and moves the cursor past it, or
\* returns null and sets it back to the start of the list.
THEOREM GetNextRight == Spec => []GetNextAgrees
  <1>1. TypeOK => GetNextAgrees
    <2> SUFFICES ASSUME TypeOK PROVE GetNextAgrees
      OBVIOUS
    <2> DEFINE c == <<id_list_index, id_list_sub_index>>
               r == GetNext(id_list_index, id_list_sub_index)
    <2>1. c \in Cursors /\ c[1] = id_list_index /\ c[2] = id_list_sub_index
      BY DEF TypeOK, Cursors
    <2>2. r = Answer(c)
      BY <2>1, NextItemAnswers DEF GetNext
    <2>3. After(c) = Remaining
      BY DEF After, Remaining, At, Cursor
    <2>4. CASE Remaining = {}
      <3>1. r = <<0, 0, 0>>
        BY <2>2, <2>3, <2>4 DEF Answer
      <3> HIDE DEF r
      <3> QED
        BY <2>4, <3>1 DEF GetNextAgrees, r
    <2>5. CASE Remaining # {}
      <3> DEFINE b == First(c)
      <3>1. b \in Remaining /\ \A q \in Remaining : Pos(b) <= Pos(q)
        BY <2>1, <2>3, <2>5, FirstIs
      <3>2. b = <<b[1], b[2]>> /\ b[1] \in Nat /\ b[2] \in {0, 1}
        BY <3>1, WantedFacts DEF Remaining, TypeOK
      <3>3. r = <<b[1], b[2] + 1, b[1] + 1>>
        BY <2>2, <2>3, <2>5 DEF Answer
      <3> HIDE DEF b, r
      <3>4. r[1] = b[1] /\ r[2] - 1 = b[2] /\ r[3] = r[1] + 1 /\ r[3] # 0
        BY <3>2, <3>3
      <3>5. IsNext(<<r[1], r[2] - 1>>)
        BY <3>1, <3>2, <3>4 DEF IsNext
      <3> QED
        BY <3>4, <3>5 DEF GetNextAgrees, r
    <2> QED
      BY <2>4, <2>5
  <1> QED
    BY <1>1, TypeCorrect, PTL
=============================================================================
