--------------------------- MODULE Charger_proofs ---------------------------
(***************************************************************************)
(* What Charger promises for every set of configuration files, every       *)
(* behaviour of heyu and every bound.                                      *)
(***************************************************************************)
EXTENDS Charger, TLAPS

Units == {c.charger_HU : c \in Configs}

\* Running heyu has one of two outcomes for the unit, and when it does not do
\* what it was asked, that is remembered.
LEMMA HeyuFacts ==
    ASSUME NEW units, NEW then, NEW onError, Heyu(units, then, onError)
    PROVE  /\ on' = units \/ on' = on
           /\ on' # units => heyuFailed'
           /\ heyuFailed => heyuFailed'
           /\ pc' \in {then, onError, "exit"}
           /\ pc' = "exit" /\ then # "exit" /\ onError # "exit" => heyuFailed'
           /\ heyuFailed \in BOOLEAN => heyuFailed' \in BOOLEAN
  <1>1. PICK outcome \in Outcomes :
          /\ on' = (IF outcome = "done" THEN units ELSE on)
          /\ heyuFailed' = (heyuFailed \/ outcome # "done")
          /\ pc' \in (CASE outcome = "cannotRun" -> {onError}
                        [] outcome = "killed"    -> {then, "exit"}
                        [] OTHER                 -> {then})
    BY DEF Heyu
  <1>2. pc' \in {then, onError, "exit"}
    BY <1>1
  <1>3. pc' = "exit" /\ then # "exit" /\ onError # "exit" => outcome = "killed"
    BY <1>1
  <1> QED
    BY <1>1, <1>2, <1>3

-----------------------------------------------------------------------------
(* Type correctness.                                                       *)

LEMMA TypeInit == Init => TypeOK
  <1> SUFFICES ASSUME Init PROVE TypeOK
    OBVIOUS
  <1>1. charger_off_time \in Nat /\ now \in Nat /\ hups \in 0 .. MaxHups
    BY ChargerAssumption DEF Init
  <1> QED
    BY <1>1 DEF Init, TypeOK

LEMMA TypeStep == TypeOK /\ [Next]_vars => TypeOK'
  <1> SUFFICES ASSUME TypeOK, [Next]_vars PROVE TypeOK'
    OBVIOUS
  <1> USE DEF TypeOK
  <1>1. MaxTime \in Nat /\ MaxHups \in Nat /\ cfg.charger_HU \in Units
        /\ cfg.millis_on \in Nat
    BY ChargerAssumption DEF Units
  <1>2. Units = {c.charger_HU : c \in Configs}
    BY DEF Units
  <1>3. CASE Connect
    BY <1>3 DEF Connect, ConnectOk, ConnectFail, loopVars, world, mishaps
  <1>4. CASE PollTerm \/ PollTimeout \/ Poll \/ CheckNothing \/ MsgOther \/ RecvFail
    BY <1>4 DEF PollTerm, PollTimeout, Poll, CheckNothing, MsgOther, RecvFail,
                loopVars, world, mishaps
  <1>5. CASE PollHup
    BY <1>5, <1>1 DEF PollHup, HupTaken, Reload
  <1>6. CASE MsgLow
    <2>1. /\ on' = on \cup {cfg.charger_HU} \/ on' = on
          /\ heyuFailed' \in BOOLEAN /\ pc' \in {"check", "final", "exit"}
      BY <1>6, HeyuFacts DEF MsgLow, charger_on
    <2> QED
      BY <1>6, <1>1, <1>2, <2>1 DEF MsgLow, world
  <1>7. CASE CheckOff
    <2>1. /\ on' = on \ {cfg.charger_HU} \/ on' = on
          /\ heyuFailed' \in BOOLEAN /\ pc' \in {"top", "final", "exit"}
      BY <1>7, HeyuFacts DEF CheckOff, charger_off
    <2> QED
      BY <1>7, <2>1 DEF CheckOff, world
  <1>8. CASE Final
    <2>1. CASE state = "Charging"
      <3>1. /\ on' = on \ {cfg.charger_HU} \/ on' = on
            /\ heyuFailed' \in BOOLEAN /\ pc' = "exit"
        BY <1>8, <2>1, HeyuFacts DEF Final, charger_off
      <3> QED
        BY <1>8, <2>1, <3>1 DEF Final, loopVars, world
    <2>2. CASE state # "Charging"
      BY <1>8, <2>2 DEF Final, loopVars, world, mishaps
    <2> QED
      BY <2>1, <2>2
  <1>9. CASE World
    <2>1. now' \in Nat /\ hups' \in 0 .. MaxHups
      BY <1>9, <1>1 DEF World, Tick, SigTerm, SigHup, world
    <2> QED
      BY <1>9, <2>1 DEF World, Tick, SigTerm, SigHup, loopVars, world, mishaps
  <1>10. CASE UNCHANGED vars
    BY <1>10 DEF vars, loopVars, world, mishaps
  <1> QED
    BY <1>3, <1>4, <1>5, <1>6, <1>7, <1>8, <1>9, <1>10
       DEF Next, Wake, Body, Input, Stopped

\* The state of the controller is well typed; no unit that is in none of the
\* configurations is ever switched on.
THEOREM ChargerTypeCorrect == Spec => []TypeOK
  BY TypeInit, TypeStep, PTL DEF Spec

-----------------------------------------------------------------------------
(* The charger.  ChargerFollowsState and OffAtExit are inductive together: *)
(* the first is what the second follows from when the last step is Final.  *)

ChargerInv == ChargerFollowsState /\ OffAtExit

\* What the state says should be on.
Expected == IF state = "Charging" THEN {cfg.charger_HU} ELSE {}

LEMMA InvInit == Init => ChargerInv
  BY DEF Init, ChargerInv, ChargerFollowsState, OffAtExit

\* A step that runs heyu to bring about what the new state expects.
LEMMA HeyuStep ==
    ASSUME ChargerInv, pc # "exit",
           NEW then, NEW onError,
           Heyu(Expected', then, onError), renamed' = renamed,
           then = "exit" => Expected' = {},
           onError # "exit" \/ Expected' = {}
    PROVE  ChargerInv'
  <1>1. /\ on' = Expected' \/ heyuFailed'
        /\ heyuFailed => heyuFailed'
        /\ pc' = "exit" => heyuFailed' \/ then = "exit" \/ onError = "exit"
    BY HeyuFacts
  <1>2. ChargerFollowsState'
    BY <1>1 DEF ChargerFollowsState, Expected
  <1>3. OffAtExit'
    BY <1>1 DEF OffAtExit
  <1> QED
    BY <1>2, <1>3 DEF ChargerInv

LEMMA InvStep == TypeOK /\ ChargerInv /\ [Next]_vars => ChargerInv'
  <1> SUFFICES ASSUME TypeOK, ChargerInv, [Next]_vars PROVE ChargerInv'
    OBVIOUS
  <1>1. CASE Connect
    BY <1>1 DEF Connect, ConnectOk, ConnectFail, loopVars, world, mishaps,
                ChargerInv, ChargerFollowsState, OffAtExit
  <1>2. CASE \/ PollTerm \/ PollTimeout \/ Poll \/ CheckNothing \/ MsgOther
             \/ RecvFail
    BY <1>2 DEF PollTerm, PollTimeout, Quiet, Poll, CheckNothing, MsgOther,
                RecvFail, loopVars, world, mishaps,
                ChargerInv, ChargerFollowsState, OffAtExit
  <1>3. CASE PollHup
    BY <1>3 DEF PollHup, HupTaken, Reload,
                ChargerInv, ChargerFollowsState, OffAtExit
  <1>4. CASE MsgLow
    <2>1. /\ pc = "poll" /\ state = "LookingForLow" /\ renamed' = renamed
          /\ Heyu(on \cup {cfg.charger_HU}, "check", "final")
          /\ Expected' = {cfg.charger_HU}
      BY <1>4 DEF MsgLow, Quiet, charger_on, Expected
    <2>2. CASE on = {}
      BY <2>1, <2>2, HeyuStep
    <2>3. CASE on # {}
      <3>1. heyuFailed \/ renamed
        BY <2>1, <2>3 DEF ChargerInv, ChargerFollowsState
      <3>2. heyuFailed' \/ renamed'
        BY <2>1, <3>1, HeyuFacts
      <3> QED
        BY <3>2 DEF ChargerInv, ChargerFollowsState, OffAtExit
    <2> QED
      BY <2>2, <2>3
  <1>5. CASE CheckOff
    <2>1. /\ pc = "check" /\ state = "Charging" /\ renamed' = renamed
          /\ Heyu(on \ {cfg.charger_HU}, "top", "final")
          /\ Expected' = {}
      BY <1>5 DEF CheckOff, charger_off, Expected
    <2>2. CASE on = {cfg.charger_HU}
      BY <2>1, <2>2, HeyuStep
    <2>3. CASE on # {cfg.charger_HU}
      <3>1. heyuFailed \/ renamed
        BY <2>1, <2>3 DEF ChargerInv, ChargerFollowsState
      <3>2. heyuFailed' \/ renamed'
        BY <2>1, <3>1, HeyuFacts
      <3> QED
        BY <3>2 DEF ChargerInv, ChargerFollowsState, OffAtExit
    <2> QED
      BY <2>2, <2>3
  <1>6. CASE Final
    <2>1. CASE state = "Charging"
      <3>1. /\ pc = "final" /\ renamed' = renamed
            /\ Heyu(on \ {cfg.charger_HU}, "exit", "exit")
        BY <1>6, <2>1 DEF Final, charger_off
      <3>2. pc' = "exit" /\ (heyuFailed => heyuFailed')
            /\ (on' = on \ {cfg.charger_HU} \/ heyuFailed')
        BY <3>1, HeyuFacts
      <3>3. on = {cfg.charger_HU} \/ heyuFailed \/ renamed
        BY <2>1, <3>1 DEF ChargerInv, ChargerFollowsState
      <3> QED
        BY <3>1, <3>2, <3>3 DEF ChargerInv, ChargerFollowsState, OffAtExit
    <2>2. CASE state # "Charging"
      <3>1. pc = "final" /\ pc' = "exit" /\ UNCHANGED <<on, mishaps>>
        BY <1>6, <2>2 DEF Final
      <3> QED
        BY <2>2, <3>1 DEF mishaps, ChargerInv, ChargerFollowsState, OffAtExit
    <2> QED
      BY <2>1, <2>2
  <1>7. CASE World \/ UNCHANGED vars
    BY <1>7 DEF World, Tick, SigTerm, SigHup, vars, loopVars, world, mishaps,
                ChargerInv, ChargerFollowsState, OffAtExit
  <1> QED
    BY <1>1, <1>2, <1>3, <1>4, <1>5, <1>6, <1>7
       DEF Next, Wake, Body, Input, Stopped

LEMMA InvAlways == Spec => []ChargerInv
  BY TypeInit, TypeStep, InvInit, InvStep, PTL DEF Spec

\* A unit is on exactly while the program is charging, and it is the one that
\* will be switched off, until heyu fails or a reload renames the unit.
THEOREM FollowsState == Spec => []ChargerFollowsState
  <1>1. ChargerInv => ChargerFollowsState
    BY DEF ChargerInv
  <1> QED
    BY <1>1, InvAlways, PTL

\* However the program ends, nothing but heyu failing, a renamed unit or a
\* publisher that cannot be reached again leaves the charger on.
THEOREM NeverLeftOn == Spec => []OffAtExit
  <1>1. ChargerInv => OffAtExit
    BY DEF ChargerInv
  <1> QED
    BY <1>1, InvAlways, PTL
=============================================================================
