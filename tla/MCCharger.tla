------------------------------ MODULE MCCharger ------------------------------
(***************************************************************************)
(* Charger on small instances.  Time never stops: when the clock is at its *)
(* bound, Slide moves charger_off_time one back instead, which Charger     *)
(* cannot tell from a tick, since it only compares the two.                *)
(***************************************************************************)
EXTENDS Charger, TLC

MCConfigs == {[charger_HU |-> "D1", millis_on |-> 2],
              [charger_HU |-> "D1", millis_on |-> 4],
              [charger_HU |-> "D2", millis_on |-> 2]}

Slide ==
    /\ now = MaxTime /\ charger_off_time > 0
    /\ charger_off_time' = charger_off_time - 1
    /\ UNCHANGED <<pc, cfg, state, now, world, on, mishaps>>

LiveSpec == /\ Init /\ [][Next \/ Slide]_vars
            /\ WF_vars(Connect) /\ WF_vars(Wake) /\ WF_vars(Body)
            /\ WF_vars(Tick \/ Slide)

\* Charging ends, whatever messages keep coming (a low voltage every time
\* among them) and whatever is reloaded meanwhile, once the reloads stop: a
\* reload leaves the loop before it looks at charger_off_time.
ChargingEnds ==
    <>[](hups = 0)
        => (state = "Charging" ~> (state # "Charging" \/ pc = "exit"))
=============================================================================
