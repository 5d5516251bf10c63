------------------------------- MODULE Charger -------------------------------
(***************************************************************************)
(* The charger controller, src/tty_reader/tty_reader_heyu.zig.  A battery  *)
(* voltage below low_voltage_on switches the charger on through the        *)
(* program heyu for millis_on; SIGHUP reloads the configuration and        *)
(* reconnects to the publisher; any error ends the program, which switches *)
(* the charger off on its way out.                                         *)
(*                                                                         *)
(* The charger itself, an X10 unit that keeps the last command it got, is  *)
(* external.  How a message is put together from the stream is module      *)
(* FrameReader.                                                            *)
(***************************************************************************)
EXTENDS Integers, FiniteSets

CONSTANTS
    Configs,    \* [charger_HU, millis_on] of the files that may be installed
    Outcomes,   \* what running heyu may come to, a subset of AllOutcomes
    MaxTime,    \* bound: the clock
    MaxHups     \* bound: SIGHUPs in the hup pipe

\* heyu does it; exits with an error, which is only logged; cannot be run at
\* all, which is an error of charger_on and charger_off; is killed, and
\* logging its exit code then panics or, without safety checks, logs noise.
AllOutcomes == {"done", "refused", "cannotRun", "killed"}

ASSUME ChargerAssumption ==
    /\ \A c \in Configs : c.millis_on \in Nat
    /\ Outcomes \subseteq AllOutcomes /\ "done" \in Outcomes
    /\ MaxTime \in Nat /\ MaxHups \in Nat

VARIABLES
    pc,                 \* connect, top, poll, check, final or exit
    cfg,                \* charger_HU and millis_on of g_heyu_info
    state, charger_off_time,   \* of info_t
    now, term, hups,
    on,                 \* external: the units that are switched on
    \* History: what has gone wrong so far.
    heyuFailed,         \* heyu has not done what it was asked
    renamed,            \* charger_HU was changed while Charging
    notConnected        \* connect failed

loopVars == <<cfg, state, charger_off_time>>
world    == <<term, hups>>
mishaps  == <<heyuFailed, renamed, notConnected>>
vars     == <<pc, loopVars, now, world, on, mishaps>>

Init ==
    /\ pc = "connect" /\ cfg \in Configs
    /\ state = "LookingForLow" /\ charger_off_time = 0
    /\ now = 0 /\ term = FALSE /\ hups = 0
    /\ on = {}
    /\ heyuFailed = FALSE /\ renamed = FALSE /\ notConnected = FALSE

-----------------------------------------------------------------------------
\* Child.run of charger_exe, for the unit the configuration names now.  An
\* error leaves main_loop for main's end, where "then" would have gone on.

Heyu(units, then, onError) ==
    \E outcome \in Outcomes :
        /\ on' = (IF outcome = "done" THEN units ELSE on)
        /\ heyuFailed' = (heyuFailed \/ outcome # "done")
        /\ pc' \in (CASE outcome = "cannotRun" -> {onError}
                      [] outcome = "killed"    -> {then, "exit"}
                      [] OTHER                 -> {then})

charger_on(then)          == Heyu(on \cup {cfg.charger_HU}, then, "final")
charger_off(then, onError) == Heyu(on \ {cfg.charger_HU}, then, onError)

-----------------------------------------------------------------------------
\* main: connect to the publisher's socket.

ConnectOk ==
    /\ pc = "connect" /\ pc' = "top"
    /\ UNCHANGED <<loopVars, now, world, on, mishaps>>

\* "try connect": main returns there and then.
ConnectFail ==
    /\ pc = "connect" /\ pc' = "exit" /\ notConnected' = TRUE
    /\ UNCHANGED <<loopVars, now, world, on, heyuFailed, renamed>>

-----------------------------------------------------------------------------
\* main_loop.  poll times out at charger_off_time while Charging.

Poll ==
    /\ pc = "top" /\ pc' = "poll"
    /\ UNCHANGED <<loopVars, now, world, on, mishaps>>

PollTerm ==
    /\ pc = "poll" /\ term /\ pc' = "final"
    /\ UNCHANGED <<loopVars, now, world, on, mishaps>>

HupTaken == pc = "poll" /\ ~term /\ hups > 0 /\ hups' = hups - 1

BugReload(c) == cfg' = c /\ state' = "LookingForLow"
Reload(c) == cfg' = c /\ UNCHANGED state

PollHup ==
    /\ HupTaken
    /\ pc' = "connect"
    /\ \E c \in Configs :
          /\ Reload(c)
          /\ renamed' = (\/ renamed
                         \/ state = "Charging" /\ c.charger_HU # cfg.charger_HU)
    /\ UNCHANGED <<charger_off_time, now, term, on, heyuFailed, notConnected>>

Quiet == pc = "poll" /\ ~term /\ hups = 0

\* process_msg for a voltage below low_voltage_on.
BugMsgLow ==
    /\ Quiet
    /\ charger_off_time' = now + cfg.millis_on
    /\ state' = "Charging" /\ charger_on("check")
    /\ UNCHANGED <<cfg, now, world, renamed, notConnected>>
MsgLow ==
    /\ Quiet /\ state = "LookingForLow"
    /\ state' = "Charging"
    /\ charger_off_time' = now + cfg.millis_on
    /\ charger_on("check")
    /\ UNCHANGED <<cfg, now, world, renamed, notConnected>>

\* Part of a message, another message, a voltage that is high enough or one
\* that comes while Charging.
MsgOther ==
    /\ Quiet /\ pc' = "check"
    /\ UNCHANGED <<loopVars, now, world, on, mishaps>>

\* The publisher is gone, or a header shows no sensible size.
RecvFail ==
    /\ Quiet /\ pc' = "final"
    /\ UNCHANGED <<loopVars, now, world, on, mishaps>>

PollTimeout ==
    /\ Quiet /\ state = "Charging" /\ now >= charger_off_time
    /\ pc' = "check"
    /\ UNCHANGED <<loopVars, now, world, on, mishaps>>

\* The end of the loop's body.
CheckOff ==
    /\ pc = "check" /\ state = "Charging" /\ now >= charger_off_time
    /\ state' = "LookingForLow"
    /\ charger_off("top", "final")
    /\ UNCHANGED <<cfg, charger_off_time, now, world, renamed, notConnected>>

CheckNothing ==
    /\ pc = "check" /\ ~(state = "Charging" /\ now >= charger_off_time)
    /\ pc' = "top"
    /\ UNCHANGED <<loopVars, now, world, on, mishaps>>

-----------------------------------------------------------------------------
\* The end of main: off if Charging.

BugFinal ==
    /\ pc = "final" /\ pc' = "exit"
    /\ UNCHANGED <<loopVars, now, world, on, mishaps>>
Final ==
    /\ pc = "final"
    /\ IF state = "Charging"
       THEN charger_off("exit", "exit") /\ UNCHANGED <<renamed, notConnected>>
       ELSE pc' = "exit" /\ UNCHANGED <<on, mishaps>>
    /\ UNCHANGED <<loopVars, now, world>>

-----------------------------------------------------------------------------
Tick ==
    /\ now < MaxTime /\ now' = now + 1
    /\ UNCHANGED <<pc, loopVars, world, on, mishaps>>

SigTerm ==
    /\ ~term /\ term' = TRUE
    /\ UNCHANGED <<pc, loopVars, now, hups, on, mishaps>>

SigHup ==
    /\ hups < MaxHups /\ hups' = hups + 1
    /\ UNCHANGED <<pc, loopVars, now, term, on, mishaps>>

Stopped == pc = "exit" /\ UNCHANGED vars

-----------------------------------------------------------------------------
Connect == ConnectOk \/ ConnectFail
Wake    == PollTerm \/ PollHup \/ PollTimeout
Body    == Poll \/ CheckOff \/ CheckNothing \/ Final
Input   == MsgLow \/ MsgOther \/ RecvFail
World   == Tick \/ SigTerm \/ SigHup

Next == Connect \/ Wake \/ Body \/ Input \/ World \/ Stopped

Spec == Init /\ [][Next]_vars

-----------------------------------------------------------------------------
TypeOK ==
    /\ pc \in {"connect", "top", "poll", "check", "final", "exit"}
    /\ cfg \in Configs /\ state \in {"LookingForLow", "Charging"}
    /\ charger_off_time \in Nat /\ now \in Nat
    /\ term \in BOOLEAN /\ hups \in 0 .. MaxHups
    /\ on \subseteq {c.charger_HU : c \in Configs}
    /\ heyuFailed \in BOOLEAN /\ renamed \in BOOLEAN
    /\ notConnected \in BOOLEAN

\* The program never loses track of the charger: until one of three things
\* has happened, a unit is on exactly while the program is Charging, and it
\* is the unit that will be switched off.  The three are heyu failing (its
\* exit code is not looked at, and state is changed before it runs), the
\* unit being renamed by a reload while it charges, and, at the very end,
\* connect failing.
ChargerFollowsState ==
    ~heyuFailed /\ ~renamed /\ pc # "exit" =>
        on = (IF state = "Charging" THEN {cfg.charger_HU} ELSE {})

\* Nothing but those three leaves the charger on when the program ends:
\* neither SIGTERM, nor the publisher going away, nor a reload.
OffAtExit ==
    pc = "exit" /\ on # {} => heyuFailed \/ renamed \/ notConnected
=============================================================================
