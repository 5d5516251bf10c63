------------------------------- MODULE MCCm11a -------------------------------
(* The CM11A interface with either of the programs that talk to one: test1   *)
(* over libcm11a (Cm11a), and the example x10_cm11 (X10Example).             *)
EXTENDS Cm11a, X10Example

VARIABLE program

all == <<program, pc, pcVars, x10Vars, devVars>>

EitherInit == program \in {"test1", "x10_cm11"} /\ Init /\ X10Init

Test1 == program = "test1" /\ UNCHANGED <<program, x10Vars>>
X10   == program = "x10_cm11" /\ UNCHANGED <<program, pc, pcVars>>

EitherNext == (Next /\ Test1) \/ (X10Next /\ X10)

EitherSpec ==
    /\ EitherInit /\ [][EitherNext]_all
    /\ WF_all(Read /\ Test1) /\ WF_all(Write /\ Test1) /\ WF_all(App /\ Test1)
    /\ WF_all(X10Step /\ X10)
    /\ WF_all(Device /\ UNCHANGED <<program, pc, pcVars, x10Vars>>)

\* The properties of each program, for the behaviors in which it runs.

\* test1: nothing garbled, and the function never before its address, reaches
\* the power line, as long as the line is Trustworthy (OnlyIntactInOrder).
Test1OnlyIntact == program = "test1" => OnlyIntactInOrder

\* test1: only noise and unasked bytes keep it from finishing.
Test1Ends == program = "test1" => DoneIfUndisturbed

\* x10_cm11: its conversation ends, unless a time request cuts in or a garbled
\* transmission is not answered as what it was (X10Finishes).
X10Ends == program = "x10_cm11" => X10Finishes
=============================================================================
