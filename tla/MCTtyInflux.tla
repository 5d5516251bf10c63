----------------------------- MODULE MCTtyInflux -----------------------------
(* TtyInflux on small instances: two messages, with bodies of two and four   *)
(* bytes, in any pieces.  process_csck_in only compares lengths.             *)
EXTENDS TtyInflux, TLC

MCSizes == <<6, 8>>

\* InfluxDB answers a connection request and reads what it is sent.
LiveSpec == /\ TtySpec /\ TtyFairness
            /\ WF_all(Resolve /\ UNCHANGED reader)
            /\ WF_all(Take /\ UNCHANGED reader)

\* No request is kept for ever: it is sent, or thrown away with the
\* connection it was meant for, or the program ends.
QueueEmpties == queue # <<>> ~> queue = <<>>
=============================================================================
