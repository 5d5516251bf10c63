---------------------------- MODULE MCFrameReader ----------------------------
(* FrameReader on small instances: one, two and one register, as            *)
(* process_tty_id_info sizes them (12 + 2 * count).                         *)
EXTENDS FrameReader, TLC

MCSizes == <<14, 16, 14>>
=============================================================================
