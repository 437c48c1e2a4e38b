---------------------------- MODULE MCSendPipeline ----------------------------
(* Small instances of SendPipeline: one recipient, one job slot, two undo requests. *)
EXTENDS SendPipeline

CONSTANTS r1, r2, u1, u2, q1, q2
=============================================================================
