---------------------------- MODULE MCDlqProcessor ----------------------------
(* A small instance of DlqProcessor: one API process, two retries. *)
EXTENDS DlqProcessor

CONSTANT p1
=============================================================================
