---------------------------- MODULE MCFramePipe ----------------------------
(* Small instances of FramePipe for TLC. *)
EXTENDS FramePipe
=============================================================================
