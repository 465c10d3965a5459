----------------------------- MODULE MCSocketDir -----------------------------
(* A small instance of SocketDir for TLC. *)
EXTENDS SocketDir
==============================================================================
