-------------------------- MODULE MCResponseChannel --------------------------
(***************************************************************************)
(* A small instance of ResponseChannel for TLC: one thread is the control  *)
(* thread, command_worker and another one set up the tuner.                *)
(***************************************************************************)
EXTENDS ResponseChannel

CONSTANTS command, control, other, none
=============================================================================
