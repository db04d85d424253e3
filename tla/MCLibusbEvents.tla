--------------------------- MODULE MCLibusbEvents ----------------------------
(***************************************************************************)
(* A small instance of LibusbEvents for TLC.                               *)
(***************************************************************************)
EXTENDS LibusbEvents

CONSTANTS a, b, closer, none
=============================================================================
