------------------------------ MODULE MCRtlTcp ------------------------------
(***************************************************************************)
(* Small instances of RtlTcp for TLC.                                      *)
(***************************************************************************)
EXTENDS RtlTcp
=============================================================================
