---------------------------- MODULE MCRtlDevice ----------------------------
(***************************************************************************)
(* A small instance of RtlDevice for TLC.                                  *)
(***************************************************************************)
EXTENDS RtlDevice

\* The IF of the R82xx is lower for a narrow filter (frequencies are in MHz).
MCNarrowIf(bw) == IF bw <= 2 THEN 1 ELSE 3
=============================================================================
