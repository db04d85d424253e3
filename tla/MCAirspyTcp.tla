---------------------------- MODULE MCAirspyTcp -----------------------------
(***************************************************************************)
(* A small instance of AirspyTcp for TLC.                                  *)
(***************************************************************************)
EXTENDS AirspyTcp
=============================================================================
