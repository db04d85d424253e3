---------------------------- MODULE MCAsyncRead ----------------------------
(***************************************************************************)
(* Small instances of AsyncRead for TLC.                                   *)
(***************************************************************************)
EXTENDS AsyncRead

CONSTANTS c1, c2    \* two canceling threads

\* The first call asks for all the transfers there may be, later ones for one.
OneLater == [r \in 0 .. MaxReads |-> IF r <= 1 THEN NumXfers ELSE 1]

\* "handle any events that still need to be handled before exiting after we just
\* cancelled all transfers": the transfers that rtlsdr_read_async() is about to free
\* have all been cancelled, so none is in flight.
AllCancelledWhenFreed == rpc = "free" => \A t \in Xfers : flight[t] = "idle"
=============================================================================
