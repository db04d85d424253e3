---------------------------- MODULE ControlThread ----------------------------
(***************************************************************************)
(* rtl_tcp's response channel (controlThread.c) and the end of rtl_tcp's   *)
(* main(): a thread accepts one client at a time on a second port and      *)
(* sends it the tuner's registers again and again; without a client it     *)
(* reads them once a second.  A command of the sample client turns the     *)
(* reports on and off.  At the end main closes the device, then sets       *)
(* do_exit_thrd_ctrl and joins the thread.                                 *)
(*                                                                         *)
(* Sockets are numbered in the order they are accepted.                    *)
(***************************************************************************)
EXTENDS Integers, FiniteSets

CONSTANTS
    FrameLen,       \* send() calls that a report may need
    MaxClients,     \* bound: clients accepted
    MaxToggles      \* bound: commands that turn the reports on or off

VARIABLES
    mpc,            \* main: "serve", "close", "flag", "join" or "done"
    do_exit,        \* do_exit_thrd_ctrl
    wanted,         \* ctrldata.report_i2c, which command_worker sets
    tpc,            \* the thread
    report_i2c,     \* the thread's copy
    haveControlSocket,
    controlSocket,
    open,           \* the accepted sockets that have not been closed
    left,           \* pieces of the report still to be sent
    peer,           \* the control client: "none", "open" or "gone"
    frame,          \* the parity of the report begun last
    last,           \* last <<socket, parity of its report, piece>> that was sent
    toggles

thread == <<report_i2c, haveControlSocket, controlSocket, open, left, frame, last>>
vars == <<mpc, do_exit, wanted, tpc, thread, peer, toggles>>

Init ==
    /\ mpc = "serve" /\ do_exit = FALSE
    /\ wanted = TRUE /\ report_i2c = TRUE
    /\ tpc = "poll"
    /\ haveControlSocket = FALSE /\ controlSocket = 0 /\ open = {}
    /\ left = 0 /\ peer = "none" /\ frame = 0 /\ last = <<0, 0, FrameLen>>
    /\ toggles = 0

(***************************************************************************)
(* main() and command_worker.                                              *)
(***************************************************************************)
MainClose ==
    /\ mpc = "serve"
    /\ mpc' = "close"                       \* rtlsdr_close() frees the device
    /\ UNCHANGED <<do_exit, wanted, tpc, thread, peer, toggles>>

MainFlag ==
    /\ mpc = "close"
    /\ mpc' = "join"
    /\ do_exit' = TRUE
    /\ UNCHANGED <<wanted, tpc, thread, peer, toggles>>

MainJoin ==
    /\ mpc = "join"
    /\ tpc = "ended"
    /\ mpc' = "done"
    /\ UNCHANGED <<do_exit, wanted, tpc, thread, peer, toggles>>

Toggle ==
    /\ mpc = "serve"
    /\ toggles < MaxToggles
    /\ toggles' = toggles + 1
    /\ wanted' = ~wanted
    /\ UNCHANGED <<mpc, do_exit, tpc, thread, peer>>

(***************************************************************************)
(* The thread, while it has no client.                                     *)
(***************************************************************************)
Poll ==                 \* select() has timed out, or a client has come
    /\ tpc = "poll"
    /\ IF do_exit THEN tpc' = "close" ELSE tpc' = "look"
    /\ UNCHANGED <<mpc, do_exit, wanted, thread, peer, toggles>>

Accept ==
    /\ tpc = "poll"
    /\ ~do_exit
    /\ peer = "none"
    /\ controlSocket < MaxClients
    /\ haveControlSocket' = TRUE
    /\ controlSocket' = controlSocket + 1
    /\ open' = open \cup {controlSocket + 1}
    /\ peer' = "open"
    /\ tpc' = "check"                       \* after five seconds of sleep
    /\ UNCHANGED <<mpc, do_exit, wanted, report_i2c, left, frame, last, toggles>>

Look ==                 \* reads the registers for the gain it prints
    /\ tpc = "look"
    /\ tpc' = "poll"
    /\ UNCHANGED <<mpc, do_exit, wanted, thread, peer, toggles>>

(***************************************************************************)
(* The thread, with a client.                                              *)
(***************************************************************************)
Check ==
    /\ tpc = "check"
    /\ report_i2c' = wanted
    /\ tpc' = IF wanted THEN "fetch" ELSE "nap"
    /\ UNCHANGED <<mpc, do_exit, wanted, haveControlSocket, controlSocket, open, left, frame,
                   last, peer, toggles>>

Fetch ==                \* the registers may not be readable
    /\ tpc = "fetch"
    /\ \/ tpc' = "nap" /\ UNCHANGED <<left, frame>>
       \/ /\ tpc' = "send"
          /\ left' = FrameLen
          /\ frame' = 1 - frame
    /\ UNCHANGED <<mpc, do_exit, wanted, report_i2c, haveControlSocket, controlSocket, open, last,
                   peer, toggles>>

\* Mutant of Remains: index and bytesleft stay as they are after a partial send().
RemainsAll(n) == IF n = left THEN 0 ELSE left

Remains(n) == left - n

Send ==                 \* select(), send() and the test that follows them
    /\ tpc = "send"
    /\ \E n \in 0 .. left :                 \* 0: select() timed out
         /\ left' = Remains(n)
         /\ last' = IF n = 0 THEN last ELSE <<controlSocket, frame, FrameLen - left + n>>
         /\ tpc' = IF do_exit THEN "close" ELSE IF left' = 0 THEN "nap" ELSE "send"
    /\ UNCHANGED <<mpc, do_exit, wanted, report_i2c, haveControlSocket, controlSocket, open, frame,
                   peer, toggles>>

SendError ==
    /\ tpc = "send"
    /\ peer = "gone"
    /\ tpc' = "close"
    /\ UNCHANGED <<mpc, do_exit, wanted, thread, peer, toggles>>

Nap ==
    /\ tpc = "nap"
    /\ tpc' = "check"
    /\ UNCHANGED <<mpc, do_exit, wanted, thread, peer, toggles>>

\* Mutant of CloseSocket: the socket stays open.
CloseNothing == UNCHANGED open

CloseSocket == open' = IF haveControlSocket THEN open \ {controlSocket} ELSE open

\* Mutant of AfterClose: the thread listens again whatever do_exit says.
ListenAgain == tpc' = "poll"

AfterClose == tpc' = IF do_exit THEN "ended" ELSE "poll"

Close ==                \* haveControlSocket stays set
    /\ tpc = "close"
    /\ CloseSocket
    /\ AfterClose
    /\ peer' = "none"
    /\ UNCHANGED <<mpc, do_exit, wanted, report_i2c, haveControlSocket, controlSocket, left, frame,
                   last, toggles>>

ClientLeaves ==
    /\ peer = "open"
    /\ peer' = "gone"
    /\ UNCHANGED <<mpc, do_exit, wanted, tpc, thread, toggles>>

Thread ==
    \/ Poll \/ Accept \/ Look \/ Check \/ Fetch \/ Send \/ SendError \/ Nap \/ Close

Terminating ==
    /\ mpc = "done"
    /\ UNCHANGED vars

Next ==
    \/ MainClose \/ MainFlag \/ MainJoin \/ Toggle
    \/ Thread
    \/ ClientLeaves
    \/ Terminating

Spec == Init /\ [][Next]_vars

\* Both threads are scheduled and a gone client fails a send() in the end.
Fairness ==
    /\ WF_vars(MainFlag \/ MainJoin)
    /\ WF_vars(Poll \/ Look \/ Check \/ Fetch \/ Nap \/ Close \/ (do_exit /\ Send))
    /\ SF_vars(SendError)

FairSpec == Spec /\ Fairness

-----------------------------------------------------------------------------
(***************************************************************************)
(* Properties.                                                             *)
(***************************************************************************)

\* Every variable of main and of the thread has its type.
TypeOK ==
    /\ mpc \in {"serve", "close", "join", "done"}
    /\ {do_exit, wanted, report_i2c, haveControlSocket} \subseteq BOOLEAN
    /\ tpc \in {"poll", "look", "check", "fetch", "send", "nap", "close", "ended"}
    /\ controlSocket \in 0 .. MaxClients
    /\ open \subseteq 1 .. MaxClients
    /\ left \in 0 .. FrameLen
    /\ peer \in {"none", "open", "gone"}
    /\ frame \in {0, 1}
    /\ last \in (0 .. MaxClients) \X {0, 1} \X (1 .. FrameLen)
    /\ toggles \in 0 .. MaxToggles

\* No accepted socket is lost: at most the current one is open, none when the thread
\* listens again or has ended.
NoSocketLost ==
    /\ open \subseteq {controlSocket}
    /\ tpc \in {"poll", "look", "ended"} => open = {}

\* A client receives reports whole and in order: each piece begins where the one before
\* it ended, a new report begins only when the last one is complete or had another
\* client, and no client gets the rest of another's.
FramesWhole ==
    [][ last' # last =>
          LET begin == FrameLen - left
          IN IF last'[1] = last[1] /\ last'[2] = last[2]
               THEN begin = last[3] /\ last'[3] > last[3]
               ELSE begin = 0 /\ (last[3] = FrameLen \/ last'[1] # last[1]) ]_vars

\* Told to end while it waits for a client or sends to one, the thread ends and main
\* is through.
EndsUnlessIdle == do_exit /\ tpc \in {"poll", "look", "send", "close"} ~> (mpc = "done" \/ tpc = "nap")
=============================================================================
