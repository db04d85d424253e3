--------------------------- MODULE ResponseChannel ---------------------------
(***************************************************************************)
(* rtl_tcp's response channel over the way to the tuner: the thread of     *)
(* ControlThread makes one register read of I2cRepeater (librtlsdr.c's     *)
(* rtlsdr_get_tuner_i2c_register()) each time it looks or fetches, and     *)
(* waits for the recursive mutex meanwhile; command_worker sets up the     *)
(* tuner while main serves, and has been joined when main closes.          *)
(***************************************************************************)
EXTENDS I2cRepeater

CONSTANTS
    FrameLen, MaxClients, MaxToggles,   \* see ControlThread
    Control                             \* the thread of Threads that ControlThread is

ASSUME ControlAssumption ==
    /\ Control \in Threads \ Setters
    /\ FrameLen \in Nat \ {0}
    /\ MaxClients \in Nat /\ MaxToggles \in Nat

VARIABLES
    mpc, do_exit, wanted, tpc, report_i2c, haveControlSocket, controlSocket, open, left,
    peer, frame, last, toggles,         \* see ControlThread
    haveRegisters                       \* the read that Look or Fetch makes has returned

Ctl == INSTANCE ControlThread

i2cVars == vars
ctlVars == <<mpc, do_exit, wanted, tpc, report_i2c, haveControlSocket, controlSocket, open,
             left, peer, frame, last, toggles>>
allVars == <<i2cVars, ctlVars, haveRegisters>>

InitAll ==
    /\ Init
    /\ Ctl!Init
    /\ haveRegisters = FALSE

Reading == tpc \in {"look", "fetch"} /\ ~haveRegisters

\* rtlsdr_get_tuner_i2c_register(), called by the control thread.
ReadRegisters ==
    /\ Reading
    /\ Begin(Control) \/ Step(Control)
    /\ haveRegisters' = (pc'[Control] = "out")
    /\ UNCHANGED ctlVars

UseRegisters ==
    /\ haveRegisters
    /\ Ctl!Look \/ Ctl!Fetch
    /\ haveRegisters' = FALSE
    /\ UNCHANGED i2cVars

ControlStep ==          \* what the thread does without the registers
    /\ Ctl!Poll \/ Ctl!Accept \/ Ctl!Check \/ Ctl!Send \/ Ctl!SendError \/ Ctl!Nap \/ Ctl!Close
    /\ UNCHANGED <<i2cVars, haveRegisters>>

SetUpTuner(t) ==        \* a command of the sample client, or main's own set-up
    /\ mpc = "serve"
    /\ Begin(t) \/ Step(t) \/ SampleRateReset(t)
    /\ UNCHANGED <<ctlVars, haveRegisters>>

CloseDevice ==          \* main has joined whoever sets up the tuner
    /\ \A t \in Setters : pc[t] = "out"
    /\ Ctl!MainClose
    /\ UNCHANGED <<i2cVars, haveRegisters>>

MainOrClient ==
    /\ Ctl!MainFlag \/ Ctl!MainJoin \/ Ctl!Toggle \/ Ctl!ClientLeaves \/ Ctl!Terminating
    /\ UNCHANGED <<i2cVars, haveRegisters>>

NextAll ==
    \/ ReadRegisters \/ UseRegisters \/ ControlStep
    \/ \E t \in Setters : SetUpTuner(t)
    \/ CloseDevice \/ MainOrClient

SpecAll == InitAll /\ [][NextAll]_allVars

\* Every thread is scheduled once it is inside of an operation, a gone client fails a
\* send() in the end; nobody has to begin a tuner operation.
FairSpecAll ==
    /\ SpecAll
    /\ WF_allVars(ReadRegisters)
    /\ WF_allVars(UseRegisters)
    /\ WF_allVars(ControlStep /\ tpc # "send")
    /\ WF_allVars(ControlStep /\ do_exit)
    /\ SF_allVars(ControlStep /\ Ctl!SendError)
    /\ SF_allVars(ReadRegisters /\ Lock(Control))
    /\ \A t \in Setters :
         /\ WF_allVars(SetUpTuner(t) /\ Step(t))
         /\ SF_allVars(SetUpTuner(t) /\ level[t] = 1 /\ Close(t))
    /\ WF_allVars(MainOrClient /\ mpc \in {"close", "join"} /\ peer' = peer)

-----------------------------------------------------------------------------
(***************************************************************************)
(* Properties; the last three are ControlThread's, of the composition.     *)
(***************************************************************************)
\* Every reading of the registers comes to its end, although others may take the mutex
\* again and again: a thread that begins to look or to fetch goes on to its client.
ReadReturns == tpc \in {"look", "fetch"} ~> tpc \notin {"look", "fetch"}

\* No socket of a control client is lost.
NoSocketLost == Ctl!NoSocketLost

\* A control client receives reports whole and in order.
FramesWhole == Ctl!FramesWhole

\* Told to end while it waits for a client or sends to one, the thread ends.
EndsUnlessIdle == Ctl!EndsUnlessIdle
=============================================================================
