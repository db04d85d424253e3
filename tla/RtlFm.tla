-------------------------------- MODULE RtlFm -------------------------------
(***************************************************************************)
(* The threads of rtl_fm (rtl-sdr/src/rtl_fm.c): the dongle's, whose       *)
(* callback copies a block of samples to the demodulator; the              *)
(* demodulator's, which copies its result to the output's; the output's;   *)
(* and the controller's, which retunes when the demodulator asks for it.   *)
(* They wake one another with safe_cond_signal() and sleep in              *)
(* safe_cond_wait(), which waits for no predicate.  main starts them,      *)
(* sleeps until do_exit is set, and wakes and joins them one by one.       *)
(*                                                                         *)
(* Each hand-over has one slot, overwritten under its lock: lowpassed and  *)
(* o_result.  Of the blocks in them the module keeps whether the next      *)
(* thread has used them.                                                   *)
(***************************************************************************)
EXTENDS Integers

CONSTANTS
    Conseq,         \* demod.conseq_squelch
    NumMeas,        \* cmd.numMeas: blocks to measure per line of the command file
    LongMute        \* blocks that dongle.mute drops until the dongle is set up

ASSUME ConstantsAssumption ==
    /\ Conseq \in Nat
    /\ NumMeas \in Nat \ {0}
    /\ LongMute \in Nat \ {0}

VARIABLES
    mode,           \* "single": one frequency, "scan": several, "commands": -C
    mpc,            \* main: where it is
    spc,            \* sighandler()
    pc,             \* the threads: where they are
    do_exit,
    async_status,
    lowpassed,      \* the demodulator's slot: a "new" block, or an "old" one or none
    o_result,       \* the output's slot, likewise
    mute,           \* blocks the callback still drops (-C)
    squelch_hits,
    numSummed,
    missed          \* main signalled a thread between its test of do_exit and its wait

slotVars == <<lowpassed, o_result>>
hopVars == <<mute, squelch_hits, numSummed>>
vars == <<mode, mpc, spc, pc, do_exit, async_status, slotVars, hopVars, missed>>

Threads == {"dongle", "demod", "output", "controller"}

Init ==
    /\ mode \in {"single", "scan", "commands"}
    /\ mpc = "start" /\ spc = "idle"
    /\ pc = [t \in Threads |-> "none"]
    /\ do_exit = FALSE
    /\ async_status = "INACTIVE"
    /\ lowpassed = "old" /\ o_result = "old"
    /\ mute = 0 /\ squelch_hits = Conseq + 1
    /\ numSummed = 0
    /\ missed = FALSE

Goto(t, place) == pc' = [pc EXCEPT ![t] = place]

(***************************************************************************)
(* safe_cond_wait() and safe_cond_signal(): a signal wakes the thread if   *)
(* it waits, and is lost otherwise.  What a thread finds when it is awake  *)
(* may be new or used: nothing tells it why it woke up.                    *)
(***************************************************************************)
\* Mutant of AfterTest: the loop does not look at do_exit.
AfterTestForever == "towait"

AfterTest == IF do_exit THEN "done" ELSE "towait"

Sleepers == Threads \ {"dongle"}

Sleep(t) ==
    /\ \/ pc[t] = "test" /\ Goto(t, AfterTest)
       \/ pc[t] = "towait" /\ Goto(t, "wait")
    /\ UNCHANGED <<mode, mpc, spc, do_exit, async_status, slotVars, hopVars, missed>>

SpuriousWakeup(t) ==
    /\ pc[t] = "wait"
    /\ Goto(t, "awake")
    /\ UNCHANGED <<mode, mpc, spc, do_exit, async_status, slotVars, hopVars, missed>>

\* The sender goes on at place.
Signal(t, sender, place) ==
    pc' = [u \in Threads |-> IF u = t /\ pc[t] = "wait" THEN "awake"
                             ELSE IF u = sender THEN place ELSE pc[u]]

(***************************************************************************)
(* sighandler().                                                           *)
(***************************************************************************)
Cancel == async_status' = IF async_status = "RUNNING" THEN "CANCELING" ELSE async_status

SignalCaught ==
    /\ spc = "idle"
    /\ mpc # "done"
    /\ spc' = "cancel"
    /\ do_exit' = TRUE
    /\ UNCHANGED <<mode, mpc, pc, async_status, slotVars, hopVars, missed>>

HandlerCancel ==
    /\ spc = "cancel"
    /\ spc' = "idle"
    /\ Cancel
    /\ UNCHANGED <<mode, mpc, pc, do_exit, slotVars, hopVars, missed>>

(***************************************************************************)
(* main.                                                                   *)
(***************************************************************************)
MainStart ==            \* the controller first, the others a second later
    /\ \/ mpc = "start" /\ mpc' = "sleep" /\ Goto("controller", "setup")
       \/ /\ mpc = "sleep" /\ mpc' = "run"
          /\ pc' = [t \in Threads |-> CASE t = "controller" -> pc[t]
                                        [] t = "dongle" -> "begin"
                                        [] OTHER -> "test"]
    /\ UNCHANGED <<mode, spc, do_exit, async_status, slotVars, hopVars, missed>>

MainCancel ==
    /\ mpc = "run"
    /\ do_exit
    /\ mpc' = "joinDongle"
    /\ Cancel
    /\ UNCHANGED <<mode, spc, pc, do_exit, slotVars, hopVars, missed>>

Joins(place) == CASE place = "joinDongle" -> "dongle"
                  [] place = "joinDemod" -> "demod"
                  [] place = "joinOutput" -> "output"
                  [] place = "joinController" -> "controller"

NextJoin == [joinDongle |-> "joinDemod", joinDemod |-> "joinOutput", joinOutput |-> "joinController"]

WakeNext(place) ==
    /\ Signal(Joins(place), "main", "run")
    /\ missed' = (missed \/ pc[Joins(place)] = "towait")

MainJoin ==             \* and signals the next thread to join
    /\ mpc \in DOMAIN NextJoin
    /\ pc[Joins(mpc)] = "done"
    /\ mpc' = NextJoin[mpc]
    /\ WakeNext(mpc')
    /\ UNCHANGED <<mode, spc, do_exit, async_status, slotVars, hopVars>>

MainDone ==
    /\ mpc = "joinController"
    /\ pc["controller"] = "done"
    /\ mpc' = "done"
    /\ UNCHANGED <<mode, spc, pc, do_exit, async_status, slotVars, hopVars, missed>>

MainSleeps ==
    /\ mpc \in {"run", "done"}
    /\ UNCHANGED vars

(***************************************************************************)
(* The dongle's thread: rtlsdr_read_async() and the callback in it.        *)
(***************************************************************************)
DongleBegin ==
    /\ pc["dongle"] = "begin"
    /\ Goto("dongle", "stream")
    /\ async_status' = "RUNNING"
    /\ UNCHANGED <<mode, mpc, spc, do_exit, slotVars, hopVars, missed>>

StillMuted == IF mute > 0 THEN mute - 1 ELSE 0

\* A block is ignored after do_exit, and dropped while it is to be muted if it is
\* to be measured.
Block ==
    /\ pc["dongle"] = "stream"
    /\ ~do_exit
    /\ mute' = StillMuted
    /\ IF mute > 0
         THEN UNCHANGED <<pc, lowpassed>>
         ELSE lowpassed' = "new" /\ Goto("dongle", "signal")
    /\ UNCHANGED <<mode, mpc, spc, do_exit, async_status, o_result,
                   squelch_hits, numSummed, missed>>

WakeDemod == Signal("demod", "dongle", "stream")

DongleSignal ==
    /\ pc["dongle"] = "signal"
    /\ WakeDemod
    /\ UNCHANGED <<mode, mpc, spc, do_exit, async_status, slotVars, hopVars, missed>>

DongleReturns ==        \* cancelled, or the device is lost
    /\ pc["dongle"] = "stream"
    /\ Goto("dongle", "done")
    /\ async_status' = "INACTIVE"
    /\ UNCHANGED <<mode, mpc, spc, do_exit, slotVars, hopVars, missed>>

(***************************************************************************)
(* The demodulator's thread.                                               *)
(***************************************************************************)
FullDemod ==            \* under its lock; what it demodulates is spoiled by that
    /\ pc["demod"] = "awake"
    /\ Goto("demod", "decide")
    /\ lowpassed' = "old"
    /\ squelch_hits' \in IF mode # "commands" THEN {0, squelch_hits + 1} ELSE {0}
    /\ numSummed' = IF mode = "commands" /\ numSummed < NumMeas THEN numSummed + 1 ELSE numSummed
    /\ UNCHANGED <<mode, mpc, spc, do_exit, async_status, o_result, mute, missed>>

Silent == squelch_hits > Conseq
Measured == mode = "commands" /\ numSummed >= NumMeas

DemodAsks ==            \* asks the controller to hop, at every further silent block, too
    /\ pc["demod"] = "decide"
    /\ \/ Silent /\ squelch_hits' = Conseq + 1
       \/ ~Silent /\ ~do_exit /\ Measured /\ UNCHANGED squelch_hits
    /\ Goto("demod", "hop")
    /\ UNCHANGED <<mode, mpc, spc, do_exit, async_status, slotVars, mute,
                   numSummed, missed>>

\* Mutant of WakeHop: the controller is not signalled.
WakeHopNever == Goto("demod", "test")

WakeHop == Signal("controller", "demod", "test")

DemodHop ==
    /\ pc["demod"] = "hop"
    /\ WakeHop
    /\ UNCHANGED <<mode, mpc, spc, do_exit, async_status, slotVars, hopVars, missed>>

DemodLeaves ==
    /\ pc["demod"] = "decide"
    /\ ~Silent
    /\ do_exit
    /\ Goto("demod", "done")
    /\ UNCHANGED <<mode, mpc, spc, do_exit, async_status, slotVars, hopVars, missed>>

DemodCopies ==
    /\ pc["demod"] = "decide"
    /\ ~Silent /\ ~do_exit /\ ~Measured
    /\ o_result' = "new"
    /\ Goto("demod", "signal")
    /\ UNCHANGED <<mode, mpc, spc, do_exit, async_status, lowpassed, hopVars, missed>>

\* Mutant of WakeOutput: the result is left in the slot, and nobody is told.
WakeOutputNever == Goto("demod", "test")

WakeOutput == Signal("output", "demod", "test")

DemodSignal ==
    /\ pc["demod"] = "signal"
    /\ WakeOutput
    /\ UNCHANGED <<mode, mpc, spc, do_exit, async_status, slotVars, hopVars, missed>>

(***************************************************************************)
(* The output's thread.                                                    *)
(***************************************************************************)
OutputWrite ==
    /\ pc["output"] = "awake"
    /\ Goto("output", "test")
    /\ o_result' = "old"
    /\ UNCHANGED <<mode, mpc, spc, do_exit, async_status, lowpassed, hopVars, missed>>

(***************************************************************************)
(* The controller's thread.                                                *)
(***************************************************************************)
\* Of a command file, the loop's first pass does not wait.
ControllerSetup ==
    /\ pc["controller"] \in {"setup", "first"}
    /\ IF pc["controller"] = "setup"
         THEN /\ Goto("controller", IF mode = "commands" THEN "first" ELSE "test")
              /\ mute' = IF mode = "commands" THEN LongMute ELSE mute
         ELSE /\ Goto("controller", IF do_exit THEN "done" ELSE "awake")
              /\ UNCHANGED mute
    /\ UNCHANGED <<mode, mpc, spc, do_exit, async_status, slotVars, squelch_hits,
                   numSummed, missed>>

ControllerStays ==      \* one frequency: nothing to do
    /\ pc["controller"] = "awake"
    /\ mode = "single"
    /\ Goto("controller", "test")
    /\ UNCHANGED <<mode, mpc, spc, do_exit, async_status, slotVars, hopVars, missed>>

ControllerScans ==      \* silences the beginning of the next block, too
    /\ pc["controller"] = "awake"
    /\ mode = "scan"
    /\ Goto("controller", "test")
    /\ UNCHANGED <<mode, mpc, spc, do_exit, async_status, slotVars, mute, squelch_hits,
                   numSummed, missed>>

\* The next line of the command file: mutes, retunes, and starts measuring anew.
ControllerNextLine ==
    /\ pc["controller"] = "awake"
    /\ mode = "commands"
    /\ mute' = LongMute
    /\ numSummed' = 0
    /\ Goto("controller", "retune")
    /\ UNCHANGED <<mode, mpc, spc, do_exit, async_status, slotVars, squelch_hits,
                   missed>>

ControllerRetunes ==
    /\ pc["controller"] = "retune"
    /\ numSummed' = 0
    /\ mute' = 1
    /\ Goto("controller", "test")
    /\ UNCHANGED <<mode, mpc, spc, do_exit, async_status, slotVars, squelch_hits, missed>>

Main == MainStart \/ MainCancel \/ MainJoin \/ MainDone
Dongle == DongleBegin \/ Block \/ DongleSignal
Demod == FullDemod \/ DemodAsks \/ DemodHop \/ DemodLeaves \/ DemodCopies \/ DemodSignal
Controller ==
    \/ ControllerSetup \/ ControllerStays \/ ControllerScans
    \/ ControllerNextLine \/ ControllerRetunes

Next ==
    \/ Main \/ MainSleeps
    \/ Dongle \/ DongleReturns
    \/ Demod
    \/ OutputWrite
    \/ Controller
    \/ \E t \in Sleepers : Sleep(t) \/ SpuriousWakeup(t)
    \/ SignalCaught \/ HandlerCancel

Spec == Init /\ [][Next]_vars

(***************************************************************************)
(* Fairness: every thread is scheduled and every write returns; the device *)
(* delivers blocks for as long as it is read, and a cancelled read         *)
(* returns.  Nothing obliges a signal to come or a device to be lost.      *)
(***************************************************************************)
Fairness ==
    /\ WF_vars(Main)
    /\ WF_vars(HandlerCancel)
    /\ WF_vars(Dongle)
    /\ SF_vars(async_status = "CANCELING" /\ DongleReturns)
    /\ WF_vars(Demod)
    /\ WF_vars(OutputWrite)
    /\ WF_vars(Controller)
    /\ \A t \in Sleepers : WF_vars(Sleep(t))

FairSpec == Spec /\ Fairness

-----------------------------------------------------------------------------
(***************************************************************************)
(* Properties.                                                             *)
(***************************************************************************)
\* Every variable has its type.
TypeOK ==
    /\ mode \in {"single", "scan", "commands"}
    /\ mpc \in {"start", "sleep", "run", "joinDongle", "joinDemod", "joinOutput",
                "joinController", "done"}
    /\ spc \in {"idle", "cancel"}
    /\ pc["dongle"] \in {"none", "begin", "stream", "signal", "done"}
    /\ pc["demod"] \in {"none", "test", "towait", "wait", "awake", "decide", "hop", "signal", "done"}
    /\ pc["output"] \in {"none", "test", "towait", "wait", "awake", "done"}
    /\ pc["controller"] \in {"none", "setup", "first", "test", "towait", "wait", "awake", "retune",
                              "done"}
    /\ do_exit \in BOOLEAN
    /\ async_status \in {"INACTIVE", "RUNNING", "CANCELING"}
    /\ {lowpassed, o_result} \subseteq {"new", "old"}
    /\ mute \in 0 .. LongMute
    /\ squelch_hits \in 0 .. Conseq + 2
    /\ numSummed \in 0 .. NumMeas
    /\ missed \in BOOLEAN

\* What is put in a slot is used, or what is put there after it, although a signal that
\* finds its thread at work is lost and nobody looks into a slot before it waits: for as
\* long as the stream goes on, what fills the slot signals again.  The demodulator goes on
\* unless the blocks are muted, the output unless there is silence or nothing to write.
SlotsServed ==
    /\ lowpassed = "new" ~> (lowpassed = "old" \/ mute > 0 \/ do_exit \/ pc["dongle"] = "done")
    /\ o_result = "new" ~> (\/ o_result = "old" \/ mute > 0 \/ Silent \/ Measured
                            \/ do_exit \/ pc["dongle"] = "done")

\* The program hangs because it was told to exit before rtlsdr_read_async() began:
\* rtlsdr_cancel_async() was refused, and the stream runs on.
Hung == mpc = "joinDongle" /\ async_status = "RUNNING"

\* A caught signal ends the program, unless the cancel came too early or a thread
\* missed main's signal.
ExitCompletes == do_exit ~> (mpc = "done" \/ Hung \/ missed)

\* Silence, or a line that has been measured, makes the controller hop, although
\* signals that find it busy are lost: the demodulator asks again at every block.
HopWanted == pc["demod"] # "none" /\ ((mode = "scan" /\ Silent) \/ Measured)

HopAnswered ==
    HopWanted ~> (\/ pc["controller"] \in {"awake", "retune"}
                  \/ ~HopWanted \/ do_exit \/ pc["dongle"] = "done")
=============================================================================
