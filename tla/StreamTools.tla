---------------------------- MODULE StreamTools ------------------------------
(***************************************************************************)
(* The command line tools that record or decode the stream by themselves:  *)
(* rtl_adsb (rtl-sdr/src/rtl_adsb.c) and rtl_sdr (rtl-sdr/src/rtl_sdr.c).  *)
(* Their main and their signal handler are alike.  main reads              *)
(* asynchronously; the signal handler cancels.                             *)
(*                                                                         *)
(* rtl_adsb: the callback copies each block into the one buffer and        *)
(* signals the demodulator's thread, which waits for no predicate and      *)
(* works in that buffer without a lock.  The handler, the demodulator and  *)
(* main each cancel the read; main then cancels the thread and joins it.   *)
(*                                                                         *)
(* rtl_sdr: the callback writes each block to a file, counts down the      *)
(* bytes that are to be read (none: without end), and cancels by itself.   *)
(* With -S main reads synchronously and does the same.  Bytes are numbered *)
(* in the order the device sends them.                                     *)
(***************************************************************************)
EXTENDS Integers, Sequences

CONSTANTS
    BlockLen,       \* bytes of a block
    Counts,         \* bytes that -n asks for; 0 for no end
    MaxSent         \* bound: bytes rtl_sdr receives

ASSUME ConstantsAssumption ==
    /\ BlockLen \in Nat \ {0} /\ MaxSent \in Nat
    /\ Counts \subseteq Nat

VARIABLES
    program,        \* "rtl_adsb", "rtl_sdr", or "rtl_sdr_S" for rtl_sdr -S
    mpc,            \* main: where it is
    dpc,            \* demod_thread_fn(): where it is
    hpc,            \* sighandler(): where it is
    killed,         \* pthread_cancel() was called and has not acted yet
    do_exit,
    fresh,          \* a block was copied in since the demodulator last began to look
    bytes_to_read, asked,   \* what is left of -n, and all of it
    received,       \* bytes rtl_sdr has been given
    n_read,         \* of them, those of the block at hand
    file, torn,     \* what it has written; and whether a write was short
    onEnd,          \* a block ended where -n did, and left a count of 0: no end
    cpc,            \* the callback's rtlsdr_cancel_async()
    async_status, dev_lost, reading, sawRunning

libVars == <<async_status, dev_lost, reading, sawRunning>>
sdrVars == <<bytes_to_read, asked, received, n_read, file, torn, onEnd, cpc>>
demodVars == <<dpc, killed, fresh>>
vars == <<program, mpc, hpc, do_exit, demodVars, sdrVars, libVars>>

Programs == {"rtl_adsb", "rtl_sdr", "rtl_sdr_S"}

Cancelers == {"main", "demod", "ctrlc"}

Lib == INSTANCE AsyncReadAPI WITH Handlers <- {}     \* only main handles events

Init ==
    /\ program \in Programs
    /\ bytes_to_read \in Counts /\ asked = bytes_to_read
    /\ received = 0 /\ n_read = 0 /\ file = <<>> /\ torn = FALSE /\ onEnd = FALSE /\ cpc = "none"
    /\ mpc = "setup" /\ dpc = "none" /\ hpc = "idle"
    /\ killed = FALSE
    /\ do_exit = FALSE
    /\ fresh = FALSE
    /\ Lib!Init

\* rtlsdr_cancel_async() of thread t, which stands at place "test", then at
\* "store" if it saw a read running, and goes on at place next.
CancelStep(t, pc, newpc, next) ==
    \/ pc = "test" /\ Lib!CancelTest(t)
       /\ newpc = (IF async_status = "RUNNING" THEN "store" ELSE next)
    \/ pc = "store" /\ Lib!CancelStore(t) /\ newpc = next

(***************************************************************************)
(* sighandler().                                                           *)
(***************************************************************************)
SignalCaught ==
    /\ hpc = "idle"
    /\ mpc # "closed"
    /\ do_exit' = TRUE
    /\ hpc' = "test"
    /\ UNCHANGED <<program, mpc, demodVars, sdrVars, libVars>>

HandlerCancel ==
    /\ CancelStep("ctrlc", hpc, hpc', "idle")
    /\ UNCHANGED <<program, mpc, do_exit, demodVars, sdrVars>>

(***************************************************************************)
(* main, and the callback in it.                                           *)
(***************************************************************************)
MainCreate ==           \* rtl_adsb's thread
    /\ mpc = "setup"
    /\ mpc' = IF program = "rtl_sdr_S" THEN "sync" ELSE "start"
    /\ dpc' = IF program = "rtl_adsb" THEN "loop" ELSE "none"
    /\ UNCHANGED <<program, hpc, do_exit, killed, fresh, sdrVars, libVars>>

MainRead ==
    /\ mpc = "start"
    /\ mpc' = "read"
    /\ Lib!BeginRead
    /\ UNCHANGED <<program, hpc, do_exit, demodVars, sdrVars>>

Callback ==             \* ignores the block once do_exit is set
    /\ mpc = "read" /\ program = "rtl_adsb"
    /\ ~do_exit
    /\ mpc' = "signal"
    /\ fresh' = TRUE
    /\ UNCHANGED <<program, hpc, do_exit, dpc, killed, sdrVars, libVars>>

\* Mutant of Signalled: the condition has no waiter that anybody wakes.
NotSignalled == dpc

Signalled == IF dpc = "wait" THEN "work" ELSE dpc

CallbackSignal ==
    /\ mpc = "signal"
    /\ mpc' = "read"
    /\ dpc' = Signalled
    /\ UNCHANGED <<program, hpc, do_exit, killed, fresh, sdrVars, libVars>>

(***************************************************************************)
(* rtl_sdr: its callback, or its loop with -S, and the file.               *)
(***************************************************************************)
Last(n) == bytes_to_read > 0 /\ bytes_to_read < n

GetBlock(n) ==          \* n is xfer->actual_length, or what the synchronous read has read
    /\ received + n <= MaxSent
    /\ received' = received + n
    /\ n_read' = n
    /\ mpc' = "write"
    /\ do_exit' = (do_exit \/ Last(n))

SdrCallback ==          \* with a whole block, or what a short transfer brought of one
    /\ mpc = "read" /\ program = "rtl_sdr" /\ cpc = "none"
    /\ ~do_exit
    /\ \E n \in 0 .. BlockLen :
         /\ GetBlock(n)
         /\ cpc' = IF Last(n) THEN "test" ELSE "none"
    /\ UNCHANGED <<program, hpc, demodVars, bytes_to_read, asked, file, torn, onEnd, libVars>>

SdrCancel ==
    /\ CancelStep("main", cpc, cpc', "none")
    /\ UNCHANGED <<program, mpc, hpc, do_exit, demodVars, bytes_to_read, asked, received, n_read, file,
                   torn, onEnd>>

SyncRead ==             \* all of a block, less, or an error
    /\ mpc = "sync"
    /\ \/ /\ ~do_exit
          /\ \E n \in 0 .. BlockLen : GetBlock(n)
       \/ mpc' = "close" /\ UNCHANGED <<do_exit, received, n_read>>
    /\ UNCHANGED <<program, hpc, demodVars, bytes_to_read, asked, file, torn, onEnd, cpc,
                   libVars>>

\* What fwrite() is given.
ToWrite == IF Last(n_read) THEN bytes_to_read ELSE n_read

\* Mutant of CountDown: the bytes are not counted.
CountNothing == bytes_to_read

CountDown == IF bytes_to_read > 0 THEN bytes_to_read - ToWrite ELSE 0

OnEnd == bytes_to_read > 0 /\ bytes_to_read = n_read

WriteSome(n) ==
    /\ mpc = "write" /\ cpc = "none"
    /\ file' = file \o [k \in 1 .. n |-> received - n_read + k]
    /\ torn' = (torn \/ n < ToWrite)
    /\ UNCHANGED <<program, hpc, do_exit, demodVars, asked, received, n_read, libVars>>

SdrWrite ==             \* a short write cancels; the callback counts it all the same
    /\ program = "rtl_sdr"
    /\ \E n \in 0 .. ToWrite :
         /\ WriteSome(n)
         /\ cpc' = IF n < ToWrite THEN "test" ELSE "none"
    /\ mpc' = "read"
    /\ bytes_to_read' = CountDown
    /\ onEnd' = (onEnd \/ OnEnd)

SyncWrite ==            \* a short write ends the loop, and so does a short read
    /\ program = "rtl_sdr_S"
    /\ \E n \in 0 .. ToWrite :
         /\ WriteSome(n)
         /\ IF n < ToWrite \/ ToWrite < BlockLen
              THEN mpc' = "close" /\ UNCHANGED <<bytes_to_read, onEnd>>
              ELSE mpc' = "sync" /\ bytes_to_read' = CountDown /\ onEnd' = (onEnd \/ OnEnd)
    /\ UNCHANGED cpc

LoseDevice ==
    /\ mpc = "read"
    /\ ~dev_lost
    /\ Lib!LoseDevice
    /\ UNCHANGED <<program, mpc, hpc, do_exit, demodVars, sdrVars>>

MainReturns ==          \* cancelled, or with a library error
    /\ mpc = "read" /\ cpc = "none"
    /\ Lib!EndRead \/ Lib!FailRead
    /\ mpc' = IF program = "rtl_adsb" THEN "test" ELSE "close"
    /\ UNCHANGED <<program, hpc, do_exit, demodVars, sdrVars>>

MainCancel ==
    /\ CancelStep("main", mpc, mpc', "kill")
    /\ UNCHANGED <<program, hpc, do_exit, demodVars, sdrVars>>

\* Mutant of Kill: the thread is joined without being cancelled.
KillNot == FALSE

Kill == dpc # "done"

MainKill ==
    /\ mpc = "kill"
    /\ mpc' = "join"
    /\ killed' = Kill
    /\ UNCHANGED <<program, hpc, do_exit, dpc, fresh, sdrVars, libVars>>

\* Mutant of DemodEnded: the thread is not joined.
DemodNotJoined == TRUE

DemodEnded == dpc = "done"

MainJoin ==
    /\ mpc = "join"
    /\ DemodEnded
    /\ mpc' = "close"
    /\ UNCHANGED <<program, hpc, do_exit, demodVars, sdrVars, libVars>>

MainClose ==            \* rtlsdr_close() polls the status unless the device is lost
    /\ mpc = "close"
    /\ dev_lost \/ async_status = "INACTIVE"
    /\ mpc' = "closed"
    /\ UNCHANGED <<program, hpc, do_exit, demodVars, sdrVars, libVars>>

MainRests ==
    /\ mpc \in {"close", "closed", "read"}
    /\ UNCHANGED vars

(***************************************************************************)
(* demod_thread_fn().                                                      *)
(***************************************************************************)
DemodLoop ==            \* tests do_exit, and goes to wait without looking again
    /\ \/ dpc = "loop" /\ dpc' = IF do_exit THEN "test" ELSE "towait"
       \/ dpc = "towait" /\ dpc' = "wait"
    /\ UNCHANGED <<program, mpc, hpc, do_exit, killed, fresh, sdrVars, libVars>>

SpuriousWakeup ==       \* a cancelled thread does not return from its wait
    /\ dpc = "wait"
    /\ ~killed
    /\ dpc' = "work"
    /\ UNCHANGED <<program, mpc, hpc, do_exit, killed, fresh, sdrVars, libVars>>

\* What is in the buffer now is looked at; what is copied in later, while magnitute() or
\* manchester() is in the middle of the buffer or past it, is not.
DemodLook ==
    /\ dpc = "work"
    /\ dpc' = "passes"
    /\ fresh' = FALSE
    /\ UNCHANGED <<program, mpc, hpc, do_exit, killed, sdrVars, libVars>>

DemodWork ==            \* magnitute(), manchester() and messages() end
    /\ dpc = "passes"
    /\ dpc' = "loop"
    /\ UNCHANGED <<program, mpc, hpc, do_exit, killed, fresh, sdrVars, libVars>>

DemodCancel ==
    /\ CancelStep("demod", dpc, dpc', "done")
    /\ UNCHANGED <<program, mpc, hpc, do_exit, killed, fresh, sdrVars>>

DemodKilled ==          \* at a cancellation point: the wait, or a write of display()
    /\ killed
    /\ dpc \in {"wait", "passes"}
    /\ dpc' = "done"
    /\ killed' = FALSE
    /\ UNCHANGED <<program, mpc, hpc, do_exit, fresh, sdrVars, libVars>>

Main ==
    \/ MainCreate \/ MainRead \/ MainCancel \/ MainKill \/ MainJoin \/ MainClose
    \/ SyncRead \/ SyncWrite \/ SdrWrite
Demod == DemodLoop \/ DemodLook \/ DemodWork \/ DemodCancel

Next ==
    \/ Main \/ MainRests
    \/ Callback \/ CallbackSignal \/ SdrCallback \/ SdrCancel \/ LoseDevice \/ MainReturns
    \/ Demod \/ SpuriousWakeup \/ DemodKilled
    \/ SignalCaught \/ HandlerCancel

Spec == Init /\ [][Next]_vars

(***************************************************************************)
(* Fairness: every thread is scheduled, the device delivers blocks while   *)
(* it is read, and a cancelled read returns.  Nothing obliges a signal to  *)
(* come, a device to be lost or a wait to return by itself.                *)
(***************************************************************************)
FairSpec ==
    /\ Spec
    /\ WF_vars(Main)
    /\ WF_vars(HandlerCancel)
    /\ WF_vars(Callback \/ CallbackSignal \/ SdrCallback)
    /\ WF_vars(SdrCancel)
    /\ SF_vars(async_status = "CANCELING" /\ MainReturns)
    /\ WF_vars(Demod)
    /\ WF_vars(DemodKilled)

-----------------------------------------------------------------------------
(***************************************************************************)
(* Properties.                                                             *)
(***************************************************************************)
\* Every variable has its type.
TypeOK ==
    /\ program \in Programs
    /\ mpc \in {"setup", "start", "read", "signal", "sync", "write", "test", "store", "kill", "join",
                "close", "closed"}
    /\ dpc \in {"none", "loop", "towait", "wait", "work", "passes", "test", "store", "done"}
    /\ hpc \in {"idle", "test", "store"} /\ cpc \in {"none", "test", "store"}
    /\ bytes_to_read \in 0 .. asked /\ asked \in Counts
    /\ received \in 0 .. MaxSent /\ n_read \in 0 .. BlockLen
    /\ file \in Seq(1 .. MaxSent)
    /\ {killed, do_exit, fresh, torn, onEnd} \subseteq BOOLEAN
    /\ Lib!TypeOK

\* When main closes the device and frees the buffer, the demodulator is neither at
\* work in the buffer nor inside rtlsdr_cancel_async().
FreedUnused == mpc \in {"close", "closed"} => dpc \in {"none", "done"} /\ "demod" \notin sawRunning

\* main hangs: the signal came before rtlsdr_read_async() began and its cancel was
\* refused, or a cancel stored CANCELING after the read had returned.
Hung ==
    \/ reading /\ async_status = "RUNNING" /\ hpc = "idle" /\ cpc = "none"
       /\ dpc \notin {"test", "store"}
    \/ mpc = "close" /\ ~dev_lost /\ async_status = "CANCELING"

\* A caught signal, the last block that rtl_sdr was to read, a file that cannot be
\* written and a lost device end the program: whatever the demodulator waits for, main
\* cancels its thread, unless main itself hangs in the library.
Ends == (do_exit \/ dev_lost \/ torn) ~> (mpc = "closed" \/ Hung)

\* After a block was copied in the demodulator begins to look at the buffer once more,
\* although a signal that finds it at work is lost, for as long as the stream goes on:
\* the block is seen, or the later one that overwrote it.
BlockSeen == fresh ~> (~fresh \/ ~reading \/ do_exit)

\* rtl_sdr's file is the start of the stream, without a hole; what is left to read is what
\* it lacks; and it is never longer than -n asked, unless a block ended where -n did, which
\* leaves a count of 0, "no end".  Of a write that was short once nothing is said: the
\* blocks that come before the cancel takes effect are still written after the gap.
FileWhole ==
    ~torn => /\ \A k \in DOMAIN file : file[k] = k
             /\ asked > 0 /\ ~onEnd => Len(file) <= asked
             /\ asked > 0 /\ ~onEnd /\ mpc \notin {"close", "closed"} =>
                  Len(file) + bytes_to_read = asked
             /\ onEnd => bytes_to_read = 0 /\ Len(file) >= asked
=============================================================================
