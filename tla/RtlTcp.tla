------------------------------- MODULE RtlTcp -------------------------------
(***************************************************************************)
(* The rtl_tcp server (rtl-sdr/src/rtl_tcp.c): the main thread accepts one *)
(* client at a time, starts tcp_worker and command_worker for it, streams  *)
(* inside rtlsdr_read_async() and joins both when the stream ends.  The    *)
(* stream's callback appends sample buffers to the list ll_buffers, which  *)
(* tcp_worker takes over whole and sends.  Every thread that wants the     *)
(* session to end calls sighandler(), and so does a caught signal.         *)
(*                                                                         *)
(* The callback runs on the thread that handles libusb's events: main in   *)
(* its read, or another thread that waits for a synchronous transfer,      *)
(* which command_worker does in a command and the response channel's       *)
(* thread does all the time, whatever main is at.  Nobody joins that one   *)
(* when a session ends.                                                    *)
(*                                                                         *)
(* Sample buffers are numbered in the order the callback is given them.  A *)
(* critical section of ll_mutex is one step; every access outside of it is *)
(* a step of its own.  The library is seen through AsyncReadAPI.           *)
(***************************************************************************)
EXTENDS Integers, Sequences, Functions

CONSTANTS
    LLBufNum,       \* llbuf_num, the option -n (0: no limit)
    Systems,        \* those the server is built for: "posix", "windows"
    Channel,        \* the response channel's thread runs (it does not with -r 0)
    BufLen,         \* send() calls that a buffer may need
    CmdLen,         \* recv() calls that a command may need
    Faults,         \* the device and libusb's event handling may fail
    MaxBuffers,     \* bound: buffers the device delivers
    MaxSessions,    \* bound: clients that connect
    MaxSignals      \* bound: signals caught

ASSUME ConstantsAssumption ==
    /\ LLBufNum \in Nat
    /\ Systems \subseteq {"posix", "windows"}
    /\ Channel \in BOOLEAN
    /\ BufLen \in Nat \ {0}
    /\ CmdLen \in Nat \ {0}
    /\ Faults \in BOOLEAN
    /\ MaxBuffers \in Nat
    /\ MaxSessions \in Nat
    /\ MaxSignals \in Nat

VARIABLES
    mpc,            \* main: where it is
    wpc,            \* tcp_worker
    cpc,            \* command_worker
    hpc,            \* sighandler(), per thread that runs it
    do_exit,
    async_status,   \* of the library's device
    dev_lost,
    runner,         \* the thread that runs a callback of the stream, or "none"
    kpc,            \* the callback: about to "append", or in rtlsdr_cancel_async()
    rpt,            \* its new buffer, 0 when there is none
    captured,       \* number of the last buffer captured
    leftover,       \* a read has returned and left transfers in flight
    late,           \* a callback took a buffer that main's drain did not wait for
    ll_buffers,     \* the list, oldest buffer first
    curelem,        \* the buffers tcp_worker took over, the one being sent first
    index,          \* the pieces of it already sent
    left,           \* the pieces of the command still to be received
    conn,           \* the client's connection
    freed,          \* the buffers given back to free()
    overflow,       \* the buffers dropped because the list was full
    last,           \* last <<buffer, piece>> that was sent to this client
    early,          \* command_worker's cancel came before this session's stream began
    sessions,
    signals,
    system          \* the one this server was built for

callbackVars == <<runner, kpc, rpt, captured, leftover, late>>
listVars == <<ll_buffers, freed, overflow>>
workerVars == <<wpc, curelem, index, last>>
commandVars == <<cpc, left, early>>
libVars == <<async_status, dev_lost>>
countVars == <<sessions, signals, system>>
vars == <<mpc, callbackVars, listVars, workerVars, commandVars, libVars, countVars, hpc, do_exit, conn>>

Callers == {"worker", "command", "ctrlc"}      \* the threads that run sighandler()
Handlers == {"command", "ctrl"}     \* those that, besides main, wait for transfers

MainPlaces == {"select", "spawnWorker", "spawnCommand", "read", "stream",
               "joinWorker", "joinCommand", "drain", "free", "close", "closed"}

Streaming == mpc = "stream"

Lib == INSTANCE AsyncReadAPI
         WITH Cancelers <- Callers \cup Handlers,
              reading <- Streaming,
              sawRunning <- {t \in Callers \cup Handlers :
                               (t \in Callers /\ hpc[t] = "store") \/ (t = runner /\ kpc = "store")}

Init ==
    /\ mpc = "select"
    /\ runner = "none" /\ kpc = "none" /\ rpt = 0 /\ captured = 0
    /\ leftover = FALSE /\ late = FALSE
    /\ wpc = "none" /\ curelem = <<>> /\ index = 0 /\ last = <<0, BufLen>>
    /\ cpc = "none" /\ left = CmdLen /\ early = FALSE
    /\ hpc = [t \in Callers |-> "idle"]
    /\ do_exit = FALSE
    /\ async_status = "INACTIVE" /\ dev_lost = FALSE
    /\ ll_buffers = <<>> /\ freed = {} /\ overflow = {}
    /\ conn = "none"
    /\ sessions = 0 /\ signals = 0 /\ system \in Systems

(***************************************************************************)
(* sighandler(): cancel the stream and set do_exit, in either order.  Once *)
(* rtlsdr_close() has freed the device, its status is whatever the memory  *)
(* holds.                                                                  *)
(***************************************************************************)
CancelFirst == system = "posix"     \* Windows sets do_exit first

Enter(t) == hpc' = [hpc EXCEPT ![t] = IF CancelFirst THEN "test" ELSE "flag"]

AfterCancel == IF CancelFirst THEN "flag" ELSE "idle"
AfterFlag == IF CancelFirst THEN "idle" ELSE "test"

DevFreed == mpc = "closed"

HandlerTest(t) ==
    /\ hpc[t] = "test"
    /\ \/ /\ ~DevFreed
          /\ hpc' = [hpc EXCEPT ![t] = IF async_status = "RUNNING" THEN "store" ELSE AfterCancel]
       \/ /\ DevFreed
          /\ \E next \in {"store", AfterCancel} : hpc' = [hpc EXCEPT ![t] = next]
    /\ early' = (early \/ (t = "command" /\ mpc = "read"))
    /\ UNCHANGED <<mpc, callbackVars, listVars, workerVars, cpc, left, libVars, countVars, do_exit, conn>>

HandlerStore(t) ==
    /\ hpc[t] = "store"
    /\ hpc' = [hpc EXCEPT ![t] = AfterCancel]
    /\ async_status' = IF DevFreed THEN async_status ELSE "CANCELING"
    /\ UNCHANGED <<mpc, callbackVars, listVars, workerVars, commandVars, dev_lost, countVars, do_exit, conn>>

HandlerFlag(t) ==
    /\ hpc[t] = "flag"
    /\ hpc' = [hpc EXCEPT ![t] = AfterFlag]
    /\ do_exit' = TRUE
    /\ UNCHANGED <<mpc, callbackVars, listVars, workerVars, commandVars, libVars, countVars, conn>>

Handler(t) == HandlerTest(t) \/ HandlerStore(t) \/ HandlerFlag(t)

SignalCaught ==
    /\ signals < MaxSignals
    /\ hpc["ctrlc"] = "idle"
    /\ ~DevFreed
    /\ signals' = signals + 1
    /\ Enter("ctrlc")
    /\ UNCHANGED <<mpc, callbackVars, listVars, workerVars, commandVars, libVars, sessions, system, do_exit, conn>>

\* Mutant of WorkerEnded: the worker is not joined.
WorkerNotJoined == TRUE

\* Mutant of CommandEnded: command_worker is not joined.
CommandNotJoined == TRUE

WorkerEnded == wpc = "exit" /\ hpc["worker"] = "idle"
CommandEnded == cpc = "exit" /\ hpc["command"] = "idle"

(***************************************************************************)
(* The main thread, outside rtlsdr_read_async().                           *)
(***************************************************************************)
MainAccept ==
    /\ mpc = "select"
    /\ ~do_exit
    /\ sessions < MaxSessions
    /\ mpc' = "spawnWorker"
    /\ conn' = "open"
    /\ sessions' = sessions + 1
    /\ last' = <<captured, BufLen>>
    /\ early' = FALSE
    /\ UNCHANGED <<callbackVars, listVars, wpc, curelem, index, cpc, left, libVars, signals, system, hpc, do_exit>>

MainSpawnWorker ==
    /\ mpc = "spawnWorker"
    /\ mpc' = "spawnCommand"
    /\ wpc' = "top"
    /\ UNCHANGED <<callbackVars, listVars, curelem, index, last, commandVars, libVars, countVars, hpc, do_exit, conn>>

MainSpawnCommand ==
    /\ mpc = "spawnCommand"
    /\ mpc' = "read"
    /\ cpc' = "recv"
    /\ left' = CmdLen
    /\ UNCHANGED <<callbackVars, listVars, workerVars, early, libVars, countVars, hpc, do_exit, conn>>

MainJoinWorker ==
    /\ mpc = "joinWorker"
    /\ WorkerEnded
    /\ mpc' = "joinCommand"
    /\ UNCHANGED <<callbackVars, listVars, workerVars, commandVars, libVars, countVars, hpc, do_exit, conn>>

\* Joins command_worker and closes the connection.
MainJoinCommand ==
    /\ mpc = "joinCommand"
    /\ CommandEnded
    /\ mpc' = "drain"
    /\ conn' = "none"
    /\ UNCHANGED <<callbackVars, listVars, workerVars, commandVars, libVars, countVars, hpc, do_exit>>

Drain ==
    /\ freed' = freed \cup Range(ll_buffers)
    /\ ll_buffers' = <<>>

\* "all threads dead..": main takes the list without its lock.  A callback that has taken
\* a buffer is not waited for.
MainDrain ==
    /\ mpc = "drain"
    /\ mpc' = "free"
    /\ Drain
    /\ late' = (late \/ rpt # 0)
    /\ UNCHANGED <<runner, kpc, rpt, captured, leftover, overflow, workerVars, commandVars, libVars,
                   countVars, hpc, do_exit, conn>>

\* Mutant of TakeBackExit: the request to exit outlives the session.
KeepExit == UNCHANGED do_exit

TakeBackExit == do_exit' = FALSE

MainEndSession ==       \* what was in the list is freed: back to the listen loop
    /\ mpc = "free"
    /\ mpc' = "select"
    /\ TakeBackExit
    /\ UNCHANGED <<callbackVars, listVars, workerVars, commandVars, libVars, countVars, hpc, conn>>

MainExit ==
    /\ mpc = "select"
    /\ do_exit
    /\ mpc' = "close"
    /\ UNCHANGED <<callbackVars, listVars, workerVars, commandVars, libVars, countVars, hpc, do_exit, conn>>

\* rtlsdr_close() polls until the status is INACTIVE, unless the device is lost.
MainClose ==
    /\ mpc = "close"
    /\ dev_lost \/ async_status = "INACTIVE"
    /\ mpc' = "closed"
    /\ UNCHANGED <<callbackVars, listVars, workerVars, commandVars, libVars, countVars, hpc, do_exit, conn>>

\* The loops that poll: select() in the listen loop, libusb's event loop,
\* rtlsdr_close().  After "closed" this module has nothing left to do.
MainPolls ==
    /\ mpc \in {"select", "stream", "close", "closed"}
    /\ UNCHANGED vars

(***************************************************************************)
(* The main thread, inside rtlsdr_read_async().                            *)
(***************************************************************************)
MainRead ==
    /\ mpc = "read"
    /\ \/ mpc' = "stream" /\ UNCHANGED <<hpc, runner, kpc>> /\ Lib!BeginRead
       \/ mpc' = "joinWorker" /\ UNCHANGED <<hpc, runner, kpc>> /\ Lib!RefuseRead
    /\ UNCHANGED <<rpt, captured, leftover, late, listVars, workerVars, commandVars, countVars, do_exit, conn>>

\* The read returns, and may leave transfers in flight (AsyncReadFree.cfg); a callback on
\* another thread goes on.
MainLeaves ==
    /\ mpc = "stream" /\ runner # "main"
    /\ mpc' = "joinWorker"
    /\ UNCHANGED <<hpc, runner, kpc>>
    /\ leftover' \in {leftover, TRUE}
    /\ UNCHANGED <<rpt, captured, late, listVars, workerVars, commandVars, countVars, do_exit, conn>>

MainReturns == MainLeaves /\ Lib!EndRead

MainReadFails == Faults /\ MainLeaves /\ Lib!FailRead

MainSubmitFails ==
    /\ Faults
    /\ Streaming
    /\ UNCHANGED <<mpc, hpc, runner, kpc>>
    /\ Lib!SubmitFails
    /\ UNCHANGED <<rpt, captured, leftover, late, listVars, workerVars, commandVars, countVars, do_exit, conn>>

Main ==
    \/ MainAccept \/ MainSpawnWorker \/ MainSpawnCommand \/ MainRead
    \/ MainReturns \/ MainReadFails \/ MainSubmitFails
    \/ MainJoinWorker \/ MainJoinCommand \/ MainDrain \/ MainEndSession
    \/ MainExit \/ MainClose \/ MainPolls

(***************************************************************************)
(* The stream's callback, on the one thread that handles libusb's events.  *)
(* main does in its read only.  Another thread does whenever it waits for  *)
(* a transfer of its own, and finds the stream's transfers for as long as  *)
(* there are any.                                                          *)
(***************************************************************************)
HandlesEvents(t) ==
    /\ runner = "none"
    /\ \/ t = "main" /\ Streaming
       \/ t = "command" /\ cpc = "dispatch" /\ (Streaming \/ leftover)
       \/ t = "ctrl" /\ Channel /\ ~DevFreed /\ (Streaming \/ leftover)

\* The session's threads do not run: what a callback takes now belongs to no session.
BetweenSessions == mpc \in {"free", "select", "spawnWorker", "close", "closed"}

\* rtlsdr_callback(): a buffer that arrives after do_exit is ignored.
Capture(t) ==
    /\ HandlesEvents(t)
    /\ ~do_exit
    /\ captured < MaxBuffers
    /\ captured' = captured + 1
    /\ rpt' = captured + 1
    /\ runner' = t /\ kpc' = "append"
    /\ late' = (late \/ BetweenSessions)
    /\ UNCHANGED <<mpc, leftover, listVars, workerVars, commandVars, libVars, countVars, hpc, do_exit, conn>>

\* num_queued counts the elements that have a successor.
NumQueued == Len(ll_buffers) - 1

\* Mutant of Full: the comparison is off by one.
FullOneLater == ll_buffers # <<>> /\ LLBufNum # 0 /\ LLBufNum = NumQueued - 3

Full == ll_buffers # <<>> /\ LLBufNum # 0 /\ LLBufNum = NumQueued - 2

\* pthread_cond_signal() wakes a worker that waits, and is lost otherwise.
SignalCond == wpc' = IF wpc = "wait" THEN "woken" ELSE wpc

\* While main frees what it took, the callback may have found the list as it was: then it
\* links the buffer to an element that main frees, before main is there or after it.
LinkToDrained ==
    /\ mpc = "free"
    /\ freed' \in {freed, freed \cup {rpt}}
    /\ UNCHANGED <<ll_buffers, overflow>>

Link ==
    IF Full
      THEN /\ ll_buffers' = Append(Tail(ll_buffers), rpt)
           /\ freed' = freed \cup {Head(ll_buffers)}
           /\ overflow' = overflow \cup {Head(ll_buffers)}
      ELSE /\ ll_buffers' = Append(ll_buffers, rpt)
           /\ UNCHANGED <<freed, overflow>>

Enqueue ==
    /\ kpc = "append"
    /\ Link \/ LinkToDrained
    /\ SignalCond
    /\ rpt' = 0
    /\ runner' = "none" /\ kpc' = "none"
    /\ UNCHANGED <<mpc, captured, leftover, late, curelem, index, last, commandVars, libVars, countVars,
                   hpc, do_exit, conn>>

\* _libusb_callback() finds the device lost and cancels.  The reader itself, main, tests
\* and stores as one step: nobody else takes the status out of RUNNING but to store the
\* same.
LoseDevice ==
    /\ Faults
    /\ HandlesEvents("main")
    /\ UNCHANGED <<mpc, hpc, runner, kpc>>
    /\ Lib!LoseDevice
    /\ UNCHANGED <<rpt, captured, leftover, late, listVars, workerVars, commandVars, countVars, do_exit, conn>>

CallbackLoses(t) ==
    /\ Faults
    /\ HandlesEvents(t)
    /\ dev_lost' = TRUE
    /\ runner' = t /\ kpc' = "test"
    /\ UNCHANGED <<mpc, rpt, captured, leftover, late, listVars, workerVars, commandVars, async_status,
                   countVars, hpc, do_exit, conn>>

CallbackTest ==
    /\ kpc = "test"
    /\ \/ /\ async_status = "RUNNING" \/ DevFreed
          /\ kpc' = "store" /\ UNCHANGED runner
       \/ /\ async_status # "RUNNING" \/ DevFreed
          /\ kpc' = "none" /\ runner' = "none"
    /\ UNCHANGED <<mpc, rpt, captured, leftover, late, listVars, workerVars, commandVars, libVars,
                   countVars, hpc, do_exit, conn>>

CallbackStore ==
    /\ kpc = "store"
    /\ kpc' = "none" /\ runner' = "none"
    /\ async_status' = IF DevFreed THEN async_status ELSE "CANCELING"
    /\ UNCHANGED <<mpc, rpt, captured, leftover, late, listVars, workerVars, commandVars, dev_lost,
                   countVars, hpc, do_exit, conn>>

Callback ==
    \/ \E t \in {"main", "command", "ctrl"} : Capture(t)
    \/ \E t \in Handlers : CallbackLoses(t)
    \/ LoseDevice \/ Enqueue \/ CallbackTest \/ CallbackStore

(***************************************************************************)
(* tcp_worker.                                                             *)
(***************************************************************************)
\* Mutant of WorkerLeaves: tcp_worker ends without sighandler().
WorkerLeavesAlone == wpc' = "exit" /\ curelem' = <<>> /\ index' = 0 /\ UNCHANGED hpc

\* The worker leaves: sighandler(), pthread_exit(), and what it still holds leaks.
WorkerLeaves ==
    /\ Enter("worker")
    /\ wpc' = "exit"
    /\ curelem' = <<>>
    /\ index' = 0

WorkerTop ==            \* at the loop's top do_exit ends it without sighandler()
    /\ wpc = "top"
    /\ wpc' = IF do_exit THEN "exit" ELSE "wait"
    /\ UNCHANGED <<mpc, callbackVars, listVars, curelem, index, last, commandVars, libVars, countVars, hpc, do_exit, conn>>

\* pthread_cond_timedwait() without a predicate: a second without a signal ends
\* the session, buffers in the list or not.  Waking up without a signal is
\* allowed to any condition variable.
WorkerTimeout ==
    /\ wpc = "wait"
    /\ WorkerLeaves
    /\ UNCHANGED <<mpc, callbackVars, listVars, last, commandVars, libVars, countVars, do_exit, conn>>

WorkerSpuriousWakeup ==
    /\ wpc = "wait"
    /\ wpc' = "woken"
    /\ UNCHANGED <<mpc, callbackVars, listVars, curelem, index, last, commandVars, libVars, countVars, hpc, do_exit, conn>>

\* Mutant of TakeList: the list keeps the buffers the worker took over.
ShareList == curelem' = ll_buffers /\ UNCHANGED ll_buffers

TakeList == curelem' = ll_buffers /\ ll_buffers' = <<>>

WorkerTake ==           \* the whole list changes hands
    /\ wpc = "woken"
    /\ TakeList
    /\ index' = 0
    /\ wpc' = IF ll_buffers = <<>> THEN "top" ELSE "send"
    /\ UNCHANGED <<mpc, callbackVars, freed, overflow, last, commandVars, libVars, countVars, hpc, do_exit, conn>>

\* Mutants of BufferSent: a partial send() is taken for a whole one; the test is off by
\* one.
SendReturned(n) == n > 0
SentBeyond(n) == index + n > BufLen

BufferSent(n) == index + n = BufLen

WorkerSelect ==         \* the socket takes data
    /\ wpc = "send"
    /\ wpc' = "sending"
    /\ UNCHANGED <<mpc, callbackVars, listVars, curelem, index, last, commandVars, libVars, countVars,
                   hpc, do_exit, conn>>

WorkerGivesUp ==        \* select() times out: the test of do_exit
    /\ wpc = "send"
    /\ do_exit
    /\ WorkerLeaves
    /\ UNCHANGED <<mpc, callbackVars, listVars, last, commandVars, libVars, countVars, do_exit, conn>>

WorkerSend ==           \* send() returns, and the test that follows it
    /\ wpc = "sending"
    /\ \E n \in 1 .. BufLen - index :
         /\ last' = <<Head(curelem), index + n>>
         /\ IF do_exit
              THEN WorkerLeaves /\ UNCHANGED freed
              ELSE /\ UNCHANGED hpc
                   /\ IF BufferSent(n)
                        THEN /\ freed' = freed \cup {Head(curelem)}
                             /\ curelem' = Tail(curelem)
                             /\ index' = 0
                             /\ wpc' = IF Tail(curelem) = <<>> THEN "top" ELSE "send"
                        ELSE /\ index' = index + n
                             /\ wpc' = "send"
                             /\ UNCHANGED <<freed, curelem>>
    /\ UNCHANGED <<mpc, callbackVars, ll_buffers, overflow, commandVars, libVars, countVars, do_exit, conn>>

WorkerSendError ==
    /\ wpc = "sending"
    /\ conn = "gone"
    /\ WorkerLeaves
    /\ UNCHANGED <<mpc, callbackVars, listVars, last, commandVars, libVars, countVars, do_exit, conn>>

Worker ==
    \/ WorkerTop \/ WorkerTimeout \/ WorkerSpuriousWakeup \/ WorkerTake
    \/ WorkerSelect \/ WorkerGivesUp \/ WorkerSend \/ WorkerSendError

(***************************************************************************)
(* command_worker.  What a command does to the device is RtlDevice.tla's.  *)
(***************************************************************************)
\* Mutant of CommandLeaves: command_worker ends without sighandler().
CommandLeavesAlone == cpc' = "exit" /\ UNCHANGED hpc

CommandLeaves ==
    /\ Enter("command")
    /\ cpc' = "exit"

CommandRecv ==          \* select(), recv() and the test that follows them
    /\ cpc = "recv"
    /\ \E n \in 0 .. left :                 \* 0: a timeout, or the client has closed
         IF do_exit
           THEN CommandLeaves /\ UNCHANGED left
           ELSE /\ left' = left - n
                /\ cpc' = IF left = n THEN "dispatch" ELSE "recv"
                /\ UNCHANGED hpc
    /\ UNCHANGED <<mpc, callbackVars, listVars, workerVars, early, libVars, countVars, do_exit, conn>>

CommandError ==
    /\ cpc = "recv"
    /\ conn = "gone"
    /\ CommandLeaves
    /\ UNCHANGED <<mpc, callbackVars, listVars, workerVars, left, early, libVars, countVars, do_exit, conn>>

CommandDispatch ==      \* the setter returns, and no callback is left on this thread
    /\ cpc = "dispatch" /\ runner # "command"
    /\ cpc' = "recv"
    /\ left' = CmdLen
    /\ UNCHANGED <<mpc, callbackVars, listVars, workerVars, early, libVars, countVars, hpc, do_exit, conn>>

Command == CommandRecv \/ CommandError \/ CommandDispatch

(***************************************************************************)
(* The client.                                                             *)
(***************************************************************************)
ClientLeaves ==
    /\ conn = "open"
    /\ conn' = "gone"
    /\ UNCHANGED <<mpc, callbackVars, listVars, workerVars, commandVars, libVars, countVars, hpc, do_exit>>

Next ==
    \/ Main
    \/ Callback
    \/ Worker
    \/ Command
    \/ \E t \in Callers : Handler(t)
    \/ SignalCaught
    \/ ClientLeaves

Spec == Init /\ [][Next]_vars

(***************************************************************************)
(* Fairness: every thread is scheduled and every lock is released; calls   *)
(* with a timeout return, and so do the transfers of a command.  Nothing   *)
(* obliges the device to deliver, a client to connect, to read or to       *)
(* leave, or a fault to happen.  A connection that is gone takes data and  *)
(* fails a send() sooner or later (TCP gives up retransmitting).  On       *)
(* Windows the client's socket inherits the mode of the listening one, and *)
(* send() does not block; elsewhere it does, and returns when the client   *)
(* reads.  A behaviour holds at most MaxBuffers signals of the condition,  *)
(* so a worker that waits again and again times out sooner or later:       *)
(* wakeups without a signal do not go on for ever.                         *)
(***************************************************************************)
MainRuns ==
    \/ MainSpawnWorker \/ MainSpawnCommand \/ MainRead
    \/ MainJoinWorker \/ MainJoinCommand \/ MainDrain \/ MainEndSession \/ MainExit \/ MainClose

CallbackRuns == Enqueue \/ CallbackTest \/ CallbackStore

SendBlocks == CancelFirst /\ conn = "open"

WorkerRuns ==
    \/ WorkerTop \/ WorkerTimeout \/ WorkerTake
    \/ WorkerGivesUp \/ (conn = "gone" /\ WorkerSelect)
    \/ ~SendBlocks /\ (WorkerSend \/ WorkerSendError)

Fairness ==
    /\ WF_vars(MainRuns)
    /\ SF_vars(MainReturns)
    /\ WF_vars(CallbackRuns)
    /\ WF_vars(WorkerRuns)
    /\ SF_vars(WorkerTimeout)
    /\ SF_vars(WorkerSendError)
    /\ WF_vars(do_exit /\ CommandRecv)
    /\ SF_vars(CommandDispatch)
    /\ \A t \in Callers : WF_vars(Handler(t))

FairSpec == Spec /\ Fairness

-----------------------------------------------------------------------------
(***************************************************************************)
(* Properties.                                                             *)
(***************************************************************************)

ControlOK ==
    /\ mpc \in MainPlaces
    /\ wpc \in {"none", "top", "wait", "woken", "send", "sending", "exit"}
    /\ cpc \in {"none", "recv", "dispatch", "exit"}
    /\ hpc \in [Callers -> {"idle", "test", "store", "flag"}]
    /\ do_exit \in BOOLEAN
    /\ async_status \in Lib!Statuses
    /\ dev_lost \in BOOLEAN
    /\ early \in BOOLEAN
    /\ runner \in {"none", "main", "command", "ctrl"}
    /\ kpc \in {"none", "append", "test", "store"}
    /\ leftover \in BOOLEAN
    /\ late \in BOOLEAN
    /\ conn \in {"none", "open", "gone"}

BuffersOK ==
    /\ captured \in 0 .. MaxBuffers
    /\ rpt \in 0 .. captured
    /\ ll_buffers \in Seq(1 .. captured)
    /\ curelem \in Seq(1 .. captured)
    /\ index \in 0 .. BufLen - 1
    /\ last \in (0 .. captured) \X (1 .. BufLen)
    /\ freed \subseteq 1 .. captured
    /\ overflow \subseteq 1 .. captured

CountsOK ==
    /\ left \in 0 .. CmdLen
    /\ sessions \in 0 .. MaxSessions
    /\ signals \in 0 .. MaxSignals
    /\ system \in Systems

\* Every variable of the server has its type.
TypeOK == ControlOK /\ BuffersOK /\ CountsOK

\* rtlsdr_callback's list is bounded: with -n N it never holds more than N + 3
\* buffers, however the callback and tcp_worker interleave.
QueueBound == LLBufNum # 0 => Len(ll_buffers) <= LLBufNum + 3

\* A list holds buffers in the order of their capture: each is newer than all before it.
Increasing(s) == \A j \in 1 .. Len(s) : \A i \in 1 .. j - 1 : s[i] < s[j]

\* A captured buffer has one owner: the callback, ll_buffers, tcp_worker's
\* curelem, or free().  So tcp_worker, the callback's drop and main's drain never
\* free a buffer twice, and none of them touches one that was freed, for as long as no
\* callback outlived its session.
OneOwner ==
    ~late =>
        /\ Increasing(ll_buffers)
        /\ Increasing(curelem)
        /\ Range(ll_buffers) \cap Range(curelem) = {}
        /\ ({rpt} \cup Range(ll_buffers) \cup Range(curelem)) \cap freed = {}
        /\ rpt \notin Range(ll_buffers) \cup Range(curelem)

\* What a client receives is the stream its session captured: whole buffers, each
\* piece where the one before it ended, in order, none twice, none of an earlier
\* client's, and between two of them only buffers the full list dropped are missing, for
\* as long as no callback outlived its session.
StreamIntact ==
    [][ ~late /\ mpc # "select" /\ last' # last =>
          IF last'[1] = last[1]
            THEN index = last[2] /\ last'[2] > last[2]
            ELSE /\ index = 0 /\ last[2] = BufLen
                 /\ last'[1] > last[1]
                 /\ last[1] + 1 .. last'[1] - 1 \subseteq overflow ]_vars

\* Whenever main is back in its listen loop, both threads of the session have
\* ended (their sighandler() included), and nothing is left of it, neither in the list nor
\* with a callback, unless a callback outlived its session.
SessionOver ==
    mpc \in {"select", "spawnWorker", "close", "closed"} =>
        /\ wpc \in {"none", "exit"} /\ hpc["worker"] = "idle"
        /\ cpc \in {"none", "exit"} /\ hpc["command"] = "idle"
        /\ late \/ (ll_buffers = <<>> /\ rpt = 0)

\* Only the response channel's thread lets a callback outlive its session: without it
\* (-r 0) main's drain of the list races with nobody, and a client gets nothing of an
\* earlier one's, although a read may leave transfers in flight and command_worker runs
\* callbacks too.
LateByChannel == late => Channel

\* The server never stops by itself: do_exit, which the session's own threads set
\* to end a session, stops the listen loop only after a signal was caught.
StopsOnlyOnSignal == mpc \in {"close", "closed"} => signals > 0

\* The stream runs, nobody is left to end it, and every buffer is ignored:
\* command_worker asked to cancel it before rtlsdr_read_async() had begun, so that
\* rtlsdr_cancel_async() refused, and tcp_worker only looked at do_exit.
Hung ==
    /\ mpc = "stream"
    /\ async_status = "RUNNING"
    /\ WorkerEnded /\ CommandEnded
    /\ early

\* send() waits, without a timeout, for a client that does not read.
Stalled == wpc = "sending" /\ SendBlocks

\* A request to exit ends the session, or the program, unless it is lost in the
\* window before the stream begins, or send() stalls for ever where it may block.
ExitAnswered ==
    <>[]Stalled \/ (do_exit ~> (~do_exit \/ mpc \in {"close", "closed"} \/ Hung))

\* When the client has gone, the session ends and the server listens again.
ClientGoneEndsSession == conn = "gone" ~> (conn # "gone" \/ Hung)
=============================================================================
