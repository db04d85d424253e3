----------------------------- MODULE AirspyTcp ------------------------------
(***************************************************************************)
(* The airspy_tcp server (rtl-sdr/src/airspy_tcp.cpp): main serves one     *)
(* client at a time with tcp_worker and command_worker, as rtl_tcp does,   *)
(* but the samples come from a thread of libairspy, tcp_worker takes one   *)
(* buffer at a time and waits for a predicate, and sighandler() signals    *)
(* the condition without holding ll_mutex.                                 *)
(*                                                                         *)
(* Sample buffers are numbered in the order they are captured.  A critical *)
(* section of ll_mutex is one step, except tcp_worker's from its test of   *)
(* do_exit to pthread_cond_wait(), which sighandler() may come between.    *)
(***************************************************************************)
EXTENDS Integers, Sequences, Functions

CONSTANTS
    LLBufNum,       \* llbuf_num, the option -n
    BufLen,         \* send() calls that a buffer may need
    MaxBuffers,     \* bound: buffers the device delivers
    MaxSessions,    \* bound: clients that connect
    MaxSignals      \* bound: signals caught

ASSUME ConstantsAssumption ==
    /\ LLBufNum \in Nat
    /\ BufLen \in Nat \ {0}
    /\ MaxBuffers \in Nat
    /\ MaxSessions \in Nat
    /\ MaxSignals \in Nat

VARIABLES
    mpc,            \* main: where it is
    wpc,            \* tcp_worker
    cpc,            \* command_worker
    hpc,            \* sighandler(), per thread that runs it
    do_exit,
    streaming,      \* between airspy_start_rx() and airspy_stop_rx()
    captured,       \* number of the last buffer captured
    rpt,            \* the callback's new buffer, 0 when there is none
    ls_buffer,      \* the list, oldest buffer first
    global_numq,
    curelem,        \* the buffer tcp_worker took, 0 when there is none
    index,          \* the pieces of it already sent
    assigned,       \* this tcp_worker has assigned bytessent
    conn,           \* the client's connection
    freed,          \* the buffers given back to free()
    overflow,       \* the buffers dropped because the list was full
    last,           \* last <<buffer, piece>> sent to this client
    missed,         \* sighandler() signalled between tcp_worker's test and its wait
    sessions,
    signals

mainVars == <<mpc, streaming, conn, sessions>>
rxVars == <<captured, rpt>>
listVars == <<ls_buffer, global_numq, freed, overflow>>
workerVars == <<wpc, curelem, index, assigned, last>>
handlerVars == <<hpc, do_exit, missed, signals>>
vars == <<mainVars, rxVars, listVars, workerVars, cpc, handlerVars>>

Callers == {"worker", "command", "ctrlc"}      \* the threads that run sighandler()

Init ==
    /\ mpc = "select" /\ streaming = FALSE /\ conn = "none" /\ sessions = 0
    /\ captured = 0 /\ rpt = 0
    /\ ls_buffer = <<>> /\ global_numq = 0 /\ freed = {} /\ overflow = {}
    /\ wpc = "none" /\ curelem = 0 /\ index = 0 /\ assigned = FALSE /\ last = <<0, BufLen>>
    /\ cpc = "none"
    /\ hpc = [t \in Callers |-> "idle"] /\ do_exit = FALSE /\ missed = FALSE /\ signals = 0

(***************************************************************************)
(* sighandler(): sets do_exit, then signals the condition.  The signal     *)
(* wakes a tcp_worker that waits and is lost otherwise.                    *)
(***************************************************************************)
Enter(t) == hpc' = [hpc EXCEPT ![t] = "flag"]

\* Mutant of Wake: nothing is signalled.
WakeNobody == UNCHANGED wpc

Wake == wpc' = IF wpc = "wait" THEN "lock" ELSE wpc

HandlerFlag(t) ==
    /\ hpc[t] = "flag"
    /\ hpc' = [hpc EXCEPT ![t] = "signal"]
    /\ do_exit' = TRUE
    /\ UNCHANGED <<mainVars, rxVars, listVars, workerVars, cpc, missed, signals>>

HandlerSignal(t) ==
    /\ hpc[t] = "signal"
    /\ hpc' = [hpc EXCEPT ![t] = "idle"]
    /\ Wake
    /\ missed' = (missed \/ wpc = "locked")
    /\ UNCHANGED <<mainVars, rxVars, listVars, curelem, index, assigned, last, cpc, do_exit, signals>>

Handler(t) == HandlerFlag(t) \/ HandlerSignal(t)

SignalCaught ==
    /\ signals < MaxSignals
    /\ hpc["ctrlc"] = "idle"
    /\ mpc # "closed"
    /\ signals' = signals + 1
    /\ Enter("ctrlc")
    /\ UNCHANGED <<mainVars, rxVars, listVars, workerVars, cpc, do_exit, missed>>

(***************************************************************************)
(* The main thread.  Whatever fails in it leads to airspy_close() and the  *)
(* program's end.                                                          *)
(***************************************************************************)
MainAccept ==
    /\ mpc = "select"
    /\ ~do_exit
    /\ sessions < MaxSessions
    /\ mpc' = "greet"
    /\ conn' = "open"
    /\ sessions' = sessions + 1
    /\ last' = <<captured, BufLen>>
    /\ UNCHANGED <<streaming, rxVars, listVars, wpc, curelem, index, assigned, cpc, handlerVars>>

MainGreet ==            \* sends dongle_info
    /\ mpc = "greet"
    /\ \/ mpc' = "spawnWorker"
       \/ mpc' = "close" /\ conn = "gone"
    /\ UNCHANGED <<streaming, conn, sessions, rxVars, listVars, workerVars, cpc, handlerVars>>

MainSpawnWorker ==
    /\ mpc = "spawnWorker"
    /\ mpc' = "spawnCommand"
    /\ wpc' = "lock"
    /\ assigned' = FALSE
    /\ UNCHANGED <<streaming, conn, sessions, rxVars, listVars, curelem, index, last, cpc, handlerVars>>

MainSpawnCommand ==
    /\ mpc = "spawnCommand"
    /\ mpc' = "startRx"
    /\ cpc' = "recv"
    /\ UNCHANGED <<streaming, conn, sessions, rxVars, listVars, workerVars, handlerVars>>

MainStartRx ==
    /\ mpc = "startRx"
    /\ \/ mpc' = "joinWorker" /\ streaming' = TRUE
       \/ mpc' = "close" /\ UNCHANGED streaming
    /\ UNCHANGED <<conn, sessions, rxVars, listVars, workerVars, cpc, handlerVars>>

WorkerEnded == wpc = "exit" /\ hpc["worker"] = "idle"
CommandEnded == cpc = "exit" /\ hpc["command"] = "idle"

MainJoinWorker ==
    /\ mpc = "joinWorker"
    /\ WorkerEnded
    /\ mpc' = "joinCommand"
    /\ UNCHANGED <<streaming, conn, sessions, rxVars, listVars, workerVars, cpc, handlerVars>>

MainJoinCommand ==      \* and closes the connection
    /\ mpc = "joinCommand"
    /\ CommandEnded
    /\ mpc' = "stopRx"
    /\ conn' = "none"
    /\ UNCHANGED <<streaming, sessions, rxVars, listVars, workerVars, cpc, handlerVars>>

\* airspy_stop_rx() joins libairspy's threads before it returns.  It may fail.
MainStopRx ==
    /\ mpc = "stopRx"
    /\ \/ rpt = 0 /\ mpc' = "drain" /\ streaming' = FALSE
       \/ mpc' = "close" /\ UNCHANGED streaming
    /\ UNCHANGED <<conn, sessions, rxVars, listVars, workerVars, cpc, handlerVars>>

\* Mutant of Drain: global_numq keeps counting the buffers that were freed.
DrainUncounted ==
    /\ freed' = freed \cup Range(ls_buffer)
    /\ ls_buffer' = <<>>
    /\ UNCHANGED global_numq

Drain ==
    /\ freed' = freed \cup Range(ls_buffer)
    /\ ls_buffer' = <<>>
    /\ global_numq' = 0

MainEndSession ==       \* frees the list and takes the request to exit back
    /\ mpc = "drain"
    /\ mpc' = "select"
    /\ Drain
    /\ do_exit' = FALSE
    /\ UNCHANGED <<streaming, conn, sessions, rxVars, overflow, workerVars, cpc, hpc, missed, signals>>

MainExit ==
    /\ mpc = "select"
    /\ do_exit
    /\ mpc' = "close"
    /\ UNCHANGED <<streaming, conn, sessions, rxVars, listVars, workerVars, cpc, handlerVars>>

\* airspy_close() ends the streaming threads, too, if they still run.
MainClose ==
    /\ mpc = "close"
    /\ rpt = 0
    /\ mpc' = "closed"
    /\ streaming' = FALSE
    /\ UNCHANGED <<conn, sessions, rxVars, listVars, workerVars, cpc, handlerVars>>

\* main polls in its listen loop.  After "closed" the process is over.
MainPolls ==
    /\ mpc \in {"select", "closed"}
    /\ UNCHANGED vars

Main ==
    \/ MainAccept \/ MainGreet \/ MainSpawnWorker \/ MainSpawnCommand \/ MainStartRx
    \/ MainJoinWorker \/ MainJoinCommand \/ MainStopRx \/ MainEndSession
    \/ MainExit \/ MainClose \/ MainPolls

(***************************************************************************)
(* rx_callback(), in libairspy's thread: a buffer that arrives after       *)
(* do_exit is ignored.                                                     *)
(***************************************************************************)
Capture ==
    /\ streaming
    /\ rpt = 0
    /\ ~do_exit
    /\ captured < MaxBuffers
    /\ captured' = captured + 1
    /\ rpt' = captured + 1
    /\ UNCHANGED <<mainVars, listVars, workerVars, cpc, handlerVars>>

Full == global_numq + 1 > LLBufNum

Enqueue ==
    /\ rpt # 0
    /\ wpc # "locked"
    /\ LET list == Append(ls_buffer, rpt)
       IN  IF Full
             THEN /\ ls_buffer' = Tail(list)
                  /\ freed' = freed \cup {Head(list)}
                  /\ overflow' = overflow \cup {Head(list)}
                  /\ UNCHANGED global_numq
             ELSE /\ ls_buffer' = list
                  /\ global_numq' = global_numq + 1
                  /\ UNCHANGED <<freed, overflow>>
    /\ Wake
    /\ rpt' = 0
    /\ UNCHANGED <<mainVars, captured, curelem, index, assigned, last, cpc, handlerVars>>

(***************************************************************************)
(* tcp_worker.  Nothing but a signal ends its wait: there is no timeout.   *)
(***************************************************************************)
\* The worker leaves through sighandler(); the buffer it still holds leaks.
WorkerLeaves ==
    /\ Enter("worker")
    /\ wpc' = "exit"
    /\ curelem' = 0
    /\ index' = 0

\* Mutant of TakeOne: the buffer stays in the list until it has been sent.
TakeShared ==
    /\ curelem' = Head(ls_buffer)
    /\ UNCHANGED ls_buffer
    /\ global_numq' = global_numq - 1

TakeOne ==
    /\ curelem' = Head(ls_buffer)
    /\ ls_buffer' = Tail(ls_buffer)
    /\ global_numq' = global_numq - 1

WorkerExits ==          \* do_exit ends it without sighandler()
    /\ wpc = "lock"
    /\ do_exit
    /\ wpc' = "exit"
    /\ UNCHANGED <<mainVars, rxVars, listVars, curelem, index, assigned, last, cpc, handlerVars>>

WorkerTake ==
    /\ wpc = "lock"
    /\ ~do_exit
    /\ ls_buffer # <<>>
    /\ TakeOne
    /\ wpc' = "send"
    /\ UNCHANGED <<mainVars, rxVars, freed, overflow, index, assigned, last, cpc, handlerVars>>

WorkerTests ==          \* holds ll_mutex until it waits
    /\ wpc = "lock"
    /\ ~do_exit
    /\ ls_buffer = <<>>
    /\ wpc' = "locked"
    /\ UNCHANGED <<mainVars, rxVars, listVars, curelem, index, assigned, last, cpc, handlerVars>>

WorkerWaits ==
    /\ wpc = "locked"
    /\ wpc' = "wait"
    /\ UNCHANGED <<mainVars, rxVars, listVars, curelem, index, assigned, last, cpc, handlerVars>>

WorkerSpuriousWakeup ==
    /\ wpc = "wait"
    /\ wpc' = "lock"
    /\ UNCHANGED <<mainVars, rxVars, listVars, curelem, index, assigned, last, cpc, handlerVars>>

\* Mutant of BufferSent: a partial send() is taken for a whole one.
SendReturned(n) == n > 0

BufferSent(n) == index + n = BufLen

WorkerSend ==           \* select(), send() and the tests that follow them
    /\ wpc = "send"
    /\ \E n \in 0 .. BufLen - index :       \* 0: select() timed out
         /\ last' = IF n = 0 THEN last ELSE <<curelem, index + n>>
         /\ assigned' = (assigned \/ n > 0)
         /\ IF do_exit
              THEN WorkerLeaves /\ UNCHANGED freed
              ELSE /\ UNCHANGED hpc
                   /\ IF BufferSent(n)
                        THEN /\ freed' = freed \cup {curelem}
                             /\ curelem' = 0
                             /\ index' = 0
                             /\ wpc' = "lock"
                        ELSE /\ index' = index + n
                             /\ UNCHANGED <<freed, curelem, wpc>>
    /\ UNCHANGED <<mainVars, rxVars, ls_buffer, global_numq, overflow, cpc, do_exit, missed, signals>>

\* send() fails; or select() times out before bytessent was ever assigned, and it
\* happens to hold SOCKET_ERROR.
WorkerSendError ==
    /\ wpc = "send"
    /\ conn = "gone" \/ ~assigned
    /\ WorkerLeaves
    /\ UNCHANGED <<mainVars, rxVars, listVars, assigned, last, cpc, do_exit, missed, signals>>

Worker ==
    \/ WorkerExits \/ WorkerTake \/ WorkerTests \/ WorkerWaits \/ WorkerSpuriousWakeup
    \/ WorkerSend \/ WorkerSendError

(***************************************************************************)
(* command_worker.  A client that closes in order makes recv() return 0,   *)
(* which is not an error: the loop goes on.                                *)
(***************************************************************************)
CommandLeaves ==
    /\ Enter("command")
    /\ cpc' = "exit"

CommandRecv ==          \* select(), recv() and the test that follows them
    /\ cpc = "recv"
    /\ IF do_exit
         THEN CommandLeaves
         ELSE cpc' \in {"recv", "dispatch"} /\ UNCHANGED hpc
    /\ UNCHANGED <<mainVars, rxVars, listVars, workerVars, do_exit, missed, signals>>

CommandError ==         \* the connection was reset
    /\ cpc = "recv"
    /\ conn = "gone"
    /\ CommandLeaves
    /\ UNCHANGED <<mainVars, rxVars, listVars, workerVars, do_exit, missed, signals>>

CommandDispatch ==      \* uses the device
    /\ cpc = "dispatch"
    /\ cpc' = "recv"
    /\ UNCHANGED <<mainVars, rxVars, listVars, workerVars, handlerVars>>

Command == CommandRecv \/ CommandError \/ CommandDispatch

ClientLeaves ==
    /\ conn = "open"
    /\ conn' = "gone"
    /\ UNCHANGED <<mpc, streaming, sessions, rxVars, listVars, workerVars, cpc, handlerVars>>

Next ==
    \/ Main
    \/ Capture
    \/ Enqueue
    \/ Worker
    \/ Command
    \/ \E t \in Callers : Handler(t)
    \/ SignalCaught
    \/ ClientLeaves

Spec == Init /\ [][Next]_vars

(***************************************************************************)
(* Fairness: every thread is scheduled, ll_mutex is released and calls     *)
(* with a timeout return.  Nothing obliges the device to deliver, a client *)
(* to connect, to read, to send or to leave.  A thread that tries again    *)
(* and again to lock ll_mutex gets it.                                     *)
(***************************************************************************)
MainRuns ==
    \/ MainGreet \/ MainSpawnWorker \/ MainSpawnCommand \/ MainStartRx
    \/ MainJoinWorker \/ MainJoinCommand \/ MainStopRx \/ MainEndSession
    \/ MainExit \/ MainClose

WorkerRuns == WorkerExits \/ WorkerTake \/ WorkerTests \/ WorkerWaits \/ (do_exit /\ WorkerSend)

Fairness ==
    /\ WF_vars(MainRuns)
    /\ SF_vars(Enqueue)
    /\ WF_vars(WorkerRuns)
    /\ WF_vars((do_exit /\ CommandRecv) \/ CommandDispatch)
    /\ \A t \in Callers : WF_vars(Handler(t))

FairSpec == Spec /\ Fairness

-----------------------------------------------------------------------------
(***************************************************************************)
(* Properties.                                                             *)
(***************************************************************************)
ControlOK ==
    /\ mpc \in {"select", "greet", "spawnWorker", "spawnCommand", "startRx", "joinWorker",
                "joinCommand", "stopRx", "drain", "close", "closed"}
    /\ wpc \in {"none", "lock", "locked", "wait", "send", "exit"}
    /\ cpc \in {"none", "recv", "dispatch", "exit"}
    /\ hpc \in [Callers -> {"idle", "flag", "signal"}]
    /\ do_exit \in BOOLEAN
    /\ streaming \in BOOLEAN
    /\ assigned \in BOOLEAN
    /\ missed \in BOOLEAN
    /\ conn \in {"none", "open", "gone"}

BuffersOK ==
    /\ captured \in 0 .. MaxBuffers
    /\ rpt \in 0 .. captured
    /\ curelem \in 0 .. captured
    /\ ls_buffer \in Seq(1 .. captured)
    /\ global_numq \in Int
    /\ index \in 0 .. BufLen - 1
    /\ last \in (0 .. captured) \X (1 .. BufLen)
    /\ freed \subseteq 1 .. captured
    /\ overflow \subseteq 1 .. captured

CountsOK ==
    /\ sessions \in 0 .. MaxSessions
    /\ signals \in 0 .. MaxSignals

\* Every variable of the server has its type.
TypeOK == ControlOK /\ BuffersOK /\ CountsOK

\* global_numq, which callback, tcp_worker and main's drain count separately, is
\* the list's length, and the list keeps the option's promise: "-n max number of
\* linked list buffer to keep".
QueueCounted ==
    /\ global_numq = Len(ls_buffer)
    /\ Len(ls_buffer) <= LLBufNum

\* A list holds buffers in the order of their capture: each is newer than all before it.
Increasing(s) == \A j \in 1 .. Len(s) : \A i \in 1 .. j - 1 : s[i] < s[j]

\* A captured buffer has one owner: the callback, the list, tcp_worker, or free().
\* So no buffer is freed twice, and none is sent or relinked after it was freed.
OneOwner ==
    /\ Increasing(ls_buffer)
    /\ curelem \notin Range(ls_buffer)
    /\ rpt \notin Range(ls_buffer)
    /\ rpt = curelem => rpt = 0
    /\ (Range(ls_buffer) \cup {curelem, rpt}) \cap freed = {}

\* What a client receives is the stream its session captured: whole buffers in
\* order, each piece where the one before it ended, none of an earlier client's,
\* and between two of them only buffers the full list dropped are missing.
StreamIntact ==
    [][ mpc # "select" /\ last' # last =>
          IF last'[1] = last[1]
            THEN index = last[2] /\ last'[2] > last[2]
            ELSE /\ index = 0 /\ last[2] = BufLen
                 /\ last'[1] > last[1]
                 /\ last[1] + 1 .. last'[1] - 1 \subseteq overflow ]_vars

\* A request to exit ends the session, or the program, unless tcp_worker missed it.
ExitAnswered == do_exit ~> (~do_exit \/ mpc = "closed" \/ missed)
=============================================================================
