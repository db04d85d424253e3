---------------------------- MODULE RtlTcpProofs ----------------------------
(***************************************************************************)
(* Theorems about RtlTcp, for every llbuf_num, every order of the two      *)
(* statements of sighandler(), with and without the response channel and   *)
(* for every bound, and their proofs.                                      *)
(***************************************************************************)
EXTENDS RtlTcp, TLAPS

USE DEF callbackVars, listVars, workerVars, commandVars, libVars, countVars

-----------------------------------------------------------------------------
(***************************************************************************)
(* What Append and Tail do to the buffers of a list (Range) and to its     *)
(* order (Increasing).                                                     *)
(***************************************************************************)
LEMMA SeqMono ==
    ASSUME NEW m \in Nat, NEW n \in Nat, m <= n, NEW s \in Seq(1 .. m)
    PROVE  s \in Seq(1 .. n)
  OBVIOUS

LEMMA RangeIs ==
    ASSUME NEW n \in Nat, NEW s \in Seq(1 .. n)
    PROVE  Range(s) = {s[i] : i \in 1 .. Len(s)}
  BY DEF Range

LEMMA RangeType ==
    ASSUME NEW n \in Nat, NEW s \in Seq(1 .. n)
    PROVE  Range(s) \subseteq 1 .. n
  BY DEF Range

LEMMA HeadTail ==
    ASSUME NEW n \in Nat, NEW s \in Seq(1 .. n), s # <<>>
    PROVE  /\ Head(s) \in 1 .. n
           /\ Tail(s) \in Seq(1 .. n)
           /\ Len(Tail(s)) = Len(s) - 1
           /\ \A i \in 1 .. Len(s) - 1 : Tail(s)[i] = s[i + 1]
           /\ Head(s) = s[1]
           /\ Len(s) \in Nat \ {0}
  OBVIOUS

LEMMA EmptyFacts == Range(<<>>) = {} /\ Increasing(<<>>)
  BY DEF Range, Increasing

LEMMA TailFacts ==
    ASSUME NEW n \in Nat, NEW s \in Seq(1 .. n), s # <<>>
    PROVE  /\ Tail(s) \in Seq(1 .. n)
           /\ Range(s) = {Head(s)} \cup Range(Tail(s))
           /\ Increasing(s) => Increasing(Tail(s))
           /\ Increasing(s) => \A x \in Range(Tail(s)) : x > Head(s)
  <1>1. /\ Len(s) \in Nat \ {0} /\ Len(Tail(s)) = Len(s) - 1
        /\ \A i \in 1 .. Len(s) - 1 : Tail(s)[i] = s[i + 1]
        /\ Head(s) = s[1] /\ Tail(s) \in Seq(1 .. n)
    BY HeadTail
  <1>2. Range(s) \subseteq {Head(s)} \cup Range(Tail(s))
    <2> SUFFICES ASSUME NEW i \in 1 .. Len(s) PROVE s[i] \in {Head(s)} \cup Range(Tail(s))
      BY DEF Range
    <2>1. CASE i = 1
      BY <1>1, <2>1
    <2>2. CASE i # 1
      <3>1. i - 1 \in 1 .. Len(Tail(s)) /\ Tail(s)[i - 1] = s[i]
        BY <1>1, <2>2
      <3> QED BY <1>1, <3>1, RangeIs
    <2> QED BY <2>1, <2>2
  <1>3. {Head(s)} \cup Range(Tail(s)) \subseteq Range(s)
    BY <1>1 DEF Range
  <1>4. ASSUME Increasing(s) PROVE Increasing(Tail(s))
    <2> SUFFICES ASSUME NEW j \in 1 .. Len(Tail(s)), NEW i \in 1 .. j - 1
                 PROVE  Tail(s)[i] < Tail(s)[j]
      BY DEF Increasing
    <2>1. /\ i + 1 \in 1 .. Len(s) /\ j + 1 \in 1 .. Len(s) /\ i + 1 < j + 1
          /\ Tail(s)[i] = s[i + 1] /\ Tail(s)[j] = s[j + 1]
      BY <1>1
    <2> QED BY <1>4, <2>1 DEF Increasing
  <1>5. ASSUME Increasing(s), NEW i \in 1 .. Len(Tail(s)) PROVE Tail(s)[i] > Head(s)
    <2>1. i + 1 \in 1 .. Len(s) /\ 1 \in 1 .. Len(s) /\ 1 < i + 1 /\ Tail(s)[i] = s[i + 1]
      BY <1>1
    <2>2. s[1] < s[i + 1]
      BY <1>5, <2>1 DEF Increasing
    <2>3. s[1] \in Nat /\ s[i + 1] \in Nat
      BY <2>1
    <2> QED BY <1>1, <2>1, <2>2, <2>3
  <1>6. ASSUME Increasing(s), NEW x \in Range(Tail(s)) PROVE x > Head(s)
    <2>1. Range(Tail(s)) = {Tail(s)[i] : i \in 1 .. Len(Tail(s))}
      BY <1>1, RangeIs
    <2>2. PICK i \in 1 .. Len(Tail(s)) : x = Tail(s)[i]
      BY <1>6, <2>1
    <2> QED BY <1>5, <1>6, <2>2
  <1>7. Range(s) = {Head(s)} \cup Range(Tail(s))
    BY <1>2, <1>3
  <1> QED BY <1>1, <1>4, <1>6, <1>7

LEMMA BeforeLast ==
    ASSUME NEW m \in Nat, NEW k, k = m + 1, NEW j \in 1 .. k, j # k
    PROVE  j \in 1 .. m
  OBVIOUS

LEMMA IncreasingAt ==
    ASSUME NEW s, Increasing(s), NEW i \in 1 .. Len(s), NEW j \in 1 .. Len(s), i < j
    PROVE  s[i] < s[j]
  BY DEF Increasing

LEMMA AppendFacts ==
    ASSUME NEW n \in Nat, NEW s \in Seq(1 .. n), NEW x \in 1 .. n
    PROVE  /\ Range(Append(s, x)) = Range(s) \cup {x}
           /\ Increasing(s) /\ (\A y \in Range(s) : y < x) => Increasing(Append(s, x))
  <1> DEFINE t == Append(s, x)
  <1>1. /\ Len(s) \in Nat /\ Len(t) = Len(s) + 1
        /\ \A i \in 1 .. Len(s) : t[i] = s[i]
        /\ t[Len(s) + 1] = x
    OBVIOUS
  <1> HIDE DEF t
  <1>2. Range(t) \subseteq Range(s) \cup {x}
    <2> SUFFICES ASSUME NEW i \in 1 .. Len(t) PROVE t[i] \in Range(s) \cup {x}
      BY DEF Range
    <2>1. CASE i = Len(s) + 1
      BY <1>1, <2>1
    <2>2. CASE i # Len(s) + 1
      <3>1. i \in 1 .. Len(s)
        BY <1>1, <2>2
      <3> QED BY <1>1, <3>1 DEF Range
    <2> QED BY <2>1, <2>2
  <1>3. Range(s) \cup {x} \subseteq Range(t)
    <2>1. ASSUME NEW i \in 1 .. Len(s) PROVE i \in 1 .. Len(t) /\ t[i] = s[i]
      BY <1>1
    <2>2. Len(s) + 1 \in 1 .. Len(t) /\ t[Len(s) + 1] = x
      BY <1>1
    <2>3. DOMAIN t = 1 .. Len(t) /\ DOMAIN s = 1 .. Len(s)
      BY DEF t
    <2> QED BY <2>1, <2>2, <2>3 DEF Range
  <1>4. ASSUME Increasing(s), \A y \in Range(s) : y < x PROVE Increasing(t)
    <2> SUFFICES ASSUME NEW j \in 1 .. Len(t), NEW i \in 1 .. j - 1 PROVE t[i] < t[j]
      BY DEF Increasing
    <2>1. i \in 1 .. Len(s) /\ t[i] = s[i] /\ s[i] \in Range(s)
      BY <1>1 DEF Range
    <2>2. CASE j = Len(s) + 1
      BY <1>1, <1>4, <2>1, <2>2
    <2>3. CASE j # Len(s) + 1
      <3>1. j \in 1 .. Len(s) /\ t[j] = s[j]
        BY <1>1, <2>3, BeforeLast
      <3>2. s[i] < s[j]
        BY <1>4, <2>1, <3>1, IncreasingAt
      <3> QED BY <2>1, <3>1, <3>2
    <2> QED BY <2>2, <2>3
  <1> QED BY <1>2, <1>3, <1>4 DEF t

-----------------------------------------------------------------------------
(***************************************************************************)
(* Type correctness.  A worker that sends has a buffer to send, and a      *)
(* callback that appends has one to append: without these two facts the    *)
(* type invariant is not inductive.                                        *)
(***************************************************************************)
Sending == wpc \in {"send", "sending"}

TypeInv ==
    /\ TypeOK
    /\ Sending => curelem # <<>>
    /\ kpc = "append" <=> rpt # 0
    /\ runner = "none" <=> kpc = "none"

LEMMA TypeInit == Init => TypeInv
  <1> SUFFICES ASSUME Init PROVE TypeInv
    OBVIOUS
  <1>1. ControlOK
    BY ConstantsAssumption DEF Init, ControlOK, MainPlaces, Callers, Lib!Statuses
  <1>2. BuffersOK
    BY ConstantsAssumption DEF Init, BuffersOK
  <1>3. CountsOK
    BY ConstantsAssumption DEF Init, CountsOK
  <1> QED BY <1>1, <1>2, <1>3 DEF Init, TypeInv, TypeOK, Sending

\* rtlsdr_callback() is given a buffer, on whichever thread.
CaptureStep == \E t \in {"main", "command", "ctrl"} : Capture(t)

\* ControlOK, apart for the provers: the flags and the places.
Flags ==
    /\ do_exit \in BOOLEAN /\ dev_lost \in BOOLEAN /\ early \in BOOLEAN
    /\ leftover \in BOOLEAN /\ late \in BOOLEAN

Places ==
    /\ mpc \in MainPlaces
    /\ wpc \in {"none", "top", "wait", "woken", "send", "sending", "exit"}
    /\ cpc \in {"none", "recv", "dispatch", "exit"}
    /\ hpc \in [Callers -> {"idle", "test", "store", "flag"}]
    /\ async_status \in Lib!Statuses
    /\ runner \in {"none", "main", "command", "ctrl"}
    /\ kpc \in {"none", "append", "test", "store"}
    /\ conn \in {"none", "open", "gone"}

LEMMA FlagsStep ==
    ASSUME Flags, [Next]_vars
    PROVE  Flags'
  <1> USE DEF Flags
  <1>1. CASE UNCHANGED <<do_exit, dev_lost, early, leftover, late>>
    BY <1>1, Zenon
  <1>2. ASSUME NEW t \in Callers, Handler(t) PROVE Flags'
    <2>1. CASE HandlerTest(t)
      BY <2>1, Zenon DEF HandlerTest
    <2>2. CASE HandlerStore(t)
      BY <2>2, Zenon DEF HandlerStore
    <2>3. CASE HandlerFlag(t)
      BY <2>3, Zenon DEF HandlerFlag
    <2> QED BY <1>2, <2>1, <2>2, <2>3 DEF Handler
  <1>3. CASE CaptureStep
    BY <1>3, Zenon DEF CaptureStep, Capture
  <1>4. CASE Enqueue \/ CallbackTest \/ CallbackStore
    BY <1>4, Zenon DEF Enqueue, CallbackTest, CallbackStore
  <1>5. CASE \E t \in Handlers : CallbackLoses(t)
    BY <1>5, Zenon DEF CallbackLoses
  <1>6. CASE LoseDevice
    BY <1>6, Zenon DEF LoseDevice, Lib!LoseDevice
  <1>7. CASE MainSubmitFails
    BY <1>7, Zenon DEF MainSubmitFails, Lib!SubmitFails
  <1>8. CASE MainAccept \/ MainSpawnWorker \/ MainSpawnCommand
    BY <1>8, Zenon DEF MainAccept, MainSpawnWorker, MainSpawnCommand
  <1>9. CASE MainRead
    BY <1>9, Zenon DEF MainRead, Lib!BeginRead, Lib!RefuseRead, Lib!vars
  <1>10. CASE MainReturns \/ MainReadFails
    <2>1. leftover' \in {leftover, TRUE} /\ UNCHANGED <<do_exit, early, late>>
      BY <1>10, Zenon DEF MainReturns, MainReadFails, MainLeaves
    <2>2. UNCHANGED dev_lost
      BY <1>10, Zenon DEF MainReturns, MainReadFails, Lib!EndRead, Lib!FailRead
    <2>3. leftover' \in BOOLEAN
      BY <2>1, Zenon
    <2> QED BY <2>1, <2>2, <2>3, Zenon
  <1>11. CASE MainJoinWorker \/ MainJoinCommand \/ MainExit \/ MainClose
    BY <1>11, Zenon DEF MainJoinWorker, MainJoinCommand, MainExit, MainClose
  <1>12. CASE MainDrain
    BY <1>12, Zenon DEF MainDrain
  <1>13. CASE MainEndSession
    BY <1>13, Zenon DEF MainEndSession, TakeBackExit
  <1>14. CASE Worker
    <2>1. UNCHANGED <<do_exit, dev_lost, early, leftover, late>>
      BY <1>14, Zenon DEF Worker, WorkerTop, WorkerTimeout, WorkerSpuriousWakeup, WorkerTake, WorkerSelect,
                          WorkerGivesUp, WorkerSend, WorkerSendError
    <2> QED BY <1>1, <2>1
  <1>15. CASE Command
    <2>1. UNCHANGED <<do_exit, dev_lost, early, leftover, late>>
      BY <1>15, Zenon DEF Command, CommandRecv, CommandError, CommandDispatch
    <2> QED BY <1>1, <2>1
  <1>16. CASE SignalCaught \/ ClientLeaves \/ MainPolls \/ UNCHANGED vars
    <2>1. UNCHANGED <<do_exit, dev_lost, early, leftover, late>>
      BY <1>16, Zenon DEF SignalCaught, ClientLeaves, MainPolls, vars
    <2> QED BY <1>1, <2>1
  <1> QED BY <1>2, <1>3, <1>4, <1>5, <1>6, <1>7, <1>8, <1>9, <1>10, <1>11, <1>12, <1>13, <1>14, <1>15,
             <1>16 DEF Next, Main, Callback, CaptureStep

LEMMA PlacesStep ==
    ASSUME Places, [Next]_vars
    PROVE  Places'
  <1> USE DEF Places, MainPlaces, Callers, Handlers, Lib!Statuses, Enter
  <1>1. CASE UNCHANGED vars
    BY <1>1 DEF vars
  <1>2. ASSUME NEW t \in Callers, Handler(t) PROVE Places'
    <2> USE DEF AfterCancel, AfterFlag
    <2>1. CASE HandlerTest(t)
      BY <2>1 DEF HandlerTest
    <2>2. CASE HandlerStore(t)
      BY <2>2 DEF HandlerStore
    <2>3. CASE HandlerFlag(t)
      BY <2>3 DEF HandlerFlag
    <2> QED BY <1>2, <2>1, <2>2, <2>3 DEF Handler
  <1>3. CASE SignalCaught \/ ClientLeaves
    BY <1>3 DEF SignalCaught, ClientLeaves
  <1>4. CASE WorkerTop \/ WorkerTimeout \/ WorkerSpuriousWakeup \/ WorkerTake
    BY <1>4 DEF WorkerTop, WorkerTimeout, WorkerSpuriousWakeup, WorkerTake, WorkerLeaves
  <1>5. CASE WorkerSelect \/ WorkerGivesUp \/ WorkerSend \/ WorkerSendError
    BY <1>5 DEF WorkerSelect, WorkerGivesUp, WorkerSend, WorkerSendError, WorkerLeaves
  <1>6. CASE Command
    <2>1. CASE CommandRecv
      BY <2>1 DEF CommandRecv, CommandLeaves
    <2>2. CASE CommandError
      BY <2>2 DEF CommandError, CommandLeaves
    <2>3. CASE CommandDispatch
      BY <2>3 DEF CommandDispatch
    <2> QED BY <1>6, <2>1, <2>2, <2>3 DEF Command
  <1>7. CASE MainAccept \/ MainSpawnWorker \/ MainSpawnCommand
    BY <1>7 DEF MainAccept, MainSpawnWorker, MainSpawnCommand
  <1>8. CASE MainDrain \/ MainEndSession
    BY <1>8 DEF MainDrain, MainEndSession
  <1>9. CASE MainJoinWorker \/ MainJoinCommand \/ MainExit \/ MainClose
    BY <1>9 DEF MainJoinWorker, MainJoinCommand, MainExit, MainClose
  <1>10. CASE CaptureStep
    BY <1>10 DEF CaptureStep, Capture
  <1>11. CASE Enqueue
    BY <1>11 DEF Enqueue, SignalCond
  <1>12. CASE \E t \in Handlers : CallbackLoses(t)
    BY <1>12 DEF CallbackLoses
  <1>13. CASE CallbackTest \/ CallbackStore
    BY <1>13 DEF CallbackTest, CallbackStore
  <1>14. CASE MainRead
    BY <1>14 DEF MainRead, Lib!BeginRead, Lib!RefuseRead, Lib!vars
  <1>15. CASE MainReturns \/ MainReadFails
    BY <1>15 DEF MainReturns, MainReadFails, MainLeaves, Lib!EndRead, Lib!FailRead
  <1>16. CASE LoseDevice \/ MainSubmitFails
    BY <1>16 DEF LoseDevice, MainSubmitFails, Lib!LoseDevice, Lib!SubmitFails
  <1>17. CASE MainPolls
    BY <1>17 DEF MainPolls, vars
  <1> QED BY <1>1, <1>2, <1>3, <1>4, <1>5, <1>6, <1>7, <1>8, <1>9, <1>10, <1>11, <1>12,
             <1>13, <1>14, <1>15, <1>16, <1>17
           DEF Next, Main, Callback, CaptureStep, Worker

LEMMA ControlStep ==
    ASSUME ControlOK, [Next]_vars
    PROVE  ControlOK'
  <1>1. Flags
    BY Zenon DEF ControlOK, Flags
  <1>2. Places
    BY DEF ControlOK, Places
  <1> QED BY <1>1, <1>2, FlagsStep, PlacesStep, Zenon DEF ControlOK, Flags, Places

LEMMA CountsStep ==
    ASSUME CountsOK, [Next]_vars
    PROVE  CountsOK'
  <1> USE ConstantsAssumption DEF CountsOK
  <1>1. CASE UNCHANGED vars
    BY <1>1 DEF vars
  <1>2. ASSUME NEW t \in Callers, Handler(t) PROVE CountsOK'
    BY <1>2 DEF Handler, HandlerTest, HandlerStore, HandlerFlag
  <1>3. CASE SignalCaught \/ ClientLeaves
    BY <1>3 DEF SignalCaught, ClientLeaves
  <1>4. CASE Worker
    BY <1>4 DEF Worker, WorkerTop, WorkerTimeout, WorkerSpuriousWakeup, WorkerTake,
                WorkerSelect, WorkerGivesUp, WorkerSend, WorkerSendError
  <1>5. CASE Command
    BY <1>5 DEF Command, CommandRecv, CommandError, CommandDispatch
  <1>6. CASE MainAccept
    BY <1>6 DEF MainAccept
  <1>8. CASE Main /\ ~MainAccept
    <2>1. UNCHANGED countVars /\ left' \in {left, CmdLen}
      BY <1>8 DEF Main, MainSpawnWorker, MainSpawnCommand, MainRead, MainReturns, MainLeaves,
                  MainReadFails, MainSubmitFails, MainJoinWorker, MainJoinCommand, MainDrain,
                  MainEndSession, MainExit, MainClose, MainPolls, vars
    <2> QED BY <2>1
  <1>7. CASE Callback
    BY <1>7 DEF Callback, Capture, Enqueue, LoseDevice, CallbackLoses, CallbackTest, CallbackStore
  <1> QED BY <1>1, <1>2, <1>3, <1>4, <1>5, <1>6, <1>7, <1>8 DEF Next

-----------------------------------------------------------------------------
(***************************************************************************)
(* The steps that touch the buffers are few.                               *)
(***************************************************************************)
bufferVars == <<ll_buffers, rpt, captured, curelem, index, last, freed, overflow>>

BufferActions ==
    \/ CaptureStep \/ Enqueue \/ MainDrain \/ MainAccept
    \/ WorkerTimeout \/ WorkerTake \/ WorkerGivesUp \/ WorkerSend \/ WorkerSendError

LEMMA BufferFrame ==
    ASSUME [Next]_vars, ~BufferActions
    PROVE  UNCHANGED bufferVars
  <1> USE DEF bufferVars, BufferActions
  <1>1. CASE UNCHANGED vars
    BY <1>1 DEF vars
  <1>2. ASSUME NEW t \in Callers, Handler(t) PROVE UNCHANGED bufferVars
    BY <1>2 DEF Handler, HandlerTest, HandlerStore, HandlerFlag
  <1>3. CASE SignalCaught \/ ClientLeaves
    BY <1>3 DEF SignalCaught, ClientLeaves
  <1>4. CASE WorkerTop \/ WorkerSpuriousWakeup \/ WorkerSelect
    BY <1>4 DEF WorkerTop, WorkerSpuriousWakeup, WorkerSelect
  <1>5. CASE Command
    BY <1>5 DEF Command, CommandRecv, CommandError, CommandDispatch
  <1>6. CASE MainSpawnWorker \/ MainSpawnCommand \/ MainRead \/ MainReturns \/ MainReadFails
             \/ MainSubmitFails \/ MainJoinWorker \/ MainJoinCommand \/ MainEndSession \/ MainExit
             \/ MainClose \/ MainPolls
    BY <1>6 DEF MainSpawnWorker, MainSpawnCommand, MainRead, MainReturns, MainLeaves, MainReadFails,
                MainSubmitFails, MainJoinWorker, MainJoinCommand, MainEndSession, MainExit, MainClose,
                MainPolls, vars
  <1>7. CASE LoseDevice \/ (\E t \in Handlers : CallbackLoses(t)) \/ CallbackTest \/ CallbackStore
    BY <1>7 DEF LoseDevice, CallbackLoses, CallbackTest, CallbackStore
  <1> QED BY <1>1, <1>2, <1>3, <1>4, <1>5, <1>6, <1>7 DEF Next, Main, Callback, CaptureStep, Worker

LEMMA BuffersStep ==
    ASSUME TypeInv, [Next]_vars
    PROVE  BuffersOK'
  <1> USE ConstantsAssumption DEF TypeInv, TypeOK, BuffersOK
  <1>1. CASE CaptureStep
    BY <1>1, SeqMono DEF CaptureStep, Capture
  <1>2. CASE Enqueue
    <2>1. rpt \in 1 .. captured
      BY <1>2 DEF Enqueue
    <2>2. UNCHANGED <<captured, curelem, index, last>> /\ rpt' = 0 /\ (Link \/ LinkToDrained)
      BY <1>2 DEF Enqueue
    <2>3. CASE Link /\ Full
      <3>1. Head(ll_buffers) \in 1 .. captured /\ Tail(ll_buffers) \in Seq(1 .. captured)
        BY <2>3, HeadTail DEF Full
      <3>2. /\ ll_buffers' = Append(Tail(ll_buffers), rpt)
            /\ freed' = freed \cup {Head(ll_buffers)}
            /\ overflow' = overflow \cup {Head(ll_buffers)}
        BY <2>3 DEF Link
      <3>3. Append(Tail(ll_buffers), rpt) \in Seq(1 .. captured)
        BY <2>1, <3>1
      <3>4. freed' \subseteq 1 .. captured /\ overflow' \subseteq 1 .. captured
        BY <3>1, <3>2
      <3> QED BY <2>2, <3>2, <3>3, <3>4
    <2>4. CASE Link /\ ~Full
      <3>1. ll_buffers' = Append(ll_buffers, rpt) /\ UNCHANGED <<freed, overflow>>
        BY <2>4 DEF Link
      <3> QED BY <2>1, <2>2, <3>1
    <2>5. CASE LinkToDrained
      BY <2>1, <2>2, <2>5 DEF LinkToDrained
    <2> QED BY <2>2, <2>3, <2>4, <2>5
  <1>3. CASE MainDrain
    <2>1. Range(ll_buffers) \subseteq 1 .. captured
      BY RangeType
    <2>2. ll_buffers' = <<>> /\ freed' = freed \cup Range(ll_buffers)
      BY <1>3 DEF MainDrain, Drain
    <2>3. UNCHANGED <<captured, rpt, curelem, index, last, overflow>>
      BY <1>3 DEF MainDrain
    <2>4. freed' \subseteq 1 .. captured
      BY <2>1, <2>2
    <2> QED BY <2>2, <2>3, <2>4
  <1>4. CASE MainAccept
    BY <1>4 DEF MainAccept
  <1>5. CASE WorkerTimeout \/ WorkerGivesUp \/ WorkerSendError
    <2>1. curelem' = <<>> /\ index' = 0
      BY <1>5 DEF WorkerTimeout, WorkerGivesUp, WorkerSendError, WorkerLeaves
    <2>2. UNCHANGED <<captured, rpt, ll_buffers, last, freed, overflow>>
      BY <1>5 DEF WorkerTimeout, WorkerGivesUp, WorkerSendError
    <2> QED BY <2>1, <2>2
  <1>6. CASE WorkerTake
    BY <1>6 DEF WorkerTake, TakeList
  <1>7. CASE WorkerSend
    <2>1. Head(curelem) \in 1 .. captured /\ Tail(curelem) \in Seq(1 .. captured)
      BY <1>7, HeadTail DEF WorkerSend, Sending
    <2>2. PICK n \in 1 .. BufLen - index :
            /\ last' = <<Head(curelem), index + n>>
            /\ IF do_exit
                 THEN WorkerLeaves /\ UNCHANGED freed
                 ELSE IF BufferSent(n)
                        THEN /\ freed' = freed \cup {Head(curelem)}
                             /\ curelem' = Tail(curelem)
                             /\ index' = 0
                        ELSE /\ index' = index + n
                             /\ UNCHANGED <<freed, curelem>>
      BY <1>7 DEF WorkerSend
    <2>3. last' \in (0 .. captured) \X (1 .. BufLen)
      BY <2>1, <2>2
    <2>4. UNCHANGED <<captured, rpt, ll_buffers, overflow>>
      BY <1>7 DEF WorkerSend
    <2>5. curelem' = <<>> \/ curelem' = Tail(curelem) \/ curelem' = curelem
      BY <2>2 DEF WorkerLeaves
    <2>6. <<>> \in Seq(1 .. captured) /\ curelem \in Seq(1 .. captured)
      OBVIOUS
    <2>7. curelem' \in Seq(1 .. captured)
      BY <2>1, <2>5, <2>6, Zenon
    <2>8. index' \in 0 .. BufLen - 1
      BY <2>2 DEF WorkerLeaves, BufferSent
    <2>9. freed' \subseteq 1 .. captured
      BY <2>1, <2>2
    <2> QED BY <2>3, <2>4, <2>7, <2>8, <2>9
  <1>8. CASE ~BufferActions
    BY <1>8, BufferFrame DEF bufferVars
  <1> QED BY <1>1, <1>2, <1>3, <1>4, <1>5, <1>6, <1>7, <1>8 DEF BufferActions

LEMMA TypeStep == TypeInv /\ [Next]_vars => TypeInv'
  <1> SUFFICES ASSUME TypeInv, [Next]_vars PROVE TypeInv'
    OBVIOUS
  <1>1. (Sending => curelem # <<>>)'
    <2> USE DEF TypeInv, Sending
    <2>1. CASE WorkerTake
      BY <2>1 DEF WorkerTake, TakeList
    <2>2. CASE WorkerSend \/ WorkerSelect
      BY <2>2 DEF WorkerSend, WorkerSelect, WorkerLeaves
    <2>3. CASE WorkerTimeout \/ WorkerGivesUp \/ WorkerSendError
      BY <2>3 DEF WorkerTimeout, WorkerGivesUp, WorkerSendError, WorkerLeaves
    <2>4. CASE WorkerTop \/ WorkerSpuriousWakeup
      BY <2>4 DEF WorkerTop, WorkerSpuriousWakeup
    <2>5. CASE Enqueue \/ MainSpawnWorker
      BY <2>5 DEF Enqueue, SignalCond, MainSpawnWorker
    <2>6. CASE UNCHANGED <<wpc, curelem>>
      BY <2>6
    <2>7. CASE Main /\ ~MainSpawnWorker
      BY <2>6, <2>7
         DEF Main, MainAccept, MainSpawnCommand, MainRead, MainReturns, MainReadFails, MainLeaves,
             MainSubmitFails, MainJoinWorker, MainJoinCommand, MainDrain, MainEndSession, MainExit,
             MainClose, MainPolls, vars
    <2>8. CASE Callback /\ ~Enqueue
      BY <2>6, <2>8 DEF Callback, Capture, LoseDevice, CallbackLoses, CallbackTest, CallbackStore
    <2> QED
      BY <2>1, <2>2, <2>3, <2>4, <2>5, <2>6, <2>7, <2>8
         DEF Next, vars, Worker, Command, CommandRecv, CommandError, CommandDispatch, Handler, HandlerTest,
             HandlerStore, HandlerFlag, SignalCaught, ClientLeaves
  <1>2. ((kpc = "append" <=> rpt # 0) /\ (runner = "none" <=> kpc = "none"))'
    <2> USE DEF TypeInv
    <2>1. CASE CaptureStep
      <3>1. captured \in Nat
        BY ConstantsAssumption DEF TypeOK, BuffersOK
      <3> QED BY <2>1, <3>1 DEF CaptureStep, Capture
    <2>2. CASE Enqueue
      BY <2>2 DEF Enqueue
    <2>3. CASE \E t \in Handlers : CallbackLoses(t)
      BY <2>3 DEF CallbackLoses, HandlesEvents, Handlers
    <2>4. CASE CallbackTest \/ CallbackStore
      BY <2>4 DEF CallbackTest, CallbackStore
    <2>5. CASE UNCHANGED <<runner, kpc, rpt>>
      BY <2>5
    <2>6. CASE Main \/ LoseDevice
      BY <2>5, <2>6
         DEF Main, MainAccept, MainSpawnWorker, MainSpawnCommand, MainRead, MainReturns, MainReadFails,
             MainLeaves, MainSubmitFails, MainJoinWorker, MainJoinCommand, MainDrain, MainEndSession,
             MainExit, MainClose, MainPolls, LoseDevice, vars
    <2> QED
      BY <2>1, <2>2, <2>3, <2>4, <2>5, <2>6
         DEF Next, vars, Callback, CaptureStep, Worker, WorkerTop, WorkerTimeout, WorkerSpuriousWakeup,
             WorkerTake, WorkerSelect, WorkerGivesUp, WorkerSend, WorkerSendError, Command, CommandRecv,
             CommandError, CommandDispatch, Handler, HandlerTest, HandlerStore, HandlerFlag,
             SignalCaught, ClientLeaves
  <1> QED BY <1>1, <1>2, ControlStep, BuffersStep, CountsStep DEF TypeInv, TypeOK

\* Every variable of the server keeps its type in every reachable state.
THEOREM TypeCorrect == Spec => []TypeOK
  <1>1. TypeInv => TypeOK
    BY DEF TypeInv
  <1> QED BY <1>1, TypeInit, TypeStep, PTL DEF Spec

-----------------------------------------------------------------------------
(***************************************************************************)
(* The list is bounded.                                                    *)
(***************************************************************************)
LEMMA QueueStep ==
    ASSUME TypeInv, QueueBound, [Next]_vars
    PROVE  QueueBound'
  <1> USE DEF QueueBound
  <1>1. ll_buffers \in Seq(1 .. captured) /\ Len(ll_buffers) \in Nat
    BY DEF TypeInv, TypeOK, BuffersOK
  <1>2. CASE Enqueue
    <2>1. CASE Link /\ Full
      <3>1. ll_buffers # <<>> /\ ll_buffers' = Append(Tail(ll_buffers), rpt)
        BY <2>1 DEF Link, Full
      <3>2. Len(ll_buffers') = Len(ll_buffers)
        BY <1>1, <3>1
      <3> QED BY <3>2
    <2>2. CASE Link /\ ~Full
      <3>1. Len(ll_buffers') = Len(ll_buffers) + 1
        BY <1>1, <2>2 DEF Link
      <3>2. LLBufNum # 0 => Len(ll_buffers) = 0 \/ Len(ll_buffers) # LLBufNum + 3
        BY <1>1, <2>2, ConstantsAssumption DEF Full, NumQueued
      <3> QED BY <1>1, <3>1, <3>2, ConstantsAssumption
    <2>3. CASE LinkToDrained
      BY <2>3 DEF LinkToDrained
    <2> QED BY <1>2, <2>1, <2>2, <2>3 DEF Enqueue
  <1>3. CASE WorkerTake \/ MainDrain
    <2>1. ll_buffers' = <<>>
      BY <1>3 DEF WorkerTake, TakeList, MainDrain, Drain
    <2> QED BY <2>1, ConstantsAssumption
  <1>4. CASE CaptureStep \/ MainAccept \/ WorkerTimeout \/ WorkerGivesUp \/ WorkerSend \/ WorkerSendError
    BY <1>4 DEF CaptureStep, Capture, MainAccept, WorkerTimeout, WorkerGivesUp, WorkerSend, WorkerSendError
  <1>5. CASE ~BufferActions
    BY <1>5, BufferFrame DEF bufferVars
  <1> QED BY <1>2, <1>3, <1>4, <1>5 DEF BufferActions

\* With -n N the list never holds more than N + 3 buffers, for every N, however
\* rtlsdr_callback and tcp_worker interleave.
THEOREM QueueBounded == Spec => []QueueBound
  <1>1. Init => QueueBound
    BY ConstantsAssumption DEF Init, QueueBound
  <1>2. TypeInv /\ QueueBound /\ [Next]_vars => QueueBound'
    BY QueueStep
  <1> QED BY <1>1, <1>2, TypeInit, TypeStep, PTL DEF Spec

-----------------------------------------------------------------------------
(***************************************************************************)
(* Sessions do not overlap.  What main has waited for, place by place: a   *)
(* thread that has ended stays so until main starts its successor, and     *)
(* only a thread that has left its loop is inside sighandler().  A         *)
(* callback that has a buffer after main's drain is late, and so is one    *)
(* that is given a buffer between two sessions.                            *)
(***************************************************************************)
WorkerOver == wpc \in {"none", "exit"} /\ hpc["worker"] = "idle"
CommandOver == cpc \in {"none", "exit"} /\ hpc["command"] = "idle"

SessionInv ==
    /\ SessionOver
    /\ mpc = "spawnCommand" => CommandOver
    /\ mpc = "joinCommand" => WorkerOver
    /\ mpc \in {"drain", "free"} => WorkerOver /\ CommandOver
    /\ mpc = "free" => late \/ (ll_buffers = <<>> /\ rpt = 0)
    /\ wpc # "exit" => hpc["worker"] = "idle"
    /\ cpc # "exit" => hpc["command"] = "idle"

LEMMA SessionInit == Init => SessionInv
  BY DEF Init, SessionInv, SessionOver, CommandOver, WorkerOver, Callers

\* What outlived a session stays known.
LEMMA LateStays ==
    ASSUME TypeInv, [Next]_vars
    PROVE  late => late'
  <1>1. CASE UNCHANGED late
    BY <1>1, Zenon
  <1>2. CASE CaptureStep \/ MainDrain
    BY <1>2, Zenon DEF CaptureStep, Capture, MainDrain
  <1>3. CASE Main /\ ~MainDrain
    BY <1>1, <1>3
       DEF Main, MainAccept, MainSpawnWorker, MainSpawnCommand, MainRead, MainReturns, MainReadFails,
           MainLeaves, MainSubmitFails, MainJoinWorker, MainJoinCommand, MainEndSession, MainExit,
           MainClose, MainPolls, vars
  <1>4. CASE Callback /\ ~CaptureStep
    BY <1>1, <1>4
       DEF Callback, CaptureStep, Enqueue, LoseDevice, CallbackLoses, CallbackTest, CallbackStore
  <1> QED
    BY <1>1, <1>2, <1>3, <1>4
       DEF Next, vars, Worker, WorkerTop, WorkerTimeout, WorkerSpuriousWakeup, WorkerTake, WorkerSelect,
           WorkerGivesUp, WorkerSend, WorkerSendError, Command, CommandRecv, CommandError, CommandDispatch,
           Handler, HandlerTest, HandlerStore, HandlerFlag, SignalCaught, ClientLeaves

LEMMA SessionStep == TypeInv /\ SessionInv /\ [Next]_vars => SessionInv'
  <1> SUFFICES ASSUME TypeInv, SessionInv, [Next]_vars PROVE SessionInv'
    OBVIOUS
  <1> USE DEF SessionInv, SessionOver, CommandOver, WorkerOver
  <1>0. late => late'
    BY LateStays
  <1>1. hpc \in [Callers -> {"idle", "test", "store", "flag"}]
    BY DEF TypeInv, TypeOK, ControlOK
  <1>2. CASE UNCHANGED <<mpc, wpc, cpc, ll_buffers, rpt, hpc>>
    BY <1>0, <1>2
  <1>3. ASSUME NEW t \in Callers, Handler(t) PROVE SessionInv'
    <2>1. UNCHANGED <<mpc, wpc, cpc, ll_buffers, rpt>> /\ hpc[t] # "idle"
      BY <1>3 DEF Handler, HandlerTest, HandlerStore, HandlerFlag
    <2>2. \A u \in Callers : u # t => hpc'[u] = hpc[u]
      BY <1>1, <1>3 DEF Handler, HandlerTest, HandlerStore, HandlerFlag
    <2>3. "worker" \in Callers /\ "command" \in Callers
      BY DEF Callers
    <2> QED BY <1>0, <2>1, <2>2, <2>3
  <1>4. CASE SignalCaught
    <2>1. UNCHANGED <<mpc, wpc, cpc, ll_buffers, rpt>> /\ hpc'["worker"] = hpc["worker"]
          /\ hpc'["command"] = hpc["command"]
      BY <1>1, <1>4 DEF SignalCaught, Enter, Callers
    <2> QED BY <1>0, <2>1
  <1>6. CASE WorkerTimeout \/ WorkerGivesUp \/ WorkerSend \/ WorkerSendError
    <2>1. wpc \in {"wait", "send", "sending"} /\ UNCHANGED <<mpc, cpc, ll_buffers, rpt>>
      BY <1>6 DEF WorkerTimeout, WorkerGivesUp, WorkerSend, WorkerSendError
    <2>2. hpc'["command"] = hpc["command"]
      BY <1>1, <1>6 DEF WorkerTimeout, WorkerGivesUp, WorkerSend, WorkerSendError, WorkerLeaves, Enter, Callers
    <2>3. wpc' = "exit" \/ UNCHANGED hpc
      BY <1>6 DEF WorkerTimeout, WorkerGivesUp, WorkerSend, WorkerSendError, WorkerLeaves
    <2> QED BY <1>0, <2>1, <2>2, <2>3
  <1>7. CASE WorkerTop \/ WorkerSpuriousWakeup \/ WorkerTake \/ WorkerSelect
    BY <1>0, <1>7 DEF WorkerTop, WorkerSpuriousWakeup, WorkerTake, TakeList, WorkerSelect
  <1>8. CASE Command
    <2>1. cpc \in {"recv", "dispatch"} /\ UNCHANGED <<mpc, wpc, ll_buffers, rpt>>
      BY <1>8 DEF Command, CommandRecv, CommandError, CommandDispatch
    <2>2. hpc'["worker"] = hpc["worker"]
      BY <1>1, <1>8 DEF Command, CommandRecv, CommandError, CommandDispatch, CommandLeaves,
                        Enter, Callers
    <2>3. cpc' = "exit" \/ UNCHANGED hpc
      BY <1>8 DEF Command, CommandRecv, CommandError, CommandDispatch, CommandLeaves
    <2> QED BY <1>0, <2>1, <2>2, <2>3
  <1>9. CASE MainAccept \/ MainSpawnWorker \/ MainSpawnCommand \/ MainExit \/ MainClose
    BY <1>0, <1>9 DEF MainAccept, MainSpawnWorker, MainSpawnCommand, MainExit, MainClose
  <1>10. CASE MainJoinWorker \/ MainJoinCommand
    BY <1>0, <1>10 DEF MainJoinWorker, WorkerEnded, MainJoinCommand, CommandEnded
  <1>11. CASE MainDrain
    <2>1. mpc = "drain" /\ mpc' = "free" /\ ll_buffers' = <<>> /\ UNCHANGED <<wpc, cpc, hpc, rpt>>
      BY <1>11 DEF MainDrain, Drain
    <2>2. rpt # 0 => late'
      BY <1>11, Zenon DEF MainDrain
    <2> QED BY <2>1, <2>2
  <1>12. CASE MainEndSession
    BY <1>0, <1>12 DEF MainEndSession
  <1>13. CASE CaptureStep
    <2>1. UNCHANGED <<mpc, wpc, cpc, hpc, ll_buffers>>
      BY <1>13 DEF CaptureStep, Capture
    <2>2. mpc \in {"free", "select", "spawnWorker", "close", "closed"} => late'
      BY <1>13, Zenon DEF CaptureStep, Capture, BetweenSessions
    <2> QED BY <2>1, <2>2
  <1>14. CASE Enqueue
    <2>1. rpt # 0 /\ UNCHANGED <<mpc, cpc, hpc>>
      BY <1>14 DEF Enqueue, TypeInv
    <2>2. wpc' = IF wpc = "wait" THEN "woken" ELSE wpc
      BY <1>14 DEF Enqueue, SignalCond
    <2> QED BY <1>0, <2>1, <2>2
  <1>15. CASE MainRead
    <2>1. mpc = "read" /\ mpc' \in {"stream", "joinWorker"} /\ UNCHANGED <<wpc, cpc, hpc>>
      BY <1>15 DEF MainRead
    <2> QED BY <2>1
  <1>16. CASE MainReturns \/ MainReadFails
    <2>1. mpc = "stream" /\ mpc' = "joinWorker" /\ UNCHANGED <<wpc, cpc, hpc>>
      BY <1>16 DEF MainReturns, MainReadFails, MainLeaves
    <2> QED BY <2>1
  <1>17. CASE LoseDevice \/ MainSubmitFails \/ MainPolls \/ ClientLeaves \/ UNCHANGED vars
    BY <1>2, <1>17 DEF LoseDevice, MainSubmitFails, MainPolls, ClientLeaves, vars
  <1>18. CASE (\E t \in Handlers : CallbackLoses(t)) \/ CallbackTest \/ CallbackStore
    BY <1>2, <1>18 DEF CallbackLoses, CallbackTest, CallbackStore
  <1> QED BY <1>3, <1>4, <1>6, <1>7, <1>8, <1>9, <1>10, <1>11, <1>12, <1>13, <1>14, <1>15,
             <1>16, <1>17, <1>18 DEF Next, Main, Worker, Callback, CaptureStep

\* A session's threads have ended, sighandler() included, before main listens for the next
\* client or closes the device, and nothing is left of its list, unless a callback
\* outlived its session.
THEOREM SessionsDoNotOverlap == Spec => []SessionOver
  <1>1. SessionInv => SessionOver
    BY DEF SessionInv
  <1> QED BY <1>1, TypeInit, TypeStep, SessionInit, SessionStep, PTL DEF Spec

-----------------------------------------------------------------------------
(***************************************************************************)
(* Who may run a callback.  main does in its read and command_worker in a  *)
(* command: neither is the one that outlives a session.                    *)
(***************************************************************************)
RunnerInv ==
    /\ runner = "main" => mpc = "stream" /\ kpc = "append"
    /\ runner = "command" => cpc = "dispatch"
    /\ runner = "ctrl" => Channel
    /\ LateByChannel

LEMMA RunnerInit == Init => RunnerInv
  BY DEF Init, RunnerInv, LateByChannel

LEMMA RunnerStep ==
    ASSUME TypeInv, SessionInv, RunnerInv, [Next]_vars
    PROVE  RunnerInv'
  <1> USE DEF RunnerInv, LateByChannel
  <1>1. CASE UNCHANGED <<runner, kpc, mpc, cpc>> /\ (late' => late)
    BY <1>1
  <1>2. CASE CaptureStep
    <2>1. PICK t \in {"main", "command", "ctrl"} : Capture(t)
      BY <1>2 DEF CaptureStep
    <2>2. /\ runner' = t /\ kpc' = "append" /\ UNCHANGED <<mpc, cpc>>
          /\ t = "main" => mpc = "stream"
          /\ t = "command" => cpc = "dispatch"
          /\ t = "ctrl" => Channel
      BY <2>1 DEF Capture, HandlesEvents, Streaming
    <2>3. late' => late \/ BetweenSessions
      BY <2>1, Zenon DEF Capture
    <2>4. BetweenSessions => t = "ctrl"
      BY <2>2 DEF BetweenSessions, SessionInv, SessionOver, CommandOver
    <2> QED BY <2>2, <2>3, <2>4
  <1>3. CASE \E t \in Handlers : CallbackLoses(t)
    <2>1. PICK t \in Handlers : CallbackLoses(t)
      BY <1>3
    <2>2. runner' = t /\ (t = "command" => cpc = "dispatch") /\ (t = "ctrl" => Channel) /\ t # "main"
      BY <2>1 DEF CallbackLoses, HandlesEvents, Handlers
    <2>3. late' => late
      BY <2>1, Zenon DEF CallbackLoses
    <2>4. UNCHANGED <<mpc, cpc>>
      BY <2>1 DEF CallbackLoses
    <2> QED BY <2>2, <2>3, <2>4
  <1>4. CASE Enqueue \/ CallbackTest \/ CallbackStore
    <2>1. UNCHANGED <<mpc, cpc>> /\ (runner' = "none" \/ (UNCHANGED runner /\ kpc = "test"))
      BY <1>4 DEF Enqueue, CallbackTest, CallbackStore
    <2>2. late' => late
      BY <1>4, Zenon DEF Enqueue, CallbackTest, CallbackStore
    <2> QED BY <2>1, <2>2
  <1>5. CASE MainDrain
    <2>1. UNCHANGED <<runner, kpc, cpc>> /\ mpc = "drain" /\ CommandOver
      BY <1>5 DEF MainDrain, SessionInv
    <2>2. late' => late \/ rpt # 0
      BY <1>5, Zenon DEF MainDrain
    <2>3. rpt # 0 => runner = "ctrl"
      BY <2>1 DEF TypeInv, TypeOK, ControlOK, CommandOver
    <2> QED BY <2>1, <2>2, <2>3
  <1>6. CASE MainReturns \/ MainReadFails
    <2>1. runner # "main" /\ UNCHANGED <<runner, kpc, cpc>>
      BY <1>6 DEF MainReturns, MainReadFails, MainLeaves
    <2>2. late' => late
      BY <1>6, Zenon DEF MainReturns, MainReadFails, MainLeaves
    <2> QED BY <2>1, <2>2
  <1>7. CASE Command
    <2>1. UNCHANGED <<mpc, runner, kpc>> /\ (cpc = "dispatch" => runner # "command")
      BY <1>7 DEF Command, CommandRecv, CommandError, CommandDispatch
    <2>2. late' => late
      BY <1>7, Zenon DEF Command, CommandRecv, CommandError, CommandDispatch
    <2> QED BY <2>1, <2>2
  <1>8. CASE MainSpawnCommand
    <2>1. UNCHANGED <<runner, kpc>> /\ mpc = "spawnCommand" /\ CommandOver
      BY <1>8 DEF MainSpawnCommand, SessionInv
    <2>2. late' => late
      BY <1>8, Zenon DEF MainSpawnCommand
    <2> QED BY <2>1, <2>2 DEF CommandOver
  <1>9. CASE MainAccept \/ MainSpawnWorker \/ MainRead \/ MainJoinWorker \/ MainJoinCommand
             \/ MainEndSession \/ MainExit \/ MainClose
    <2>1. mpc # "stream" /\ UNCHANGED <<runner, kpc, cpc>>
      BY <1>9 DEF MainAccept, MainSpawnWorker, MainRead, MainJoinWorker, MainJoinCommand, MainEndSession,
                  MainExit, MainClose
    <2>2. late' => late
      BY <1>9, Zenon DEF MainAccept, MainSpawnWorker, MainRead, MainJoinWorker, MainJoinCommand,
                         MainEndSession, MainExit, MainClose
    <2> QED BY <2>1, <2>2
  <1>10. CASE LoseDevice \/ MainSubmitFails \/ SignalCaught \/ ClientLeaves \/ (\E t \in Callers : Handler(t))
    <2>1. UNCHANGED <<mpc, runner, kpc, cpc>>
      BY <1>10 DEF LoseDevice, MainSubmitFails, SignalCaught, ClientLeaves, Handler, HandlerTest,
                   HandlerStore, HandlerFlag
    <2>2. late' => late
      BY <1>10, Zenon DEF LoseDevice, MainSubmitFails, SignalCaught, ClientLeaves, Handler, HandlerTest,
                          HandlerStore, HandlerFlag
    <2> QED BY <2>1, <2>2
  <1>11. CASE Worker
    <2>1. UNCHANGED <<mpc, runner, kpc, cpc>>
      BY <1>11 DEF Worker, WorkerTop, WorkerTimeout, WorkerSpuriousWakeup, WorkerTake, WorkerSelect,
                   WorkerGivesUp, WorkerSend, WorkerSendError
    <2>2. late' => late
      BY <1>11, Zenon DEF Worker, WorkerTop, WorkerTimeout, WorkerSpuriousWakeup, WorkerTake, WorkerSelect,
                          WorkerGivesUp, WorkerSend, WorkerSendError
    <2> QED BY <2>1, <2>2
  <1>12. CASE MainPolls \/ UNCHANGED vars
    <2>1. UNCHANGED <<mpc, runner, kpc, cpc>>
      BY <1>12 DEF MainPolls, vars
    <2>2. late' => late
      BY <1>12, Zenon DEF MainPolls, vars
    <2> QED BY <2>1, <2>2
  <1> QED BY <1>2, <1>3, <1>4, <1>5, <1>6, <1>7, <1>8, <1>9, <1>10, <1>11, <1>12
             DEF Next, Main, Callback, CaptureStep

\* Without the response channel no callback outlives its session, for every size of the
\* list and of the buffers, though reads leave transfers in flight: what OwnersDisjoint,
\* StreamKept and SessionsDoNotOverlap say of a server that is not late holds of it always.
THEOREM AloneNeverLate == Spec => []LateByChannel
  <1>1. RunnerInv => LateByChannel
    BY DEF RunnerInv
  <1>2. TypeInv /\ SessionInv /\ RunnerInv /\ [Next]_vars => RunnerInv'
    BY RunnerStep
  <1> QED BY <1>1, <1>2, TypeInit, TypeStep, SessionInit, SessionStep, RunnerInit, PTL DEF Spec

\* Invariant: in the listen loop do_exit comes from a signal, and sighandler()
\* runs in the signal's thread only after one was caught.
SignalInv ==
    /\ StopsOnlyOnSignal
    /\ mpc = "select" /\ do_exit => signals > 0
    /\ hpc["ctrlc"] # "idle" => signals > 0

LEMMA SignalStep ==
    ASSUME TypeInv, SessionInv, SignalInv, [Next]_vars
    PROVE  SignalInv'
  <1> USE DEF SignalInv, StopsOnlyOnSignal
  <1>1. hpc \in [Callers -> {"idle", "test", "store", "flag"}] /\ signals \in Nat
    BY ConstantsAssumption DEF TypeInv, TypeOK, ControlOK, CountsOK
  <1>2. CASE UNCHANGED <<mpc, do_exit, hpc, signals>>
    BY <1>2
  <1>3. ASSUME NEW t \in Callers, Handler(t) PROVE SignalInv'
    <2>1. UNCHANGED <<mpc, signals>> /\ hpc[t] # "idle"
      BY <1>3 DEF Handler, HandlerTest, HandlerStore, HandlerFlag
    <2>2. CASE t = "ctrlc"
      BY <2>1, <2>2
    <2>3. CASE t # "ctrlc"
      <3>1. mpc \notin {"select", "close", "closed"}
        BY <2>1, <2>3 DEF SessionInv, SessionOver, Callers
      <3>2. hpc'["ctrlc"] = hpc["ctrlc"]
        BY <1>1, <1>3, <2>3 DEF Handler, HandlerTest, HandlerStore, HandlerFlag, Callers
      <3> QED BY <2>1, <3>1, <3>2
    <2> QED BY <2>2, <2>3
  <1>4. CASE SignalCaught
    BY <1>1, <1>4 DEF SignalCaught
  <1>5. CASE Worker
    <2>1. UNCHANGED <<mpc, signals, do_exit>>
      BY <1>5 DEF Worker, WorkerTop, WorkerTimeout, WorkerSpuriousWakeup, WorkerTake, WorkerSelect,
                  WorkerGivesUp, WorkerSend, WorkerSendError
    <2>2. hpc'["ctrlc"] = hpc["ctrlc"]
      BY <1>1, <1>5 DEF Worker, WorkerTop, WorkerTimeout, WorkerSpuriousWakeup, WorkerTake, WorkerSelect,
                        WorkerGivesUp, WorkerSend, WorkerSendError, WorkerLeaves, Enter, Callers
    <2> QED BY <2>1, <2>2
  <1>6. CASE Command
    <2>1. UNCHANGED <<mpc, signals, do_exit>>
      BY <1>6 DEF Command, CommandRecv, CommandError, CommandDispatch
    <2>2. hpc'["ctrlc"] = hpc["ctrlc"]
      BY <1>1, <1>6 DEF Command, CommandRecv, CommandError, CommandDispatch, CommandLeaves,
                        Enter, Callers
    <2> QED BY <2>1, <2>2
  <1>7. CASE ClientLeaves \/ Callback \/ MainSubmitFails \/ MainPolls \/ UNCHANGED vars
    BY <1>2, <1>7
       DEF ClientLeaves, Callback, Capture, Enqueue, LoseDevice, CallbackLoses, CallbackTest, CallbackStore,
           MainSubmitFails, MainPolls, vars
  <1>8. CASE MainAccept \/ MainSpawnWorker \/ MainSpawnCommand \/ MainJoinWorker \/ MainJoinCommand
             \/ MainDrain \/ MainExit \/ MainClose
    BY <1>8 DEF MainAccept, MainSpawnWorker, MainSpawnCommand, MainJoinWorker, MainJoinCommand, MainDrain,
                MainExit, MainClose
  <1>9. CASE MainEndSession
    BY <1>9 DEF MainEndSession, TakeBackExit
  <1>10. CASE MainRead \/ MainReturns \/ MainReadFails
    BY <1>10 DEF MainRead, MainReturns, MainReadFails, MainLeaves
  <1> QED BY <1>3, <1>4, <1>5, <1>6, <1>7, <1>8, <1>9, <1>10 DEF Next, Main

\* The server leaves its listen loop only after a signal was caught: the do_exit
\* that a session's threads set to end the session never survives it.
THEOREM StopsOnSignal == Spec => []StopsOnlyOnSignal
  <1>1. Init => SignalInv
    BY DEF Init, SignalInv, StopsOnlyOnSignal, Callers
  <1>2. TypeInv /\ SessionInv /\ SignalInv /\ [Next]_vars => SignalInv'
    BY SignalStep
  <1>3. SignalInv => StopsOnlyOnSignal
    BY DEF SignalInv
  <1> QED BY <1>1, <1>2, <1>3, TypeInit, TypeStep, SessionInit, SessionStep, PTL DEF Spec

-----------------------------------------------------------------------------
(***************************************************************************)
(* Every buffer has one owner.  The invariant orders the owners: what the  *)
(* worker holds is older than what the list holds, and that is older than  *)
(* the buffer the callback is about to append.  A worker that is not       *)
(* sending holds nothing.  Until a callback is late, main's drain finds    *)
(* none about to append.                                                   *)
(***************************************************************************)
Ordered ==
    /\ Increasing(ll_buffers)
    /\ Increasing(curelem)
    /\ \A x \in Range(curelem), y \in Range(ll_buffers) : x < y

Newest ==
    rpt # 0 => /\ rpt = captured
               /\ \A x \in Range(curelem) \cup Range(ll_buffers) : x < rpt

Alive == ({rpt} \cup Range(ll_buffers) \cup Range(curelem)) \cap freed = {}

OwnerInv ==
    /\ ~Sending => curelem = <<>>
    /\ ~late => Ordered /\ Newest /\ Alive

LEMMA OwnerInit == Init => OwnerInv
  BY DEF Init, OwnerInv, Ordered, Newest, Alive, Increasing, Range, Sending

LEMMA OwnerImplies == TypeInv /\ OwnerInv => OneOwner
  <1> SUFFICES ASSUME TypeInv, OwnerInv, ~late PROVE OneOwner
    BY DEF OneOwner
  <1>1. /\ Range(ll_buffers) \subseteq 1 .. captured
        /\ Range(curelem) \subseteq 1 .. captured
        /\ captured \in Nat
    BY RangeType, ConstantsAssumption DEF TypeInv, TypeOK, BuffersOK
  <1>2. Range(ll_buffers) \cap Range(curelem) = {}
    BY <1>1 DEF OwnerInv, Ordered
  <1>3. rpt \notin Range(ll_buffers) \cup Range(curelem)
    <2>1. CASE rpt = 0
      BY <1>1, <2>1
    <2>2. CASE rpt # 0
      BY <1>1, <2>2 DEF OwnerInv, Newest
    <2> QED BY <2>1, <2>2
  <1> QED BY <1>2, <1>3 DEF OneOwner, OwnerInv, Ordered, Alive

\* Outside of BufferActions the worker neither begins nor ends to send.
LEMMA PlaceFrame ==
    ASSUME SessionInv, [Next]_vars, ~BufferActions
    PROVE  Sending' <=> Sending
  <1> USE DEF BufferActions, Sending
  <1>1. CASE UNCHANGED wpc
    BY <1>1
  <1>2. CASE WorkerTop \/ WorkerSpuriousWakeup \/ WorkerSelect
    BY <1>2 DEF WorkerTop, WorkerSpuriousWakeup, WorkerSelect
  <1>3. CASE MainSpawnWorker
    BY <1>3 DEF MainSpawnWorker, SessionInv, SessionOver
  <1>4. CASE Main /\ ~MainSpawnWorker
    BY <1>1, <1>4
       DEF Main, MainAccept, MainSpawnCommand, MainRead, MainReturns, MainReadFails, MainLeaves,
           MainSubmitFails, MainJoinWorker, MainJoinCommand, MainDrain, MainEndSession, MainExit,
           MainClose, MainPolls, vars
  <1>5. CASE Callback
    BY <1>1, <1>5 DEF Callback, CaptureStep, LoseDevice, CallbackLoses, CallbackTest, CallbackStore
  <1> QED BY <1>1, <1>2, <1>3, <1>4, <1>5
             DEF Next, vars, Worker, Command, CommandRecv, CommandError, CommandDispatch,
                 Handler, HandlerTest, HandlerStore, HandlerFlag, SignalCaught, ClientLeaves

\* Whatever a late callback does, a worker that is not sending holds nothing.
LEMMA HoldsStep ==
    ASSUME SessionInv, ~Sending => curelem = <<>>, [Next]_vars
    PROVE  ~Sending' => curelem' = <<>>
  <1> USE DEF Sending
  <1>1. CASE CaptureStep \/ MainDrain \/ MainAccept
    BY <1>1 DEF CaptureStep, Capture, MainDrain, MainAccept
  <1>2. CASE Enqueue
    BY <1>2 DEF Enqueue, SignalCond
  <1>3. CASE WorkerTimeout \/ WorkerGivesUp \/ WorkerSend \/ WorkerSendError
    BY <1>3 DEF WorkerTimeout, WorkerGivesUp, WorkerSend, WorkerSendError, WorkerLeaves
  <1>4. CASE WorkerTake
    BY <1>4 DEF WorkerTake, TakeList
  <1>5. CASE ~BufferActions
    <2>1. (Sending' <=> Sending) /\ UNCHANGED curelem
      BY <1>5, BufferFrame, PlaceFrame DEF bufferVars
    <2> QED BY <2>1
  <1> QED BY <1>1, <1>2, <1>3, <1>4, <1>5 DEF BufferActions

LEMMA OwnerStep ==
    ASSUME TypeInv, SessionInv, OwnerInv, [Next]_vars
    PROVE  OwnerInv'
  <1>0. ~Sending' => curelem' = <<>>
    BY HoldsStep DEF OwnerInv
  <1> SUFFICES ASSUME ~late' PROVE Ordered' /\ Newest' /\ Alive'
    BY <1>0, Zenon DEF OwnerInv
  <1>1. ~late /\ Ordered /\ Newest /\ Alive
    BY LateStays DEF OwnerInv
  <1> USE <1>1 DEF Ordered, Newest, Alive
  <1>2. /\ ll_buffers \in Seq(1 .. captured) /\ curelem \in Seq(1 .. captured)
        /\ captured \in Nat /\ freed \subseteq 1 .. captured /\ rpt \in Nat
        /\ Range(ll_buffers) \subseteq 1 .. captured /\ Range(curelem) \subseteq 1 .. captured
    BY RangeType, ConstantsAssumption DEF TypeInv, TypeOK, BuffersOK
  <1>3. CASE CaptureStep
    <2>1. /\ rpt' = captured' /\ captured' = captured + 1
          /\ UNCHANGED <<ll_buffers, curelem, freed>>
      BY <1>3 DEF CaptureStep, Capture
    <2>2. Range(ll_buffers') = Range(ll_buffers) /\ Range(curelem') = Range(curelem)
      BY <2>1
    <2>3. Alive'
      BY <1>2, <2>1, <2>2
    <2>4. Newest'
      BY <1>2, <2>1, <2>2
    <2>5. Ordered'
      BY <2>1, <2>2
    <2> QED BY <2>3, <2>4, <2>5
  <1>4. CASE Enqueue
    <2>1. rpt' = 0 /\ UNCHANGED curelem /\ rpt \in 1 .. captured /\ Range(curelem') = Range(curelem)
      BY <1>4 DEF Enqueue, TypeInv, TypeOK, BuffersOK
    <2>2. Newest'
      BY <2>1
    <2>3. CASE Link /\ Full
      <3> DEFINE rest == Tail(ll_buffers)
      <3>1. /\ ll_buffers # <<>>
            /\ ll_buffers' = Append(rest, rpt)
            /\ freed' = freed \cup {Head(ll_buffers)}
        BY <2>3 DEF Link, Full
      <3>2. /\ rest \in Seq(1 .. captured) /\ Increasing(rest)
            /\ Range(ll_buffers) = {Head(ll_buffers)} \cup Range(rest)
            /\ \A x \in Range(rest) : x > Head(ll_buffers)
        BY <1>2, <3>1, TailFacts
      <3> HIDE DEF rest
      <3>3. Range(ll_buffers') = Range(rest) \cup {rpt} /\ Increasing(ll_buffers')
        <4>1. \A y \in Range(rest) : y < rpt
          BY <1>2, <2>1, <3>2
        <4> QED BY <1>2, <2>1, <3>1, <3>2, <4>1, AppendFacts
      <3>4. Ordered'
        BY <1>2, <2>1, <3>2, <3>3
      <3>5. Head(ll_buffers) \in 1 .. captured /\ Head(ll_buffers) < rpt
        BY <1>2, <2>1, <3>2
      <3>6. Head(ll_buffers) \notin Range(rest) \cup Range(curelem)
        <4>1. Head(ll_buffers) \in Range(ll_buffers)
          BY <3>2
        <4>2. \A x \in Range(curelem) : x < Head(ll_buffers)
          BY <4>1
        <4> QED BY <1>2, <3>2, <3>5, <4>2
      <3>7. Head(ll_buffers) # rpt /\ Head(ll_buffers) # 0 /\ 0 \notin freed
        BY <1>2, <2>1, <3>5
      <3>8. ({rpt} \cup Range(rest) \cup Range(curelem)) \cap freed = {}
        BY <3>2
      <3>9. Alive'
        BY <2>1, <3>1, <3>3, <3>6, <3>7, <3>8
      <3> QED BY <2>2, <3>4, <3>9
    <2>4. CASE Link /\ ~Full
      <3>1. ll_buffers' = Append(ll_buffers, rpt) /\ UNCHANGED freed
        BY <2>4 DEF Link
      <3>2. Range(ll_buffers') = Range(ll_buffers) \cup {rpt} /\ Increasing(ll_buffers')
        <4>1. \A y \in Range(ll_buffers) : y < rpt
          BY <1>2, <2>1
        <4> QED BY <1>2, <2>1, <3>1, <4>1, AppendFacts
      <3>3. Ordered'
        BY <1>2, <2>1, <3>2
      <3>4. Alive'
        BY <1>2, <2>1, <3>1, <3>2
      <3> QED BY <2>2, <3>3, <3>4
    <2>5. ~LinkToDrained
      BY <2>1 DEF LinkToDrained, SessionInv
    <2> QED BY <1>4, <2>3, <2>4, <2>5 DEF Enqueue
  <1>5. CASE WorkerTake
    <2>1. /\ curelem = <<>> /\ curelem' = ll_buffers /\ ll_buffers' = <<>>
          /\ UNCHANGED <<rpt, captured, freed>>
      BY <1>5 DEF WorkerTake, TakeList, OwnerInv, Sending
    <2>2. Range(ll_buffers') = {} /\ Increasing(ll_buffers') /\ Range(curelem') = Range(ll_buffers)
      BY <2>1, EmptyFacts
    <2> QED BY <1>2, <2>1, <2>2
  <1>6. CASE WorkerSend
    <2>1. UNCHANGED <<rpt, captured, ll_buffers>> /\ curelem # <<>>
      BY <1>6 DEF WorkerSend, TypeInv, Sending
    <2>2. CASE UNCHANGED <<curelem, freed>>
      BY <2>1, <2>2
    <2>3. CASE curelem' = <<>> /\ UNCHANGED freed
      BY <2>1, <2>3, EmptyFacts
    <2>4. CASE curelem' = Tail(curelem) /\ freed' = freed \cup {Head(curelem)}
      <3>1. /\ Increasing(curelem')
            /\ Range(curelem) = {Head(curelem)} \cup Range(curelem')
            /\ \A x \in Range(curelem') : x > Head(curelem)
        BY <1>2, <2>1, <2>4, TailFacts
      <3>2. Ordered' /\ Newest'
        BY <2>1, <3>1
      <3>3. Head(curelem) \in 1 .. captured /\ Head(curelem) \in Range(curelem)
        BY <1>2, <3>1
      <3>4. Head(curelem) \notin Range(ll_buffers) \cup Range(curelem') \cup {rpt}
        <4>1. \A x \in Range(ll_buffers) : Head(curelem) < x
          BY <3>3
        <4>2. Head(curelem) # rpt
          BY <1>2, <3>3
        <4> QED BY <1>2, <3>1, <3>3, <4>1, <4>2
      <3>5. Alive'
        BY <2>1, <2>4, <3>1, <3>3, <3>4
      <3> QED BY <3>2, <3>5
    <2> QED BY <1>6, <2>2, <2>3, <2>4 DEF WorkerSend, WorkerLeaves
  <1>7. CASE WorkerTimeout \/ WorkerGivesUp \/ WorkerSendError
    <2>1. curelem' = <<>> /\ UNCHANGED <<rpt, captured, ll_buffers, freed>>
      BY <1>7 DEF WorkerTimeout, WorkerGivesUp, WorkerSendError, WorkerLeaves
    <2> QED BY <2>1, EmptyFacts
  <1>8. CASE MainDrain
    <2>1. /\ ll_buffers' = <<>> /\ freed' = freed \cup Range(ll_buffers)
          /\ UNCHANGED <<rpt, captured, curelem>>
      BY <1>8 DEF MainDrain, Drain
    <2>2. rpt = 0
      BY <1>8, Zenon DEF MainDrain
    <2>3. Range(ll_buffers') = {} /\ Increasing(ll_buffers') /\ Range(curelem') = Range(curelem)
      BY <2>1, EmptyFacts
    <2>4. Range(curelem) \cap Range(ll_buffers) = {}
      BY <1>2
    <2>5. Alive'
      BY <1>2, <2>1, <2>2, <2>3, <2>4
    <2>6. Ordered' /\ Newest'
      BY <2>1, <2>2, <2>3
    <2> QED BY <2>5, <2>6
  <1>9. CASE MainAccept
    BY <1>9 DEF MainAccept
  <1>10. CASE ~BufferActions
    BY <1>10, BufferFrame DEF bufferVars
  <1> QED BY <1>3, <1>4, <1>5, <1>6, <1>7, <1>8, <1>9, <1>10 DEF BufferActions

\* Until a callback outlives its session, no interleaving of rtlsdr_callback, on whichever
\* thread it runs, tcp_worker and main frees a buffer twice or uses one that was freed, for
\* every llbuf_num.
THEOREM OwnersDisjoint == Spec => []OneOwner
  <1>1. TypeInv /\ SessionInv /\ OwnerInv /\ [Next]_vars => OwnerInv'
    BY OwnerStep
  <1> QED BY <1>1, TypeInit, TypeStep, SessionInit, SessionStep, OwnerInit, OwnerImplies, PTL DEF Spec

-----------------------------------------------------------------------------
(***************************************************************************)
(* What the client receives.  While the worker runs, every buffer captured *)
(* after the one sent last is still on its way or was dropped from the     *)
(* full list, and what is on its way is newer than what was sent.          *)
(***************************************************************************)
Live == wpc \in {"top", "wait", "woken", "send", "sending"}

MidBuffer == Sending /\ index > 0

Covered ==
    \A k \in 1 .. captured : last[1] < k =>
        k \in Range(curelem) \cup Range(ll_buffers) \cup overflow \cup {rpt}

Ahead ==
    /\ \A y \in Range(ll_buffers) : last[1] < y
    /\ rpt # 0 => last[1] < rpt
    /\ ~MidBuffer => last[2] = BufLen /\ \A x \in Range(curelem) : last[1] < x
    /\ MidBuffer => last[1] = Head(curelem) /\ last[2] = index

StreamInv ==
    ~late => /\ mpc = "spawnWorker" => last = <<captured, BufLen>>
             /\ Live => Covered /\ Ahead

\* What a send() of n pieces does to the stream.
SendFacts ==
    /\ wpc = "sending" /\ curelem # <<>>
    /\ \E n \in 1 .. BufLen - index :
         /\ last' = <<Head(curelem), index + n>>
         /\ \/ wpc' = "exit"
            \/ /\ index + n = BufLen /\ curelem' = Tail(curelem) /\ index' = 0
               /\ wpc' \in {"top", "send"}
            \/ /\ index + n < BufLen /\ index' = index + n /\ wpc' = "send"
               /\ UNCHANGED curelem
    /\ UNCHANGED <<mpc, rpt, captured, ll_buffers, overflow>>

LEMMA SendSteps ==
    ASSUME TypeInv, WorkerSend
    PROVE  SendFacts
  <1>1. index \in Nat /\ BufLen \in Nat /\ index <= BufLen - 1
    BY ConstantsAssumption DEF TypeInv, TypeOK, BuffersOK
  <1>2. PICK n \in 1 .. BufLen - index :
          /\ last' = <<Head(curelem), index + n>>
          /\ IF do_exit
               THEN WorkerLeaves
               ELSE IF BufferSent(n)
                      THEN /\ curelem' = Tail(curelem)
                           /\ index' = 0
                           /\ wpc' = IF Tail(curelem) = <<>> THEN "top" ELSE "send"
                      ELSE index' = index + n /\ wpc' = "send" /\ UNCHANGED curelem
    BY DEF WorkerSend
  <1>3. \/ wpc' = "exit"
        \/ /\ index + n = BufLen /\ curelem' = Tail(curelem) /\ index' = 0
           /\ wpc' \in {"top", "send"}
        \/ /\ index + n < BufLen /\ index' = index + n /\ wpc' = "send"
           /\ UNCHANGED curelem
    <2>1. CASE do_exit
      BY <1>2, <2>1 DEF WorkerLeaves
    <2>2. CASE ~do_exit
      BY <1>1, <1>2, <2>2 DEF BufferSent
    <2> QED BY <2>1, <2>2
  <1>4. /\ wpc = "sending" /\ curelem # <<>>
        /\ UNCHANGED <<mpc, rpt, captured, ll_buffers, overflow>>
    BY DEF WorkerSend, TypeInv, Sending
  <1> QED BY <1>2, <1>3, <1>4 DEF SendFacts

LEMMA StreamTypes ==
    ASSUME TypeInv
    PROVE  /\ captured \in Nat /\ index \in Nat /\ BufLen \in Nat /\ rpt \in Nat
           /\ last[1] \in Nat /\ last[1] <= captured /\ last[2] \in Nat
           /\ ll_buffers \in Seq(1 .. captured) /\ curelem \in Seq(1 .. captured)
           /\ Range(ll_buffers) \subseteq 1 .. captured
           /\ Range(curelem) \subseteq 1 .. captured
  <1>1. /\ captured \in Nat /\ index \in Nat /\ BufLen \in Nat /\ rpt \in Nat
        /\ ll_buffers \in Seq(1 .. captured) /\ curelem \in Seq(1 .. captured)
        /\ last[1] \in Nat /\ last[1] <= captured /\ last[2] \in Nat
    BY ConstantsAssumption DEF TypeInv, TypeOK, BuffersOK
  <1> QED BY <1>1, RangeType

\* The buffer being sent is the oldest that the worker holds.
LEMMA SendingHead ==
    ASSUME TypeInv, Increasing(curelem), Sending
    PROVE  /\ Head(curelem) \in Range(curelem)
           /\ Range(curelem) = {Head(curelem)} \cup Range(Tail(curelem))
           /\ \A x \in Range(Tail(curelem)) : x > Head(curelem)
  <1>1. captured \in Nat /\ curelem \in Seq(1 .. captured) /\ curelem # <<>>
    BY StreamTypes DEF TypeInv
  <1> QED BY <1>1, TailFacts

\* Only main's start of a worker makes a dead one live.
LEMMA LiveFrame ==
    ASSUME [Next]_vars, ~BufferActions, ~MainSpawnWorker
    PROVE  (Live' => Live) /\ (mpc' = "spawnWorker" => mpc = "spawnWorker")
  <1> USE DEF BufferActions, Live
  <1>1. CASE UNCHANGED <<mpc, wpc>>
    BY <1>1
  <1>2. CASE WorkerTop \/ WorkerSpuriousWakeup \/ WorkerSelect
    BY <1>2 DEF WorkerTop, WorkerSpuriousWakeup, WorkerSelect
  <1>3. CASE MainSpawnCommand \/ MainJoinWorker \/ MainJoinCommand \/ MainEndSession \/ MainExit \/ MainClose
    BY <1>3 DEF MainSpawnCommand, MainJoinWorker, MainJoinCommand, MainEndSession, MainExit, MainClose
  <1>4. CASE MainRead
    BY <1>4 DEF MainRead
  <1>5. CASE MainReturns \/ MainReadFails
    BY <1>5 DEF MainReturns, MainReadFails, MainLeaves
  <1>6. CASE MainPolls \/ MainSubmitFails
    BY <1>6 DEF MainPolls, MainSubmitFails, vars
  <1>7. CASE Callback
    BY <1>1, <1>7 DEF Callback, CaptureStep, LoseDevice, CallbackLoses, CallbackTest, CallbackStore
  <1> QED BY <1>1, <1>2, <1>3, <1>4, <1>5, <1>6, <1>7
             DEF Next, vars, Main, Worker, Command, CommandRecv, CommandError, CommandDispatch,
                 Handler, HandlerTest, HandlerStore, HandlerFlag, SignalCaught, ClientLeaves

LEMMA StreamStep ==
    ASSUME TypeInv, SessionInv, OwnerInv, StreamInv, [Next]_vars
    PROVE  StreamInv'
  <1> SUFFICES ASSUME ~late'
               PROVE  /\ mpc' = "spawnWorker" => last' = <<captured', BufLen>>
                      /\ Live' => Covered' /\ Ahead'
    BY Zenon DEF StreamInv
  <1> USE DEF Live, Ahead, MidBuffer, Sending
  <1>1. /\ captured \in Nat /\ index \in Nat /\ BufLen \in Nat /\ rpt \in Nat
        /\ last[1] \in Nat /\ last[1] <= captured /\ last[2] \in Nat
        /\ ll_buffers \in Seq(1 .. captured) /\ curelem \in Seq(1 .. captured)
        /\ Range(ll_buffers) \subseteq 1 .. captured
        /\ Range(curelem) \subseteq 1 .. captured
    BY StreamTypes
  <1>2. /\ ~late
        /\ mpc = "spawnWorker" => last = <<captured, BufLen>>
        /\ Live => Covered /\ Ahead
        /\ Ordered /\ Newest
        /\ ~Sending => curelem = <<>>
    BY LateStays DEF StreamInv, OwnerInv
  <1> USE <1>2
  <1>3. CASE CaptureStep
    <2>1. /\ captured' = captured + 1 /\ rpt' = captured + 1 /\ rpt = 0
          /\ UNCHANGED <<mpc, ll_buffers, curelem, overflow, last, index, wpc>>
      BY <1>3 DEF CaptureStep, Capture, HandlesEvents, TypeInv
    <2>2. mpc # "spawnWorker"
      BY <1>3, Zenon DEF CaptureStep, Capture, BetweenSessions
    <2>3. Range(ll_buffers') = Range(ll_buffers) /\ Range(curelem') = Range(curelem)
      BY <2>1
    <2>4. Live => Covered'
      BY <1>1, <2>1, <2>3 DEF Covered
    <2>5. Live => Ahead'
      BY <1>1, <2>1, <2>3
    <2> QED BY <2>1, <2>2, <2>4, <2>5
  <1>4. CASE Enqueue
    <2>1. /\ rpt' = 0 /\ rpt \in 1 .. captured
          /\ wpc' = wpc \/ (wpc = "wait" /\ wpc' = "woken")
          /\ UNCHANGED <<mpc, captured, curelem, index, last>>
      BY <1>4 DEF Enqueue, SignalCond, TypeInv, TypeOK, BuffersOK
    <2>2. Range(curelem') = Range(curelem)
      BY <2>1
    <2>3. /\ Range(ll_buffers) \cup {rpt} \subseteq Range(ll_buffers') \cup overflow'
          /\ Range(ll_buffers') \subseteq Range(ll_buffers) \cup {rpt}
          /\ overflow \subseteq overflow'
      <3>1. CASE Link /\ Full
        <4> DEFINE rest == Tail(ll_buffers)
        <4>1. /\ ll_buffers # <<>>
              /\ ll_buffers' = Append(rest, rpt)
              /\ overflow' = overflow \cup {Head(ll_buffers)}
          BY <3>1 DEF Link, Full
        <4>2. /\ rest \in Seq(1 .. captured)
              /\ Range(ll_buffers) = {Head(ll_buffers)} \cup Range(rest)
          BY <1>1, <4>1, TailFacts
        <4> HIDE DEF rest
        <4>3. Range(ll_buffers') = Range(rest) \cup {rpt}
          BY <1>1, <2>1, <4>1, <4>2, AppendFacts
        <4> QED BY <4>1, <4>2, <4>3
      <3>2. CASE Link /\ ~Full
        <4>1. ll_buffers' = Append(ll_buffers, rpt) /\ UNCHANGED overflow
          BY <3>2 DEF Link
        <4>2. Range(ll_buffers') = Range(ll_buffers) \cup {rpt}
          BY <1>1, <2>1, <4>1, AppendFacts
        <4> QED BY <4>1, <4>2
      <3>3. ~LinkToDrained
        BY <2>1 DEF LinkToDrained, SessionInv
      <3> QED BY <1>4, <3>1, <3>2, <3>3 DEF Enqueue
    <2>4. Live' => Covered'
      BY <2>1, <2>2, <2>3 DEF Covered
    <2>5. Live' => Ahead'
      BY <2>1, <2>2, <2>3
    <2> QED BY <2>1, <2>4, <2>5
  <1>5. CASE WorkerTake
    <2>1. /\ wpc = "woken" /\ curelem = <<>> /\ curelem' = ll_buffers /\ ll_buffers' = <<>>
          /\ index' = 0 /\ UNCHANGED <<mpc, rpt, captured, overflow, last>>
      BY <1>5 DEF WorkerTake, TakeList
    <2>2. Range(ll_buffers') = {} /\ Range(curelem) = {} /\ Range(curelem') = Range(ll_buffers)
      BY <2>1, EmptyFacts
    <2>3. Covered'
      BY <2>1, <2>2 DEF Covered
    <2>4. Ahead'
      BY <2>1, <2>2
    <2> QED BY <2>1, <2>3, <2>4
  <1>6. CASE WorkerSend
    <2>1. SendFacts
      BY <1>6, SendSteps
    <2>2. /\ wpc = "sending" /\ curelem # <<>>
          /\ UNCHANGED <<mpc, rpt, captured, ll_buffers, overflow>>
          /\ Range(ll_buffers') = Range(ll_buffers)
      BY <2>1 DEF SendFacts
    <2>3. mpc # "spawnWorker"
      BY <2>2 DEF SessionInv, SessionOver
    <2>4. PICK n \in 1 .. BufLen - index :
         /\ last' = <<Head(curelem), index + n>>
         /\ \/ wpc' = "exit"
            \/ /\ index + n = BufLen /\ curelem' = Tail(curelem) /\ index' = 0
               /\ wpc' \in {"top", "send"}
            \/ /\ index + n < BufLen /\ index' = index + n /\ wpc' = "send"
               /\ UNCHANGED curelem
      BY <2>1 DEF SendFacts
    <2>5. /\ Head(curelem) \in Range(curelem)
          /\ Range(curelem) = {Head(curelem)} \cup Range(Tail(curelem))
          /\ \A x \in Range(Tail(curelem)) : x > Head(curelem)
      BY <2>2, SendingHead DEF Ordered
    <2>6. Head(curelem) \in 1 .. captured /\ last[1] <= Head(curelem)
      <3>1. Head(curelem) \in 1 .. captured
        BY <1>1, <2>5
      <3>2. last[1] = Head(curelem) \/ last[1] < Head(curelem)
        BY <1>1, <2>2, <2>5
      <3> QED BY <1>1, <3>1, <3>2
    <2>7. /\ \A y \in Range(ll_buffers) : Head(curelem) < y
          /\ rpt # 0 => Head(curelem) < rpt
      BY <2>5 DEF Ordered, Newest
    <2>8. CASE wpc' = "exit"
      BY <2>2, <2>3, <2>8
    <2>9. CASE /\ index + n = BufLen /\ curelem' = Tail(curelem) /\ index' = 0
               /\ wpc' \in {"top", "send"}
      <3>1. Covered'
        <4>1. last'[1] = Head(curelem) /\ Range(curelem) \subseteq {Head(curelem)} \cup Range(curelem')
          BY <2>4, <2>5, <2>9
        <4>2. ASSUME NEW k \in 1 .. captured, last'[1] < k
              PROVE  k \in Range(curelem') \cup Range(ll_buffers') \cup overflow' \cup {rpt'}
          <5>1. last[1] < k /\ k # Head(curelem)
            BY <1>1, <2>6, <4>1, <4>2
          <5>2. k \in Range(curelem) \cup Range(ll_buffers) \cup overflow \cup {rpt}
            BY <2>2, <5>1 DEF Covered
          <5> QED BY <2>2, <4>1, <5>1, <5>2
        <4> QED BY <2>2, <4>2 DEF Covered
      <3>2. Ahead'
        BY <1>1, <2>2, <2>4, <2>5, <2>6, <2>7, <2>9
      <3> QED BY <2>2, <2>3, <3>1, <3>2
    <2>10. CASE /\ index + n < BufLen /\ index' = index + n /\ wpc' = "send"
                /\ UNCHANGED curelem
      <3>1. Range(curelem') = Range(curelem) /\ last'[1] = Head(curelem) /\ last'[2] = index'
        BY <2>4, <2>10
      <3>2. Covered'
        <4>1. ASSUME NEW k \in 1 .. captured, last'[1] < k
              PROVE  k \in Range(curelem') \cup Range(ll_buffers') \cup overflow' \cup {rpt'}
          <5>1. last[1] < k
            BY <1>1, <2>6, <3>1, <4>1
          <5>2. k \in Range(curelem) \cup Range(ll_buffers) \cup overflow \cup {rpt}
            BY <2>2, <5>1 DEF Covered
          <5> QED BY <2>2, <3>1, <5>2
        <4> QED BY <2>2, <4>1 DEF Covered
      <3>3. MidBuffer' /\ Head(curelem') = Head(curelem)
        BY <1>1, <2>10
      <3>4. Ahead'
        BY <2>2, <2>7, <3>1, <3>3
      <3> QED BY <2>2, <2>3, <3>2, <3>4
    <2> QED BY <2>4, <2>8, <2>9, <2>10
  <1>7. CASE WorkerTimeout \/ WorkerGivesUp \/ WorkerSendError
    <2>1. wpc' = "exit" /\ UNCHANGED <<mpc, captured, last>>
      BY <1>7 DEF WorkerTimeout, WorkerGivesUp, WorkerSendError, WorkerLeaves
    <2> QED BY <2>1
  <1>8. CASE MainDrain
    <2>1. ~Live /\ UNCHANGED wpc /\ mpc' = "free"
      BY <1>8 DEF MainDrain, SessionInv, WorkerOver
    <2> QED BY <2>1
  <1>9. CASE MainAccept
    <2>1. ~Live /\ UNCHANGED <<wpc, captured>> /\ last' = <<captured, BufLen>>
      BY <1>9 DEF MainAccept, SessionInv, SessionOver
    <2> QED BY <2>1
  <1>10. CASE MainSpawnWorker
    <2>1. mpc = "spawnWorker" /\ wpc' = "top" /\ mpc' = "spawnCommand" /\ UNCHANGED bufferVars
      BY <1>10 DEF MainSpawnWorker, bufferVars
    <2>2. last = <<captured, BufLen>> /\ ll_buffers = <<>> /\ curelem = <<>> /\ rpt = 0
      BY <2>1 DEF SessionInv, SessionOver
    <2>3. Range(ll_buffers') = {} /\ Range(curelem') = {}
      BY <2>1, <2>2, EmptyFacts DEF bufferVars
    <2>4. Covered'
      BY <1>1, <2>1, <2>2 DEF bufferVars, Covered
    <2>5. Ahead'
      BY <1>1, <2>1, <2>2, <2>3 DEF bufferVars
    <2> QED BY <2>1, <2>4, <2>5
  <1>11. CASE ~BufferActions /\ ~MainSpawnWorker
    <2>1. UNCHANGED bufferVars
      BY <1>11, BufferFrame
    <2>2. Range(ll_buffers') = Range(ll_buffers) /\ Range(curelem') = Range(curelem)
      BY <2>1 DEF bufferVars
    <2>3. Sending' <=> Sending
      BY <1>11, PlaceFrame
    <2>4. (Live' => Live) /\ (mpc' = "spawnWorker" => mpc = "spawnWorker")
      BY <1>11, LiveFrame
    <2>5. Live' => Covered'
      BY <2>1, <2>2, <2>4 DEF bufferVars, Covered
    <2>6. Live' => Ahead'
      BY <2>1, <2>2, <2>3, <2>4 DEF bufferVars
    <2> QED BY <2>1, <2>4, <2>5, <2>6 DEF bufferVars
  <1> QED BY <1>3, <1>4, <1>5, <1>6, <1>7, <1>8, <1>9, <1>10, <1>11 DEF BufferActions

\* A step that sends continues the stream.
LEMMA StreamContinues ==
    ASSUME TypeInv, OwnerInv, StreamInv, [Next]_vars, ~late, mpc # "select", last' # last
    PROVE  IF last'[1] = last[1]
             THEN index = last[2] /\ last'[2] > last[2]
             ELSE /\ index = 0 /\ last[2] = BufLen
                  /\ last'[1] > last[1]
                  /\ last[1] + 1 .. last'[1] - 1 \subseteq overflow
  <1>1. WorkerSend
    <2>1. BufferActions
      BY BufferFrame DEF bufferVars
    <2> QED BY <2>1 DEF BufferActions, CaptureStep, Capture, Enqueue, MainDrain, MainAccept, WorkerTimeout,
                        WorkerTake, WorkerGivesUp, WorkerSendError
  <1>2. SendFacts
    BY <1>1, SendSteps
  <1>3. PICK n \in 1 .. BufLen - index : last' = <<Head(curelem), index + n>>
    BY <1>2 DEF SendFacts
  <1>4. Ordered /\ Newest
    BY DEF OwnerInv
  <1>5. /\ captured \in Nat /\ index \in Nat /\ BufLen \in Nat /\ rpt \in Nat
        /\ last[1] \in Nat /\ last[1] <= captured /\ last[2] \in Nat
        /\ Range(curelem) \subseteq 1 .. captured
        /\ Range(ll_buffers) \subseteq 1 .. captured
    BY StreamTypes
  <1>6. /\ wpc = "sending" /\ Sending /\ Head(curelem) \in Range(curelem)
        /\ Range(curelem) = {Head(curelem)} \cup Range(Tail(curelem))
        /\ \A x \in Range(Tail(curelem)) : x > Head(curelem)
    BY <1>2, <1>4, SendingHead DEF SendFacts, Sending, Ordered
  <1>7. Covered /\ Ahead
    BY <1>6 DEF StreamInv, Live
  <1>8. CASE index > 0
    <2>1. last[1] = Head(curelem) /\ last[2] = index
      BY <1>6, <1>7, <1>8 DEF Ahead, MidBuffer
    <2> QED BY <1>3, <1>5, <2>1
  <1>9. CASE index = 0
    <2>1. last[2] = BufLen /\ last[1] < Head(curelem)
      BY <1>6, <1>7, <1>9 DEF Ahead, MidBuffer
    <2>2. ASSUME NEW k \in last[1] + 1 .. Head(curelem) - 1 PROVE k \in overflow
      <3>1. k \in 1 .. captured /\ last[1] < k /\ k < Head(curelem) /\ Head(curelem) \in Nat
        BY <1>5, <1>6
      <3>2. k \notin Range(curelem)
        BY <1>5, <1>6, <3>1
      <3>3. k \notin Range(ll_buffers)
        <4>1. \A y \in Range(ll_buffers) : Head(curelem) < y
          BY <1>4, <1>6 DEF Ordered
        <4> QED BY <1>5, <3>1, <4>1
      <3>4. k # rpt
        BY <1>4, <1>5, <1>6, <3>1 DEF Newest
      <3> QED BY <1>7, <3>1, <3>2, <3>3, <3>4 DEF Covered
    <2> QED BY <1>3, <1>5, <1>9, <2>1, <2>2
  <1> QED BY <1>5, <1>8, <1>9

\* Every client receives whole buffers, in order, none twice and none of an earlier
\* client's, and misses only buffers that the full list dropped, until a callback outlives
\* its session.
THEOREM StreamKept == Spec => StreamIntact
  <1>1. Init => StreamInv
    BY DEF Init, StreamInv, Live
  <1>2. TypeInv /\ SessionInv /\ OwnerInv /\ [Next]_vars => OwnerInv'
    BY OwnerStep
  <1>3. TypeInv /\ SessionInv /\ OwnerInv /\ StreamInv /\ [Next]_vars => StreamInv'
    BY StreamStep
  <1>4. TypeInv /\ OwnerInv /\ StreamInv /\ [Next]_vars =>
          [ ~late /\ mpc # "select" /\ last' # last =>
              IF last'[1] = last[1]
                THEN index = last[2] /\ last'[2] > last[2]
                ELSE /\ index = 0 /\ last[2] = BufLen
                     /\ last'[1] > last[1]
                     /\ last[1] + 1 .. last'[1] - 1 \subseteq overflow ]_vars
    BY StreamContinues
  <1> QED BY <1>1, <1>2, <1>3, <1>4, TypeInit, TypeStep, SessionInit, SessionStep, OwnerInit, PTL
             DEF Spec, StreamIntact

-----------------------------------------------------------------------------
(***************************************************************************)
(* The server as a caller of the library.  reading and sawRunning of       *)
(* AsyncReadAPI are the places of main, of the handlers and of a callback  *)
(* here.  command_worker is in sighandler() or runs a callback, not both.  *)
(***************************************************************************)
Saw == {t \in Callers \cup Handlers :
          (t \in Callers /\ hpc[t] = "store") \/ (t = runner /\ kpc = "store")}

LEMMA LibFrame ==
    ASSUME UNCHANGED <<async_status, dev_lost>>, Saw' = Saw, Streaming' = Streaming
    PROVE  UNCHANGED Lib!vars
  BY DEF Lib!vars, Saw

\* A handler that is entered has not tested the status yet.
LEMMA EnterFrame ==
    ASSUME ControlOK, NEW t \in Callers, hpc[t] # "store", Enter(t), UNCHANGED <<runner, kpc>>
    PROVE  Saw' = Saw
  <1>1. \A u \in Callers : hpc'[u] = "store" <=> hpc[u] = "store"
    BY DEF Enter, ControlOK
  <1> QED BY <1>1 DEF Saw

LEMMA RunnerIdle ==
    ASSUME TypeInv, SessionInv, RunnerInv, runner \in Callers
    PROVE  hpc[runner] = "idle"
  BY DEF SessionInv, RunnerInv, TypeInv, TypeOK, ControlOK, Callers

LEMMA HandlerLibSteps ==
    ASSUME ControlOK, SessionInv, RunnerInv, ~DevFreed, NEW t \in Callers, Handler(t), runner \in Callers => hpc[runner] = "idle"
    PROVE  [Lib!Next]_(Lib!vars)
  <1>1. Streaming' = Streaming /\ UNCHANGED <<dev_lost, runner, kpc>>
    BY DEF Handler, HandlerTest, HandlerStore, HandlerFlag, Streaming
  <1>2. t # runner
    BY DEF Handler, HandlerTest, HandlerStore, HandlerFlag
  <1>3. CASE HandlerTest(t)
    <2>1. /\ hpc[t] = "test" /\ UNCHANGED async_status
          /\ hpc' = [hpc EXCEPT ![t] = IF async_status = "RUNNING" THEN "store" ELSE AfterCancel]
      BY <1>3 DEF HandlerTest
    <2>2. Saw' = IF async_status = "RUNNING" THEN Saw \cup {t} ELSE Saw
      BY <1>1, <2>1 DEF ControlOK, AfterCancel, Saw
    <2>3. t \notin Saw
      BY <1>2, <2>1 DEF Saw
    <2>4. Lib!CancelTest(t)
      BY <1>1, <2>1, <2>2, <2>3 DEF Lib!CancelTest, Saw
    <2> QED BY <2>4 DEF Lib!Next
  <1>4. CASE HandlerStore(t)
    <2>1. /\ hpc[t] = "store" /\ async_status' = "CANCELING"
          /\ hpc' = [hpc EXCEPT ![t] = AfterCancel]
      BY <1>4 DEF HandlerStore
    <2>2. Saw' = Saw \ {t} /\ t \in Saw
      BY <1>1, <1>2, <2>1 DEF ControlOK, AfterCancel, Saw
    <2>3. Lib!CancelStore(t)
      BY <1>1, <2>1, <2>2 DEF Lib!CancelStore, Saw
    <2> QED BY <2>3 DEF Lib!Next
  <1>5. CASE HandlerFlag(t)
    <2>1. /\ UNCHANGED async_status
          /\ hpc' = [hpc EXCEPT ![t] = AfterFlag] /\ hpc[t] = "flag"
      BY <1>5 DEF HandlerFlag
    <2>2. Saw' = Saw
      BY <1>1, <2>1 DEF ControlOK, AfterFlag, Saw
    <2> QED BY <1>1, <2>1, <2>2, LibFrame
  <1> QED BY <1>3, <1>4, <1>5 DEF Handler

\* A callback on another thread that finds the device lost.
LEMMA CallbackLibSteps ==
    ASSUME TypeInv, SessionInv, RunnerInv, ~DevFreed,
           (\E t \in Handlers : CallbackLoses(t)) \/ CallbackTest \/ CallbackStore
    PROVE  [Lib!Next]_(Lib!vars)
  <1>1. Streaming' = Streaming /\ UNCHANGED hpc
    BY DEF CallbackLoses, CallbackTest, CallbackStore, Streaming
  <1>2. CASE \E t \in Handlers : CallbackLoses(t)
    <2>1. /\ dev_lost' = TRUE /\ UNCHANGED async_status
          /\ kpc # "store" /\ kpc' # "store"
      BY <1>2 DEF CallbackLoses, HandlesEvents, TypeInv
    <2>2. Saw' = Saw
      BY <1>1, <2>1 DEF Saw
    <2>3. Lib!HandlerLoses
      BY <1>1, <2>1, <2>2 DEF Lib!HandlerLoses, Handlers, Saw
    <2> QED BY <2>3 DEF Lib!Next
  <1>3. CASE CallbackTest \/ CallbackStore
    <2>1. runner \in Handlers /\ (runner \in Callers => hpc[runner] = "idle") /\ UNCHANGED dev_lost
      <3>1. kpc \in {"test", "store"} /\ UNCHANGED dev_lost
        BY <1>3 DEF CallbackTest, CallbackStore
      <3>2. runner \in Handlers
        BY <3>1 DEF TypeInv, TypeOK, ControlOK, RunnerInv, Handlers
      <3> QED BY <3>1, <3>2, RunnerIdle
    <2>2. PICK u \in Handlers : u = runner
      BY <2>1
    <2>3. CASE CallbackTest
      <3>1. /\ kpc = "test" /\ UNCHANGED async_status
            /\ \/ async_status = "RUNNING" /\ kpc' = "store" /\ UNCHANGED runner
               \/ async_status # "RUNNING" /\ kpc' = "none"
        BY <2>3 DEF CallbackTest
      <3>2. Saw' = IF async_status = "RUNNING" THEN Saw \cup {u} ELSE Saw
        BY <1>1, <2>1, <2>2, <3>1 DEF Saw
      <3>3. u \notin Saw
        BY <2>1, <2>2, <3>1 DEF Saw
      <3>4. Lib!CancelTest(u)
        BY <1>1, <2>1, <3>1, <3>2, <3>3 DEF Lib!CancelTest, Saw
      <3> QED BY <3>4 DEF Lib!Next
    <2>4. CASE CallbackStore
      <3>1. kpc = "store" /\ kpc' = "none" /\ async_status' = "CANCELING"
        BY <2>4 DEF CallbackStore
      <3>2. Saw' = Saw \ {u} /\ u \in Saw
        BY <1>1, <2>1, <2>2, <3>1 DEF Saw
      <3>3. Lib!CancelStore(u)
        BY <1>1, <2>1, <3>1, <3>2 DEF Lib!CancelStore, Saw
      <3> QED BY <3>3 DEF Lib!Next
    <2> QED BY <1>3, <2>3, <2>4
  <1> QED BY <1>2, <1>3

LEMMA LibSteps ==
    ASSUME TypeInv, SessionInv, RunnerInv, [Next]_vars, ~DevFreed
    PROVE  [Lib!Next]_(Lib!vars)
  <1> USE DEF Streaming
  <1>1. ControlOK /\ "worker" \in Callers /\ "command" \in Callers /\ "ctrlc" \in Callers
    BY DEF TypeInv, TypeOK, Callers
  <1>2. ASSUME NEW t \in Callers, Handler(t) PROVE [Lib!Next]_(Lib!vars)
    BY <1>1, <1>2, RunnerIdle, HandlerLibSteps
  <1>3. CASE SignalCaught
    <2>1. hpc["ctrlc"] # "store" /\ Enter("ctrlc") /\ UNCHANGED <<mpc, runner, kpc, async_status, dev_lost>>
      BY <1>3 DEF SignalCaught
    <2> QED BY <1>1, <2>1, EnterFrame, LibFrame
  <1>4. CASE WorkerLeaves /\ UNCHANGED <<mpc, runner, kpc, async_status, dev_lost>> /\ wpc # "exit"
    <2>1. hpc["worker"] # "store" /\ Enter("worker")
      BY <1>4 DEF WorkerLeaves, SessionInv
    <2> QED BY <1>1, <1>4, <2>1, EnterFrame, LibFrame
  <1>5. CASE CommandLeaves /\ UNCHANGED <<mpc, runner, kpc, async_status, dev_lost>> /\ cpc # "exit"
    <2>1. hpc["command"] # "store" /\ Enter("command")
      BY <1>5 DEF CommandLeaves, SessionInv
    <2> QED BY <1>1, <1>5, <2>1, EnterFrame, LibFrame
  <1>6. CASE UNCHANGED <<async_status, dev_lost, hpc, runner, kpc>> /\ Streaming' = Streaming
    BY <1>6, LibFrame DEF Saw
  <1>7. CASE WorkerTimeout \/ WorkerGivesUp \/ WorkerSendError \/ WorkerSend
    <2>1. \/ WorkerLeaves /\ UNCHANGED <<mpc, runner, kpc, async_status, dev_lost>> /\ wpc # "exit"
          \/ UNCHANGED <<mpc, runner, kpc, async_status, dev_lost, hpc>>
      BY <1>7 DEF WorkerTimeout, WorkerGivesUp, WorkerSendError, WorkerSend
    <2> QED BY <1>4, <1>6, <2>1
  <1>8. CASE Command
    <2>1. \/ CommandLeaves /\ UNCHANGED <<mpc, runner, kpc, async_status, dev_lost>> /\ cpc # "exit"
          \/ UNCHANGED <<mpc, runner, kpc, async_status, dev_lost, hpc>>
      BY <1>8 DEF Command, CommandRecv, CommandError, CommandDispatch
    <2> QED BY <1>5, <1>6, <2>1
  <1>9. CASE MainRead \/ MainReturns \/ MainReadFails \/ LoseDevice \/ MainSubmitFails
    <2>1. CASE MainRead
      BY <2>1 DEF MainRead, Lib!RefuseRead, Lib!Next
    <2>2. CASE MainReturns
      BY <2>2 DEF MainReturns, Lib!Next
    <2>3. CASE MainReadFails
      BY <2>3 DEF MainReadFails, Lib!Next
    <2>4. CASE LoseDevice \/ MainSubmitFails
      BY <2>4 DEF LoseDevice, MainSubmitFails, Lib!Next
    <2> QED BY <1>9, <2>1, <2>2, <2>3, <2>4
  <1>10. CASE CaptureStep \/ Enqueue
    <2>1. UNCHANGED <<mpc, async_status, dev_lost, hpc>> /\ kpc # "store" /\ kpc' # "store"
      BY <1>10 DEF CaptureStep, Capture, HandlesEvents, Enqueue, TypeInv
    <2>2. Saw' = Saw
      BY <2>1 DEF Saw
    <2> QED BY <2>1, <2>2, LibFrame
  <1>11. CASE (\E t \in Handlers : CallbackLoses(t)) \/ CallbackTest \/ CallbackStore
    BY <1>11, CallbackLibSteps
  <1>12. CASE \/ MainAccept \/ MainSpawnWorker \/ MainSpawnCommand \/ MainJoinWorker \/ MainJoinCommand
              \/ MainDrain \/ MainEndSession \/ MainExit \/ MainClose
    <2>1. UNCHANGED <<async_status, dev_lost, hpc, runner, kpc>> /\ Streaming' = Streaming
      BY <1>12
         DEF MainAccept, MainSpawnWorker, MainSpawnCommand, MainJoinWorker, MainJoinCommand, MainDrain,
             MainEndSession, MainExit, MainClose
    <2> QED BY <1>6, <2>1
  <1>13. CASE WorkerTop \/ WorkerSpuriousWakeup \/ WorkerTake \/ WorkerSelect \/ ClientLeaves
              \/ UNCHANGED vars
    <2>1. UNCHANGED <<async_status, dev_lost, hpc, runner, kpc, mpc>>
      BY <1>13 DEF WorkerTop, WorkerSpuriousWakeup, WorkerTake, WorkerSelect, ClientLeaves, vars
    <2> QED BY <1>6, <2>1
  <1> QED BY <1>2, <1>3, <1>7, <1>8, <1>9, <1>10, <1>11, <1>12, <1>13
             DEF Next, Main, Worker, Callback, CaptureStep, MainPolls

\* For as long as rtlsdr_close() has not freed the device, the server does nothing to the
\* asynchronous read that AsyncReadAPI does not allow, whichever threads run its callbacks,
\* those that outlive a session included, so that what is proved of librtlsdr's event loop
\* applies to it.  After that a handler or a callback that is still running reads memory
\* that was given back.
THEOREM CallsAsAPI == Spec => Lib!Init /\ [][DevFreed \/ [Lib!Next]_(Lib!vars)]_vars
  <1>1. Init => Lib!Init
    BY DEF Init, Lib!Init, Streaming, Callers, Handlers
  <1>2. TypeInv /\ SessionInv /\ RunnerInv /\ [Next]_vars => [DevFreed \/ [Lib!Next]_(Lib!vars)]_vars
    BY LibSteps
  <1>3. TypeInv /\ SessionInv /\ RunnerInv /\ [Next]_vars => RunnerInv'
    BY RunnerStep
  <1> QED BY <1>1, <1>2, <1>3, TypeInit, TypeStep, SessionInit, SessionStep, RunnerInit, PTL DEF Spec
=============================================================================
