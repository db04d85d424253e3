-------------------------- MODULE AirspyTcpProofs ---------------------------
(***************************************************************************)
(* Theorems about AirspyTcp, for every llbuf_num, every length of a buffer *)
(* and every bound, and their proofs.                                      *)
(***************************************************************************)
EXTENDS AirspyTcp, TLAPS

USE DEF mainVars, rxVars, listVars, workerVars, handlerVars

-----------------------------------------------------------------------------
(***************************************************************************)
(* What Append and Tail do to the buffers of a list (Range) and to its     *)
(* order (Increasing).                                                     *)
(***************************************************************************)
LEMMA SeqMono ==
    ASSUME NEW m \in Nat, NEW n \in Nat, m <= n, NEW s \in Seq(1 .. m)
    PROVE  s \in Seq(1 .. n)
  OBVIOUS

LEMMA RangeIs ==
    ASSUME NEW n \in Nat, NEW s \in Seq(1 .. n)
    PROVE  Range(s) = {s[i] : i \in 1 .. Len(s)}
  BY DEF Range

LEMMA RangeType ==
    ASSUME NEW n \in Nat, NEW s \in Seq(1 .. n)
    PROVE  Range(s) \subseteq 1 .. n
  BY DEF Range

LEMMA HeadTail ==
    ASSUME NEW n \in Nat, NEW s \in Seq(1 .. n), s # <<>>
    PROVE  /\ Head(s) \in 1 .. n
           /\ Tail(s) \in Seq(1 .. n)
           /\ Len(Tail(s)) = Len(s) - 1
           /\ \A i \in 1 .. Len(s) - 1 : Tail(s)[i] = s[i + 1]
           /\ Head(s) = s[1]
           /\ Len(s) \in Nat \ {0}
  OBVIOUS

LEMMA EmptyFacts == Range(<<>>) = {} /\ Increasing(<<>>)
  BY DEF Range, Increasing

LEMMA TailFacts ==
    ASSUME NEW n \in Nat, NEW s \in Seq(1 .. n), s # <<>>
    PROVE  /\ Tail(s) \in Seq(1 .. n)
           /\ Range(s) = {Head(s)} \cup Range(Tail(s))
           /\ Increasing(s) => Increasing(Tail(s))
           /\ Increasing(s) => \A x \in Range(Tail(s)) : x > Head(s)
  <1>1. /\ Len(s) \in Nat \ {0} /\ Len(Tail(s)) = Len(s) - 1
        /\ \A i \in 1 .. Len(s) - 1 : Tail(s)[i] = s[i + 1]
        /\ Head(s) = s[1] /\ Tail(s) \in Seq(1 .. n)
    BY HeadTail
  <1>2. Range(s) \subseteq {Head(s)} \cup Range(Tail(s))
    <2> SUFFICES ASSUME NEW i \in 1 .. Len(s) PROVE s[i] \in {Head(s)} \cup Range(Tail(s))
      BY DEF Range
    <2>1. CASE i = 1
      BY <1>1, <2>1
    <2>2. CASE i # 1
      <3>1. i - 1 \in 1 .. Len(Tail(s)) /\ Tail(s)[i - 1] = s[i]
        BY <1>1, <2>2
      <3> QED BY <1>1, <3>1, RangeIs
    <2> QED BY <2>1, <2>2
  <1>3. {Head(s)} \cup Range(Tail(s)) \subseteq Range(s)
    BY <1>1 DEF Range
  <1>4. ASSUME Increasing(s) PROVE Increasing(Tail(s))
    <2> SUFFICES ASSUME NEW j \in 1 .. Len(Tail(s)), NEW i \in 1 .. j - 1
                 PROVE  Tail(s)[i] < Tail(s)[j]
      BY DEF Increasing
    <2>1. /\ i + 1 \in 1 .. Len(s) /\ j + 1 \in 1 .. Len(s) /\ i + 1 < j + 1
          /\ Tail(s)[i] = s[i + 1] /\ Tail(s)[j] = s[j + 1]
      BY <1>1
    <2> QED BY <1>4, <2>1 DEF Increasing
  <1>5. ASSUME Increasing(s), NEW i \in 1 .. Len(Tail(s)) PROVE Tail(s)[i] > Head(s)
    <2>1. i + 1 \in 1 .. Len(s) /\ 1 \in 1 .. Len(s) /\ 1 < i + 1 /\ Tail(s)[i] = s[i + 1]
      BY <1>1
    <2>2. s[1] < s[i + 1]
      BY <1>5, <2>1 DEF Increasing
    <2>3. s[1] \in Nat /\ s[i + 1] \in Nat
      BY <2>1
    <2> QED BY <1>1, <2>1, <2>2, <2>3
  <1>6. ASSUME Increasing(s), NEW x \in Range(Tail(s)) PROVE x > Head(s)
    <2>1. Range(Tail(s)) = {Tail(s)[i] : i \in 1 .. Len(Tail(s))}
      BY <1>1, RangeIs
    <2>2. PICK i \in 1 .. Len(Tail(s)) : x = Tail(s)[i]
      BY <1>6, <2>1
    <2> QED BY <1>5, <1>6, <2>2
  <1>7. Range(s) = {Head(s)} \cup Range(Tail(s))
    BY <1>2, <1>3
  <1> QED BY <1>1, <1>4, <1>6, <1>7

LEMMA BeforeLast ==
    ASSUME NEW m \in Nat, NEW k, k = m + 1, NEW j \in 1 .. k, j # k
    PROVE  j \in 1 .. m
  OBVIOUS

LEMMA IncreasingAt ==
    ASSUME NEW s, Increasing(s), NEW i \in 1 .. Len(s), NEW j \in 1 .. Len(s), i < j
    PROVE  s[i] < s[j]
  BY DEF Increasing

LEMMA AppendFacts ==
    ASSUME NEW n \in Nat, NEW s \in Seq(1 .. n), NEW x \in 1 .. n
    PROVE  /\ Range(Append(s, x)) = Range(s) \cup {x}
           /\ Increasing(s) /\ (\A y \in Range(s) : y < x) => Increasing(Append(s, x))
  <1> DEFINE t == Append(s, x)
  <1>1. /\ Len(s) \in Nat /\ Len(t) = Len(s) + 1
        /\ \A i \in 1 .. Len(s) : t[i] = s[i]
        /\ t[Len(s) + 1] = x
    OBVIOUS
  <1> HIDE DEF t
  <1>2. Range(t) \subseteq Range(s) \cup {x}
    <2> SUFFICES ASSUME NEW i \in 1 .. Len(t) PROVE t[i] \in Range(s) \cup {x}
      BY DEF Range
    <2>1. CASE i = Len(s) + 1
      BY <1>1, <2>1
    <2>2. CASE i # Len(s) + 1
      <3>1. i \in 1 .. Len(s)
        BY <1>1, <2>2
      <3> QED BY <1>1, <3>1 DEF Range
    <2> QED BY <2>1, <2>2
  <1>3. Range(s) \cup {x} \subseteq Range(t)
    BY <1>1 DEF Range
  <1>4. ASSUME Increasing(s), \A y \in Range(s) : y < x PROVE Increasing(t)
    <2> SUFFICES ASSUME NEW j \in 1 .. Len(t), NEW i \in 1 .. j - 1 PROVE t[i] < t[j]
      BY DEF Increasing
    <2>1. i \in 1 .. Len(s) /\ t[i] = s[i] /\ s[i] \in Range(s)
      BY <1>1 DEF Range
    <2>2. CASE j = Len(s) + 1
      BY <1>1, <1>4, <2>1, <2>2
    <2>3. CASE j # Len(s) + 1
      <3>1. j \in 1 .. Len(s) /\ t[j] = s[j]
        BY <1>1, <2>3, BeforeLast
      <3>2. s[i] < s[j]
        BY <1>4, <2>1, <3>1, IncreasingAt
      <3> QED BY <2>1, <3>1, <3>2
    <2> QED BY <2>2, <2>3
  <1> QED BY <1>2, <1>3, <1>4 DEF t

-----------------------------------------------------------------------------
(***************************************************************************)
(* Type correctness.  A tcp_worker that sends has a buffer to send:        *)
(* without this the type invariant is not inductive.                       *)
(***************************************************************************)
TypeInv ==
    /\ TypeOK
    /\ wpc = "send" => curelem # 0

LEMMA TypeInit == Init => TypeInv
  <1> SUFFICES ASSUME Init PROVE TypeInv
    OBVIOUS
  <1>1. ControlOK
    BY DEF Init, ControlOK, Callers
  <1>2. BuffersOK
    BY ConstantsAssumption DEF Init, BuffersOK
  <1>3. CountsOK
    BY ConstantsAssumption DEF Init, CountsOK
  <1> QED BY <1>1, <1>2, <1>3 DEF Init, TypeInv, TypeOK

\* What a step of main does to the threads' places and flags.
LEMMA MainControl ==
    ASSUME ControlOK, Main
    PROVE  ControlOK'
  <1> USE DEF ControlOK
  <1>1. CASE MainAccept \/ MainGreet
    BY <1>1 DEF MainAccept, MainGreet
  <1>2. CASE MainSpawnWorker \/ MainSpawnCommand
    BY <1>2 DEF MainSpawnWorker, MainSpawnCommand
  <1>3. CASE MainStartRx \/ MainStopRx
    BY <1>3 DEF MainStartRx, MainStopRx
  <1>4. CASE MainJoinWorker \/ MainJoinCommand
    BY <1>4 DEF MainJoinWorker, MainJoinCommand
  <1>5. CASE MainEndSession
    BY <1>5 DEF MainEndSession
  <1>6. CASE MainExit \/ MainClose
    BY <1>6 DEF MainExit, MainClose
  <1>7. CASE MainPolls
    BY <1>7 DEF MainPolls, vars
  <1> QED BY <1>1, <1>2, <1>3, <1>4, <1>5, <1>6, <1>7 DEF Main

LEMMA ControlStep ==
    ASSUME ControlOK, [Next]_vars
    PROVE  ControlOK'
  <1> USE DEF ControlOK, Callers, Enter
  <1>1. CASE UNCHANGED vars
    BY <1>1 DEF vars
  <1>2. ASSUME NEW t \in Callers, Handler(t) PROVE ControlOK'
    <2>1. CASE HandlerFlag(t)
      BY <2>1 DEF HandlerFlag
    <2>2. CASE HandlerSignal(t)
      BY <2>2 DEF HandlerSignal, Wake
    <2> QED BY <1>2, <2>1, <2>2 DEF Handler
  <1>3. CASE SignalCaught \/ ClientLeaves
    BY <1>3 DEF SignalCaught, ClientLeaves
  <1>4. CASE Worker
    <2>1. CASE WorkerExits \/ WorkerTake \/ WorkerTests \/ WorkerWaits \/ WorkerSpuriousWakeup
      BY <2>1 DEF WorkerExits, WorkerTake, WorkerTests, WorkerWaits, WorkerSpuriousWakeup
    <2>2. CASE WorkerSend
      BY <2>2 DEF WorkerSend, WorkerLeaves
    <2>3. CASE WorkerSendError
      BY <2>3 DEF WorkerSendError, WorkerLeaves
    <2> QED BY <1>4, <2>1, <2>2, <2>3 DEF Worker
  <1>5. CASE Command
    BY <1>5 DEF Command, CommandRecv, CommandError, CommandDispatch, CommandLeaves
  <1>6. CASE Capture
    BY <1>6 DEF Capture
  <1>7. CASE Enqueue
    BY <1>7 DEF Enqueue, Wake
  <1>8. CASE Main
    BY <1>8, MainControl
  <1> QED BY <1>1, <1>2, <1>3, <1>4, <1>5, <1>6, <1>7, <1>8 DEF Next

LEMMA CountsStep ==
    ASSUME CountsOK, [Next]_vars
    PROVE  CountsOK'
  <1> USE ConstantsAssumption DEF CountsOK
  <1>1. CASE UNCHANGED vars
    BY <1>1 DEF vars
  <1>2. ASSUME NEW t \in Callers, Handler(t) PROVE CountsOK'
    BY <1>2 DEF Handler, HandlerFlag, HandlerSignal
  <1>3. CASE SignalCaught \/ ClientLeaves
    BY <1>3 DEF SignalCaught, ClientLeaves
  <1>4. CASE Worker
    BY <1>4 DEF Worker, WorkerExits, WorkerTake, WorkerTests, WorkerWaits, WorkerSpuriousWakeup,
                WorkerSend, WorkerSendError
  <1>5. CASE Command
    BY <1>5 DEF Command, CommandRecv, CommandError, CommandDispatch
  <1>6. CASE Capture \/ Enqueue
    BY <1>6 DEF Capture, Enqueue
  <1>7. CASE Main
    BY <1>7 DEF Main, MainAccept, MainGreet, MainSpawnWorker, MainSpawnCommand, MainStartRx,
                MainJoinWorker, MainJoinCommand, MainStopRx, MainEndSession, MainExit, MainClose,
                MainPolls, vars
  <1> QED BY <1>1, <1>2, <1>3, <1>4, <1>5, <1>6, <1>7 DEF Next

-----------------------------------------------------------------------------
(***************************************************************************)
(* The steps that touch the buffers are few.                               *)
(***************************************************************************)
bufferVars == <<ls_buffer, global_numq, rpt, captured, curelem, index, last, freed, overflow>>

BufferActions ==
    \/ Capture \/ Enqueue \/ MainEndSession \/ MainAccept
    \/ WorkerTake \/ WorkerSend \/ WorkerSendError

LEMMA BufferFrame ==
    ASSUME [Next]_vars, ~BufferActions
    PROVE  UNCHANGED bufferVars
  <1> USE DEF bufferVars, BufferActions
  <1>1. CASE UNCHANGED vars
    BY <1>1 DEF vars
  <1>2. ASSUME NEW t \in Callers, Handler(t) PROVE UNCHANGED bufferVars
    BY <1>2 DEF Handler, HandlerFlag, HandlerSignal
  <1>3. CASE SignalCaught \/ ClientLeaves
    BY <1>3 DEF SignalCaught, ClientLeaves
  <1>4. CASE WorkerExits \/ WorkerTests \/ WorkerWaits \/ WorkerSpuriousWakeup
    BY <1>4 DEF WorkerExits, WorkerTests, WorkerWaits, WorkerSpuriousWakeup
  <1>5. CASE Command
    BY <1>5 DEF Command, CommandRecv, CommandError, CommandDispatch
  <1>6. CASE MainGreet \/ MainSpawnWorker \/ MainSpawnCommand \/ MainStartRx \/ MainJoinWorker
             \/ MainJoinCommand \/ MainStopRx \/ MainExit \/ MainClose \/ MainPolls
    BY <1>6 DEF MainGreet, MainSpawnWorker, MainSpawnCommand, MainStartRx, MainJoinWorker,
                MainJoinCommand, MainStopRx, MainExit, MainClose, MainPolls, vars
  <1> QED BY <1>1, <1>2, <1>3, <1>4, <1>5, <1>6 DEF Next, Main, Worker

\* What the callback's critical section does to the list: it appends the new buffer,
\* and drops the oldest when the list is full.
EnqueueFacts ==
    /\ rpt # 0 /\ rpt' = 0
    /\ \/ /\ ~Full
          /\ ls_buffer' = Append(ls_buffer, rpt)
          /\ global_numq' = global_numq + 1
          /\ UNCHANGED <<freed, overflow>>
       \/ /\ Full /\ ls_buffer # <<>>
          /\ ls_buffer' = Append(Tail(ls_buffer), rpt)
          /\ freed' = freed \cup {Head(ls_buffer)}
          /\ overflow' = overflow \cup {Head(ls_buffer)}
          /\ UNCHANGED global_numq
       \/ /\ Full /\ ls_buffer = <<>>
          /\ ls_buffer' = <<>>
          /\ freed' = freed \cup {rpt}
          /\ overflow' = overflow \cup {rpt}
          /\ UNCHANGED global_numq
    /\ wpc' = wpc \/ (wpc = "wait" /\ wpc' = "lock")
    /\ UNCHANGED <<mpc, streaming, hpc, cpc, captured, curelem, index, last>>

LEMMA AppendHeadTail ==
    ASSUME NEW n \in Nat, NEW s \in Seq(1 .. n), NEW x \in 1 .. n
    PROVE  /\ s # <<>> => Head(Append(s, x)) = Head(s) /\ Tail(Append(s, x)) = Append(Tail(s), x)
           /\ s = <<>> => Head(Append(s, x)) = x /\ Tail(Append(s, x)) = <<>>
  OBVIOUS

LEMMA EnqueueSteps ==
    ASSUME TypeInv, Enqueue
    PROVE  EnqueueFacts
  <1>1. /\ captured \in Nat /\ ls_buffer \in Seq(1 .. captured) /\ rpt \in 1 .. captured
        /\ rpt # 0
    BY ConstantsAssumption DEF TypeInv, TypeOK, BuffersOK, Enqueue
  <1>2. /\ rpt' = 0
        /\ wpc' = wpc \/ (wpc = "wait" /\ wpc' = "lock")
        /\ UNCHANGED <<mpc, streaming, hpc, cpc, captured, curelem, index, last>>
    BY DEF Enqueue, Wake
  <1>3. CASE ~Full
    BY <1>1, <1>2, <1>3 DEF Enqueue, EnqueueFacts
  <1>4. CASE Full
    <2> DEFINE list == Append(ls_buffer, rpt)
    <2>1. /\ ls_buffer' = Tail(list)
          /\ freed' = freed \cup {Head(list)}
          /\ overflow' = overflow \cup {Head(list)}
          /\ UNCHANGED global_numq
      BY <1>4 DEF Enqueue
    <2>2. /\ ls_buffer # <<>> => Head(list) = Head(ls_buffer) /\ Tail(list) = Append(Tail(ls_buffer), rpt)
          /\ ls_buffer = <<>> => Head(list) = rpt /\ Tail(list) = <<>>
      BY <1>1, AppendHeadTail
    <2> HIDE DEF list
    <2>3. CASE ls_buffer # <<>>
      <3>1. /\ ls_buffer' = Append(Tail(ls_buffer), rpt)
            /\ freed' = freed \cup {Head(ls_buffer)}
            /\ overflow' = overflow \cup {Head(ls_buffer)}
        BY <2>1, <2>2, <2>3
      <3> QED BY <1>1, <1>2, <1>4, <2>1, <2>3, <3>1 DEF EnqueueFacts
    <2>4. CASE ls_buffer = <<>>
      <3>1. ls_buffer' = <<>> /\ freed' = freed \cup {rpt} /\ overflow' = overflow \cup {rpt}
        BY <2>1, <2>2, <2>4
      <3> QED BY <1>1, <1>2, <1>4, <2>1, <2>4, <3>1 DEF EnqueueFacts
    <2> QED BY <2>3, <2>4
  <1> QED BY <1>3, <1>4

\* What a send() of n pieces, and the tests after it, do.
SendFacts ==
    /\ wpc = "send" /\ curelem # 0
    /\ \E n \in 0 .. BufLen - index :
         /\ last' = IF n = 0 THEN last ELSE <<curelem, index + n>>
         /\ \/ wpc' = "exit" /\ curelem' = 0 /\ index' = 0 /\ UNCHANGED freed
            \/ /\ index + n = BufLen /\ n > 0
               /\ wpc' = "lock" /\ curelem' = 0 /\ index' = 0 /\ freed' = freed \cup {curelem}
            \/ /\ index + n < BufLen
               /\ index' = index + n /\ UNCHANGED <<wpc, curelem, freed>>
    /\ UNCHANGED <<mpc, streaming, rpt, captured, ls_buffer, global_numq, overflow, cpc>>

LEMMA SendSteps ==
    ASSUME TypeInv, WorkerSend
    PROVE  SendFacts
  <1>1. index \in Nat /\ BufLen \in Nat /\ index <= BufLen - 1
    BY ConstantsAssumption DEF TypeInv, TypeOK, BuffersOK
  <1>2. PICK n \in 0 .. BufLen - index :
          /\ last' = IF n = 0 THEN last ELSE <<curelem, index + n>>
          /\ IF do_exit
               THEN WorkerLeaves /\ UNCHANGED freed
               ELSE IF BufferSent(n)
                      THEN /\ freed' = freed \cup {curelem}
                           /\ curelem' = 0
                           /\ index' = 0
                           /\ wpc' = "lock"
                      ELSE index' = index + n /\ UNCHANGED <<freed, curelem, wpc>>
    BY DEF WorkerSend
  <1>3. \/ wpc' = "exit" /\ curelem' = 0 /\ index' = 0 /\ UNCHANGED freed
        \/ /\ index + n = BufLen /\ n > 0
           /\ wpc' = "lock" /\ curelem' = 0 /\ index' = 0 /\ freed' = freed \cup {curelem}
        \/ index + n < BufLen /\ index' = index + n /\ UNCHANGED <<wpc, curelem, freed>>
    <2>1. CASE do_exit
      BY <1>2, <2>1 DEF WorkerLeaves
    <2>2. CASE ~do_exit
      BY <1>1, <1>2, <2>2 DEF BufferSent
    <2> QED BY <2>1, <2>2
  <1>4. /\ wpc = "send" /\ curelem # 0
        /\ UNCHANGED <<mpc, streaming, rpt, captured, ls_buffer, global_numq, overflow, cpc>>
    BY DEF WorkerSend, TypeInv
  <1> QED BY <1>2, <1>3, <1>4 DEF SendFacts

LEMMA BuffersStep ==
    ASSUME TypeInv, [Next]_vars
    PROVE  BuffersOK'
  <1> USE ConstantsAssumption DEF TypeInv, TypeOK, BuffersOK
  <1>1. CASE Capture
    BY <1>1, SeqMono DEF Capture
  <1>2. CASE Enqueue
    <2>1. EnqueueFacts
      BY <1>2, EnqueueSteps
    <2>2. rpt \in 1 .. captured /\ captured \in Nat
      BY <2>1 DEF EnqueueFacts
    <2>3. UNCHANGED <<captured, curelem, index, last>> /\ rpt' = 0
      BY <2>1 DEF EnqueueFacts
    <2>4. ls_buffer # <<>> => /\ Head(ls_buffer) \in 1 .. captured
                              /\ Tail(ls_buffer) \in Seq(1 .. captured)
      BY <2>2, HeadTail
    <2>5. \/ ls_buffer' = Append(ls_buffer, rpt)
          \/ ls_buffer # <<>> /\ ls_buffer' = Append(Tail(ls_buffer), rpt)
          \/ ls_buffer' = <<>>
      BY <2>1 DEF EnqueueFacts
    <2>6. ls_buffer' \in Seq(1 .. captured)
      <3>1. Append(ls_buffer, rpt) \in Seq(1 .. captured) /\ <<>> \in Seq(1 .. captured)
        BY <2>2
      <3>2. ls_buffer # <<>> => Append(Tail(ls_buffer), rpt) \in Seq(1 .. captured)
        BY <2>2, <2>4
      <3> QED BY <2>5, <3>1, <3>2, Zenon
    <2>7. global_numq' \in Int
      BY <2>1 DEF EnqueueFacts
    <2>8. freed' \subseteq 1 .. captured /\ overflow' \subseteq 1 .. captured
      BY <2>1, <2>2, <2>4 DEF EnqueueFacts
    <2> QED BY <2>3, <2>6, <2>7, <2>8
  <1>3. CASE MainEndSession
    <2>1. Range(ls_buffer) \subseteq 1 .. captured
      BY RangeType
    <2>2. ls_buffer' = <<>> /\ freed' = freed \cup Range(ls_buffer) /\ global_numq' = 0
      BY <1>3 DEF MainEndSession, Drain
    <2>3. UNCHANGED <<captured, rpt, curelem, index, last, overflow>>
      BY <1>3 DEF MainEndSession
    <2>4. freed' \subseteq 1 .. captured
      BY <2>1, <2>2
    <2> QED BY <2>2, <2>3, <2>4
  <1>4. CASE MainAccept
    BY <1>4 DEF MainAccept
  <1>5. CASE WorkerSendError
    BY <1>5 DEF WorkerSendError, WorkerLeaves
  <1>6. CASE WorkerTake
    <2>1. Head(ls_buffer) \in 1 .. captured /\ Tail(ls_buffer) \in Seq(1 .. captured)
      BY <1>6, HeadTail DEF WorkerTake
    <2> QED BY <1>6, <2>1 DEF WorkerTake, TakeOne
  <1>7. CASE WorkerSend
    <2>1. SendFacts
      BY <1>7, SendSteps
    <2>2. UNCHANGED <<captured, rpt, ls_buffer, global_numq, overflow>>
      BY <2>1 DEF SendFacts
    <2>3. PICK n \in 0 .. BufLen - index :
            /\ last' = IF n = 0 THEN last ELSE <<curelem, index + n>>
            /\ \/ curelem' = 0 /\ index' = 0 /\ UNCHANGED freed
               \/ curelem' = 0 /\ index' = 0 /\ freed' = freed \cup {curelem}
               \/ /\ index + n < BufLen /\ index' = index + n
                  /\ UNCHANGED <<curelem, freed>>
      BY <2>1 DEF SendFacts
    <2>4. curelem \in 1 .. captured
      BY <2>1 DEF SendFacts
    <2>5. last' \in (0 .. captured) \X (1 .. BufLen)
      BY <2>3, <2>4
    <2>6. curelem' \in 0 .. captured
      BY <2>3, <2>4
    <2>7. index' \in 0 .. BufLen - 1
      BY <2>3
    <2>8. freed' \subseteq 1 .. captured
      BY <2>3, <2>4
    <2> QED BY <2>2, <2>5, <2>6, <2>7, <2>8
  <1>8. CASE ~BufferActions
    BY <1>8, BufferFrame DEF bufferVars
  <1> QED BY <1>1, <1>2, <1>3, <1>4, <1>5, <1>6, <1>7, <1>8 DEF BufferActions

LEMMA TypeStep == TypeInv /\ [Next]_vars => TypeInv'
  <1> SUFFICES ASSUME TypeInv, [Next]_vars PROVE TypeInv'
    OBVIOUS
  <1>1. (wpc = "send" => curelem # 0)'
    <2> USE DEF TypeInv
    <2>1. CASE WorkerTake
      <3>1. Head(ls_buffer) \in 1 .. captured
        BY <2>1, HeadTail, ConstantsAssumption DEF WorkerTake, TypeOK, BuffersOK
      <3> QED BY <2>1, <3>1 DEF WorkerTake, TakeOne
    <2>2. CASE WorkerSend
      BY <2>2, SendSteps DEF SendFacts
    <2>3. CASE WorkerSendError
      BY <2>3 DEF WorkerSendError, WorkerLeaves
    <2>4. CASE WorkerExits \/ WorkerTests \/ WorkerWaits \/ WorkerSpuriousWakeup \/ MainSpawnWorker
      BY <2>4 DEF WorkerExits, WorkerTests, WorkerWaits, WorkerSpuriousWakeup, MainSpawnWorker
    <2>5. CASE Enqueue
      BY <2>5 DEF Enqueue, Wake
    <2>6. ASSUME NEW t \in Callers, Handler(t) PROVE (wpc = "send" => curelem # 0)'
      BY <2>6 DEF Handler, HandlerFlag, HandlerSignal, Wake
    <2>7. CASE UNCHANGED <<wpc, curelem>>
      BY <2>7
    <2> QED
      BY <2>1, <2>2, <2>3, <2>4, <2>5, <2>6, <2>7
         DEF Next, vars, Main, Worker, Command, CommandRecv, CommandError, CommandDispatch,
             SignalCaught, ClientLeaves, Capture, MainAccept, MainGreet, MainSpawnCommand,
             MainStartRx, MainJoinWorker, MainJoinCommand, MainStopRx, MainEndSession, MainExit,
             MainClose, MainPolls
  <1> QED BY <1>1, ControlStep, BuffersStep, CountsStep DEF TypeInv, TypeOK

\* Every variable of the server keeps its type in every reachable state.
THEOREM TypeCorrect == Spec => []TypeOK
  <1>1. TypeInv => TypeOK
    BY DEF TypeInv
  <1> QED BY <1>1, TypeInit, TypeStep, PTL DEF Spec

-----------------------------------------------------------------------------
(***************************************************************************)
(* The count and the bound of the list.                                    *)
(***************************************************************************)
LEMMA QueueStep ==
    ASSUME TypeInv, QueueCounted, [Next]_vars
    PROVE  QueueCounted'
  <1> USE ConstantsAssumption DEF QueueCounted
  <1>1. ls_buffer \in Seq(1 .. captured) /\ captured \in Nat /\ Len(ls_buffer) \in Nat
    BY DEF TypeInv, TypeOK, BuffersOK
  <1>2. CASE Enqueue
    <2>1. EnqueueFacts /\ rpt \in 1 .. captured
      BY <1>2, EnqueueSteps DEF EnqueueFacts, TypeInv, TypeOK, BuffersOK
    <2>2. CASE ls_buffer' = Append(ls_buffer, rpt) /\ global_numq' = global_numq + 1 /\ ~Full
      BY <1>1, <2>1, <2>2 DEF Full
    <2>3. CASE /\ ls_buffer # <<>> /\ ls_buffer' = Append(Tail(ls_buffer), rpt)
               /\ UNCHANGED global_numq
      BY <1>1, <2>1, <2>3, HeadTail
    <2>4. CASE ls_buffer = <<>> /\ ls_buffer' = <<>> /\ UNCHANGED global_numq
      BY <2>4
    <2> QED BY <2>1, <2>2, <2>3, <2>4 DEF EnqueueFacts
  <1>3. CASE WorkerTake
    <2>1. ls_buffer # <<>> /\ ls_buffer' = Tail(ls_buffer) /\ global_numq' = global_numq - 1
      BY <1>3 DEF WorkerTake, TakeOne
    <2>2. Len(ls_buffer') = Len(ls_buffer) - 1
      BY <1>1, <2>1, HeadTail
    <2> QED BY <1>1, <2>1, <2>2
  <1>4. CASE MainEndSession
    BY <1>4 DEF MainEndSession, Drain
  <1>5. CASE Capture \/ MainAccept \/ WorkerSend \/ WorkerSendError
    BY <1>5 DEF Capture, MainAccept, WorkerSend, WorkerSendError
  <1>6. CASE ~BufferActions
    BY <1>6, BufferFrame DEF bufferVars
  <1> QED BY <1>2, <1>3, <1>4, <1>5, <1>6 DEF BufferActions

\* For every llbuf_num, 0 included, global_numq is the list's length and the list
\* holds at most llbuf_num buffers, however callback, tcp_worker and main interleave.
THEOREM QueueIsCounted == Spec => []QueueCounted
  <1>1. Init => QueueCounted
    BY ConstantsAssumption DEF Init, QueueCounted
  <1>2. TypeInv /\ QueueCounted /\ [Next]_vars => QueueCounted'
    BY QueueStep
  <1> QED BY <1>1, <1>2, TypeInit, TypeStep, PTL DEF Spec

-----------------------------------------------------------------------------
(***************************************************************************)
(* Sessions do not overlap.  Before main starts the device again, the      *)
(* threads of the last session have ended, sighandler() included, and its  *)
(* list is empty; and libairspy's thread is inside the callback only while *)
(* the device streams.                                                     *)
(***************************************************************************)
WorkerOver == wpc \in {"none", "exit"} /\ hpc["worker"] = "idle"
CommandOver == cpc \in {"none", "exit"} /\ hpc["command"] = "idle"
Quiet == ~streaming /\ ls_buffer = <<>>

SessionOver ==
    mpc \in {"select", "greet", "spawnWorker"} => WorkerOver /\ CommandOver /\ Quiet

SessionInv ==
    /\ SessionOver
    /\ mpc = "spawnCommand" => CommandOver /\ Quiet
    /\ mpc = "startRx" => Quiet
    /\ mpc \in {"joinCommand", "stopRx", "drain"} => WorkerOver
    /\ mpc \in {"stopRx", "drain"} => CommandOver
    /\ mpc = "drain" => ~streaming
    /\ ~streaming => rpt = 0
    /\ wpc # "exit" => hpc["worker"] = "idle"
    /\ cpc # "exit" => hpc["command"] = "idle"

LEMMA SessionInit == Init => SessionInv
  BY DEF Init, SessionInv, SessionOver, CommandOver, WorkerOver, Quiet, Callers

LEMMA SessionStep == TypeInv /\ SessionInv /\ [Next]_vars => SessionInv'
  <1> SUFFICES ASSUME TypeInv, SessionInv, [Next]_vars PROVE SessionInv'
    OBVIOUS
  <1> USE DEF SessionInv, SessionOver, CommandOver, WorkerOver, Quiet
  <1>1. hpc \in [Callers -> {"idle", "flag", "signal"}]
    BY DEF TypeInv, TypeOK, ControlOK
  <1>2. CASE UNCHANGED vars
    BY <1>2 DEF vars
  <1>3. ASSUME NEW t \in Callers, Handler(t) PROVE SessionInv'
    <2>1. /\ UNCHANGED <<mpc, streaming, cpc, ls_buffer, rpt>> /\ hpc[t] # "idle"
          /\ wpc' = wpc \/ (wpc = "wait" /\ wpc' = "lock")
      BY <1>3 DEF Handler, HandlerFlag, HandlerSignal, Wake
    <2>2. \A u \in Callers : u # t => hpc'[u] = hpc[u]
      BY <1>1, <1>3 DEF Handler, HandlerFlag, HandlerSignal
    <2>3. "worker" \in Callers /\ "command" \in Callers
      BY DEF Callers
    <2> QED BY <2>1, <2>2, <2>3
  <1>4. CASE SignalCaught
    <2>1. /\ UNCHANGED <<mpc, streaming, wpc, cpc, ls_buffer, rpt>>
          /\ hpc'["worker"] = hpc["worker"] /\ hpc'["command"] = hpc["command"]
      BY <1>1, <1>4 DEF SignalCaught, Enter, Callers
    <2> QED BY <2>1
  <1>5. CASE ClientLeaves
    BY <1>5 DEF ClientLeaves
  <1>6. CASE WorkerSend \/ WorkerSendError
    <2>1. wpc = "send" /\ UNCHANGED <<mpc, streaming, cpc, ls_buffer, rpt>>
      BY <1>6 DEF WorkerSend, WorkerSendError
    <2>2. hpc'["command"] = hpc["command"]
      BY <1>1, <1>6 DEF WorkerSend, WorkerSendError, WorkerLeaves, Enter, Callers
    <2>3. wpc' = "exit" \/ UNCHANGED hpc
      BY <1>6 DEF WorkerSend, WorkerSendError, WorkerLeaves
    <2> QED BY <2>1, <2>2, <2>3
  <1>7. CASE WorkerTake
    <2>1. wpc = "lock" /\ ls_buffer # <<>> /\ UNCHANGED <<mpc, streaming, cpc, hpc, rpt>>
      BY <1>7 DEF WorkerTake
    <2> QED BY <2>1
  <1>8. CASE WorkerExits \/ WorkerTests \/ WorkerWaits \/ WorkerSpuriousWakeup
    BY <1>8 DEF WorkerExits, WorkerTests, WorkerWaits, WorkerSpuriousWakeup
  <1>9. CASE Command
    <2>1. cpc \in {"recv", "dispatch"} /\ UNCHANGED <<mpc, streaming, wpc, ls_buffer, rpt>>
      BY <1>9 DEF Command, CommandRecv, CommandError, CommandDispatch
    <2>2. hpc'["worker"] = hpc["worker"]
      BY <1>1, <1>9 DEF Command, CommandRecv, CommandError, CommandDispatch, CommandLeaves,
                        Enter, Callers
    <2>3. cpc' = "exit" \/ UNCHANGED hpc
      BY <1>9 DEF Command, CommandRecv, CommandError, CommandDispatch, CommandLeaves
    <2> QED BY <2>1, <2>2, <2>3
  <1>10. CASE MainAccept \/ MainGreet \/ MainSpawnWorker \/ MainSpawnCommand
    BY <1>10 DEF MainAccept, MainGreet, MainSpawnWorker, MainSpawnCommand
  <1>11. CASE MainStartRx \/ MainStopRx \/ MainClose \/ MainExit
    BY <1>11 DEF MainStartRx, MainStopRx, MainClose, MainExit
  <1>12. CASE MainJoinWorker
    BY <1>12 DEF MainJoinWorker, WorkerEnded
  <1>13. CASE MainJoinCommand
    BY <1>13 DEF MainJoinCommand, CommandEnded
  <1>14. CASE MainEndSession
    BY <1>14 DEF MainEndSession, Drain
  <1>15. CASE MainPolls
    BY <1>15 DEF MainPolls, vars
  <1>16. CASE Capture
    BY <1>16 DEF Capture
  <1>17. CASE Enqueue
    <2>1. rpt # 0 /\ rpt' = 0 /\ UNCHANGED <<mpc, streaming, hpc, cpc>>
          /\ (wpc' = wpc \/ (wpc = "wait" /\ wpc' = "lock"))
      BY <1>17 DEF Enqueue, Wake
    <2> QED BY <2>1
  <1> QED BY <1>2, <1>3, <1>4, <1>5, <1>6, <1>7, <1>8, <1>9, <1>10, <1>11, <1>12, <1>13, <1>14,
             <1>15, <1>16, <1>17 DEF Next, Main, Worker

\* When main listens for a client, greets it and starts its tcp_worker, no thread of
\* an earlier session runs, the device does not stream and the list is empty.
THEOREM SessionsDoNotOverlap == Spec => []SessionOver
  <1>1. SessionInv => SessionOver
    BY DEF SessionInv
  <1> QED BY <1>1, TypeInit, TypeStep, SessionInit, SessionStep, PTL DEF Spec

-----------------------------------------------------------------------------
(***************************************************************************)
(* Every buffer has one owner.  The invariant orders the owners: the       *)
(* buffer tcp_worker holds is older than what the list holds, and that is  *)
(* older than the buffer the callback is about to append.  A worker that   *)
(* is not sending holds nothing.                                           *)
(***************************************************************************)
Ordered ==
    /\ Increasing(ls_buffer)
    /\ \A y \in Range(ls_buffer) : curelem < y

Newest ==
    rpt # 0 => /\ rpt = captured
               /\ curelem < rpt
               /\ \A y \in Range(ls_buffer) : y < rpt

Alive == ({rpt, curelem} \cup Range(ls_buffer)) \cap freed = {}

OwnerInv ==
    /\ Ordered
    /\ Newest
    /\ Alive
    /\ wpc # "send" => curelem = 0 /\ index = 0

LEMMA OwnerInit == Init => OwnerInv
  BY DEF Init, OwnerInv, Ordered, Newest, Alive, Increasing, Range

LEMMA OwnerTypes ==
    ASSUME TypeInv
    PROVE  /\ captured \in Nat /\ index \in Nat /\ BufLen \in Nat /\ BufLen > 0
           /\ rpt \in Nat /\ rpt <= captured /\ curelem \in Nat /\ curelem <= captured
           /\ last[1] \in Nat /\ last[1] <= captured /\ last[2] \in Nat
           /\ freed \subseteq 1 .. captured /\ 0 \notin freed
           /\ ls_buffer \in Seq(1 .. captured)
           /\ Range(ls_buffer) \subseteq 1 .. captured
           /\ rpt # 0 => rpt \in 1 .. captured
  BY RangeType, ConstantsAssumption DEF TypeInv, TypeOK, BuffersOK

LEMMA OwnerImplies == TypeInv /\ OwnerInv => OneOwner
  <1> SUFFICES ASSUME TypeInv, OwnerInv PROVE OneOwner
    OBVIOUS
  <1>1. curelem \notin Range(ls_buffer)
    BY OwnerTypes DEF OwnerInv, Ordered
  <1>2. rpt \notin Range(ls_buffer)
    BY OwnerTypes DEF OwnerInv, Newest
  <1>3. rpt = curelem => rpt = 0
    BY OwnerTypes DEF OwnerInv, Newest
  <1> QED BY <1>1, <1>2, <1>3 DEF OneOwner, OwnerInv, Ordered, Alive

\* A step that leaves the buffers alone starts no send() and ends none.
LEMMA PlaceFrame ==
    ASSUME SessionInv, OwnerInv, [Next]_vars, ~BufferActions
    PROVE  wpc' # "send" => curelem = 0 /\ index = 0
  <1> USE DEF BufferActions, OwnerInv
  <1>1. CASE UNCHANGED wpc
    BY <1>1
  <1>2. CASE WorkerExits \/ WorkerTests \/ WorkerWaits \/ WorkerSpuriousWakeup
    BY <1>2 DEF WorkerExits, WorkerTests, WorkerWaits, WorkerSpuriousWakeup
  <1>3. CASE MainSpawnWorker
    BY <1>3 DEF MainSpawnWorker, SessionInv, SessionOver, WorkerOver
  <1>4. ASSUME NEW t \in Callers, Handler(t) PROVE wpc' # "send" => curelem = 0 /\ index = 0
    BY <1>4 DEF Handler, HandlerFlag, HandlerSignal, Wake
  <1> QED BY <1>1, <1>2, <1>3, <1>4
             DEF Next, vars, Main, Worker, Command, CommandRecv, CommandError, CommandDispatch,
                 SignalCaught, ClientLeaves, MainGreet, MainSpawnCommand, MainStartRx,
                 MainJoinWorker, MainJoinCommand, MainStopRx, MainExit, MainClose, MainPolls

LEMMA OwnerStep ==
    ASSUME TypeInv, SessionInv, OwnerInv, [Next]_vars
    PROVE  OwnerInv'
  <1> USE DEF OwnerInv, Ordered, Newest, Alive
  <1>1. /\ captured \in Nat /\ index \in Nat
        /\ rpt \in Nat /\ rpt <= captured /\ curelem \in Nat /\ curelem <= captured
        /\ freed \subseteq 1 .. captured /\ 0 \notin freed
        /\ ls_buffer \in Seq(1 .. captured)
        /\ Range(ls_buffer) \subseteq 1 .. captured
        /\ rpt # 0 => rpt \in 1 .. captured
    BY OwnerTypes
  <1>2. CASE Capture
    <2>1. /\ rpt' = captured + 1 /\ captured' = captured + 1
          /\ UNCHANGED <<ls_buffer, curelem, index, freed, wpc>>
      BY <1>2 DEF Capture
    <2>2. Range(ls_buffer') = Range(ls_buffer)
      BY <2>1
    <2>3. captured + 1 \notin freed
      BY <1>1
    <2>4. Alive'
      BY <2>1, <2>2, <2>3
    <2>5. Newest'
      BY <1>1, <2>1, <2>2
    <2> QED BY <2>1, <2>2, <2>4, <2>5
  <1>3. CASE Enqueue
    <2>1. EnqueueFacts
      BY <1>3, EnqueueSteps
    <2>2. /\ rpt # 0 /\ rpt' = 0 /\ UNCHANGED <<curelem, index>> /\ rpt \in 1 .. captured
          /\ wpc' # "send" => wpc # "send"
      BY <1>1, <2>1 DEF EnqueueFacts
    <2>3. CASE ls_buffer' = Append(ls_buffer, rpt) /\ UNCHANGED freed
      <3>1. Range(ls_buffer') = Range(ls_buffer) \cup {rpt} /\ Increasing(ls_buffer')
        BY <1>1, <2>2, <2>3, AppendFacts
      <3>2. Ordered'
        BY <2>2, <3>1
      <3>3. Alive'
        BY <1>1, <2>2, <2>3, <3>1
      <3> QED BY <2>2, <3>2, <3>3
    <2>4. CASE /\ ls_buffer # <<>>
               /\ ls_buffer' = Append(Tail(ls_buffer), rpt)
               /\ freed' = freed \cup {Head(ls_buffer)}
      <3> DEFINE rest == Tail(ls_buffer)
      <3>1. /\ rest \in Seq(1 .. captured) /\ Increasing(rest)
            /\ Range(ls_buffer) = {Head(ls_buffer)} \cup Range(rest)
            /\ \A x \in Range(rest) : x > Head(ls_buffer)
        BY <1>1, <2>4, TailFacts
      <3>2. ls_buffer' = Append(rest, rpt)
        BY <2>4
      <3> HIDE DEF rest
      <3>3. Range(ls_buffer') = Range(rest) \cup {rpt} /\ Increasing(ls_buffer')
        BY <1>1, <2>2, <3>1, <3>2, AppendFacts
      <3>4. Ordered'
        BY <2>2, <3>1, <3>3
      <3>5. Head(ls_buffer) \in 1 .. captured /\ curelem < Head(ls_buffer) /\ Head(ls_buffer) < rpt
        BY <1>1, <2>2, <3>1
      <3>6. Head(ls_buffer) \notin Range(rest) \cup {curelem, rpt, 0}
        BY <1>1, <2>2, <3>1, <3>5
      <3>7. ({rpt, curelem, 0} \cup Range(rest)) \cap freed = {}
        BY <1>1, <3>1
      <3>8. Alive'
        BY <2>2, <2>4, <3>3, <3>6, <3>7
      <3> QED BY <2>2, <3>4, <3>8
    <2>5. CASE ls_buffer = <<>> /\ ls_buffer' = <<>> /\ freed' = freed \cup {rpt}
      <3>1. Range(ls_buffer') = {} /\ Increasing(ls_buffer')
        BY <2>5, EmptyFacts
      <3>2. rpt # curelem
        BY <1>1, <2>2
      <3>3. Alive'
        BY <1>1, <2>2, <2>5, <3>1, <3>2
      <3> QED BY <2>2, <3>1, <3>3
    <2> QED BY <2>1, <2>3, <2>4, <2>5 DEF EnqueueFacts
  <1>4. CASE WorkerTake
    <2>1. /\ curelem = 0 /\ ls_buffer # <<>> /\ wpc' = "send"
          /\ curelem' = Head(ls_buffer) /\ ls_buffer' = Tail(ls_buffer)
          /\ UNCHANGED <<rpt, captured, freed>>
      BY <1>4 DEF WorkerTake, TakeOne
    <2>2. /\ Increasing(ls_buffer')
          /\ Range(ls_buffer) = {curelem'} \cup Range(ls_buffer')
          /\ \A x \in Range(ls_buffer') : x > curelem'
      BY <1>1, <2>1, TailFacts
    <2>3. Ordered'
      BY <1>1, <2>2
    <2>4. Newest' /\ Alive'
      BY <2>1, <2>2
    <2> QED BY <2>1, <2>3, <2>4
  <1>5. CASE WorkerSend
    <2>1. SendFacts
      BY <1>5, SendSteps
    <2>2. UNCHANGED <<rpt, captured, ls_buffer>> /\ wpc = "send" /\ curelem # 0
      BY <2>1 DEF SendFacts
    <2>3. CASE curelem' = 0 /\ index' = 0 /\ (freed' = freed \/ freed' = freed \cup {curelem})
      <3>1. Ordered' /\ Newest'
        BY <1>1, <2>2, <2>3
      <3>2. curelem \notin Range(ls_buffer) \cup {rpt, 0}
        BY <1>1, <2>2
      <3>3. Alive'
        BY <1>1, <2>2, <2>3, <3>2
      <3> QED BY <2>3, <3>1, <3>3
    <2>4. CASE UNCHANGED <<wpc, curelem, freed>>
      BY <2>2, <2>4
    <2> QED BY <2>1, <2>3, <2>4 DEF SendFacts
  <1>6. CASE WorkerSendError
    <2>1. curelem' = 0 /\ index' = 0 /\ UNCHANGED <<rpt, captured, ls_buffer, freed>>
      BY <1>6 DEF WorkerSendError, WorkerLeaves
    <2> QED BY <1>1, <2>1
  <1>7. CASE MainEndSession
    <2>1. /\ ls_buffer' = <<>> /\ freed' = freed \cup Range(ls_buffer)
          /\ UNCHANGED <<rpt, captured, curelem, index, wpc>>
          /\ rpt = 0 /\ curelem = 0
      BY <1>7 DEF MainEndSession, Drain, SessionInv, WorkerOver
    <2>2. Range(ls_buffer') = {} /\ Increasing(ls_buffer')
      BY <2>1, EmptyFacts
    <2>3. Alive'
      BY <1>1, <2>1, <2>2
    <2> QED BY <2>1, <2>2, <2>3
  <1>8. CASE MainAccept
    BY <1>8 DEF MainAccept
  <1>9. CASE ~BufferActions
    <2>1. UNCHANGED bufferVars
      BY <1>9, BufferFrame
    <2>2. Range(ls_buffer') = Range(ls_buffer)
      BY <2>1 DEF bufferVars
    <2> QED BY <1>9, <2>1, <2>2, PlaceFrame DEF bufferVars
  <1> QED BY <1>2, <1>3, <1>4, <1>5, <1>6, <1>7, <1>8, <1>9 DEF BufferActions

\* No interleaving of the callback, tcp_worker and main frees a buffer twice, or
\* sends or relinks one that was freed, for every llbuf_num.
THEOREM OwnersDisjoint == Spec => []OneOwner
  <1>1. TypeInv /\ SessionInv /\ OwnerInv /\ [Next]_vars => OwnerInv'
    BY OwnerStep
  <1> QED BY <1>1, TypeInit, TypeStep, SessionInit, SessionStep, OwnerInit, OwnerImplies, PTL DEF Spec

-----------------------------------------------------------------------------
(***************************************************************************)
(* What the client receives.  While tcp_worker runs, every buffer captured *)
(* after the one sent last is still on its way or was dropped from the     *)
(* full list, and what is on its way is newer than what was sent.  A       *)
(* session begins with no buffer on its way.                               *)
(***************************************************************************)
Live == wpc \in {"lock", "locked", "wait", "send"}

Covered ==
    \A k \in 1 .. captured : last[1] < k =>
        k \in {curelem, rpt} \cup Range(ls_buffer) \cup overflow

Ahead ==
    /\ \A y \in Range(ls_buffer) : last[1] < y
    /\ rpt # 0 => last[1] < rpt
    /\ index = 0 => last[2] = BufLen /\ (curelem # 0 => last[1] < curelem)
    /\ index > 0 => last[1] = curelem /\ last[2] = index

StreamInv ==
    /\ mpc \in {"greet", "spawnWorker"} => last = <<captured, BufLen>>
    /\ Live => Covered /\ Ahead

\* Only main's start of a tcp_worker makes a dead one live.
LEMMA LiveFrame ==
    ASSUME [Next]_vars, ~BufferActions, ~MainSpawnWorker
    PROVE  /\ Live' => Live
           /\ mpc' \in {"greet", "spawnWorker"} => mpc \in {"greet", "spawnWorker"}
  <1> USE DEF BufferActions, Live
  <1>1. CASE UNCHANGED <<mpc, wpc>>
    BY <1>1
  <1>2. CASE WorkerExits \/ WorkerTests \/ WorkerWaits \/ WorkerSpuriousWakeup
    BY <1>2 DEF WorkerExits, WorkerTests, WorkerWaits, WorkerSpuriousWakeup
  <1>3. CASE MainGreet \/ MainSpawnCommand \/ MainStartRx \/ MainStopRx
    BY <1>3 DEF MainGreet, MainSpawnCommand, MainStartRx, MainStopRx
  <1>4. CASE MainJoinWorker \/ MainJoinCommand \/ MainExit \/ MainClose
    BY <1>4 DEF MainJoinWorker, MainJoinCommand, MainExit, MainClose
  <1>5. ASSUME NEW t \in Callers, Handler(t)
        PROVE  /\ Live' => Live
               /\ mpc' \in {"greet", "spawnWorker"} => mpc \in {"greet", "spawnWorker"}
    BY <1>5 DEF Handler, HandlerFlag, HandlerSignal, Wake
  <1> QED BY <1>1, <1>2, <1>3, <1>4, <1>5
             DEF Next, vars, Main, Worker, Command, CommandRecv, CommandError, CommandDispatch,
                 SignalCaught, ClientLeaves, MainPolls

LEMMA StreamStep ==
    ASSUME TypeInv, SessionInv, OwnerInv, StreamInv, [Next]_vars
    PROVE  StreamInv'
  <1> USE DEF StreamInv, Live, Ahead
  <1>1. /\ captured \in Nat /\ index \in Nat /\ BufLen \in Nat /\ BufLen > 0
        /\ rpt \in Nat /\ rpt <= captured /\ curelem \in Nat /\ curelem <= captured
        /\ last[1] \in Nat /\ last[1] <= captured /\ last[2] \in Nat
        /\ ls_buffer \in Seq(1 .. captured)
        /\ Range(ls_buffer) \subseteq 1 .. captured
        /\ rpt # 0 => rpt \in 1 .. captured
    BY OwnerTypes
  <1>2. CASE Capture
    <2>1. /\ streaming /\ rpt = 0 /\ captured' = captured + 1 /\ rpt' = captured + 1
          /\ UNCHANGED <<mpc, ls_buffer, curelem, overflow, last, index, wpc>>
      BY <1>2 DEF Capture
    <2>2. mpc \notin {"greet", "spawnWorker"}
      BY <2>1 DEF SessionInv, SessionOver, Quiet
    <2>3. Range(ls_buffer') = Range(ls_buffer)
      BY <2>1
    <2>4. Live => Covered'
      BY <1>1, <2>1, <2>3 DEF Covered
    <2>5. Live => Ahead'
      BY <1>1, <2>1, <2>3
    <2> QED BY <2>1, <2>2, <2>4, <2>5
  <1>3. CASE Enqueue
    <2>1. EnqueueFacts
      BY <1>3, EnqueueSteps
    <2>2. /\ rpt \in 1 .. captured /\ rpt # 0 /\ rpt' = 0
          /\ wpc' = wpc \/ (wpc = "wait" /\ wpc' = "lock")
          /\ UNCHANGED <<mpc, captured, curelem, index, last>>
      BY <1>1, <2>1 DEF EnqueueFacts
    <2>3. /\ Range(ls_buffer) \cup {rpt} \subseteq Range(ls_buffer') \cup overflow'
          /\ Range(ls_buffer') \subseteq Range(ls_buffer) \cup {rpt}
          /\ overflow \subseteq overflow'
      <3>1. CASE ls_buffer' = Append(ls_buffer, rpt) /\ UNCHANGED overflow
        BY <1>1, <2>2, <3>1, AppendFacts
      <3>2. CASE /\ ls_buffer # <<>>
                 /\ ls_buffer' = Append(Tail(ls_buffer), rpt)
                 /\ overflow' = overflow \cup {Head(ls_buffer)}
        <4> DEFINE rest == Tail(ls_buffer)
        <4>1. /\ rest \in Seq(1 .. captured)
              /\ Range(ls_buffer) = {Head(ls_buffer)} \cup Range(rest)
          BY <1>1, <3>2, TailFacts
        <4>2. ls_buffer' = Append(rest, rpt)
          BY <3>2
        <4> HIDE DEF rest
        <4>3. Range(ls_buffer') = Range(rest) \cup {rpt}
          BY <1>1, <2>2, <4>1, <4>2, AppendFacts
        <4> QED BY <3>2, <4>1, <4>3
      <3>3. CASE ls_buffer = <<>> /\ ls_buffer' = <<>> /\ overflow' = overflow \cup {rpt}
        <4>1. Range(ls_buffer') = {} /\ Range(ls_buffer) = {}
          BY <3>3, EmptyFacts
        <4> QED BY <3>3, <4>1
      <3> QED BY <2>1, <3>1, <3>2, <3>3 DEF EnqueueFacts
    <2>4. Live' => Covered'
      BY <2>2, <2>3 DEF Covered
    <2>5. Live' => Ahead'
      BY <2>2, <2>3
    <2>6. (mpc \in {"greet", "spawnWorker"} => last = <<captured, BufLen>>)'
      BY <2>2
    <2> QED BY <2>4, <2>5, <2>6
  <1>4. CASE WorkerTake
    <2>1. /\ wpc = "lock" /\ curelem = 0 /\ index = 0 /\ ls_buffer # <<>>
          /\ curelem' = Head(ls_buffer) /\ ls_buffer' = Tail(ls_buffer)
          /\ UNCHANGED <<mpc, rpt, captured, overflow, index, last>>
      BY <1>4 DEF WorkerTake, TakeOne, OwnerInv
    <2>2. Range(ls_buffer) = {curelem'} \cup Range(ls_buffer')
      BY <1>1, <2>1, TailFacts
    <2>3. Covered'
      BY <1>1, <2>1, <2>2 DEF Covered
    <2>4. Ahead'
      BY <2>1, <2>2
    <2>5. (mpc \in {"greet", "spawnWorker"} => last = <<captured, BufLen>>)'
      BY <2>1
    <2> QED BY <2>3, <2>4, <2>5
  <1>5. CASE WorkerSend
    <2>1. SendFacts
      BY <1>5, SendSteps
    <2>2. /\ wpc = "send" /\ curelem # 0
          /\ UNCHANGED <<mpc, rpt, captured, ls_buffer, overflow>>
          /\ Range(ls_buffer') = Range(ls_buffer)
      BY <2>1 DEF SendFacts
    <2>3. mpc \notin {"greet", "spawnWorker"}
      BY <2>2 DEF SessionInv, SessionOver, WorkerOver
    <2>4. PICK n \in 0 .. BufLen - index :
            /\ last' = IF n = 0 THEN last ELSE <<curelem, index + n>>
            /\ \/ wpc' = "exit"
               \/ /\ index + n = BufLen /\ n > 0
                  /\ wpc' = "lock" /\ curelem' = 0 /\ index' = 0
               \/ index + n < BufLen /\ index' = index + n /\ UNCHANGED <<wpc, curelem>>
      BY <2>1 DEF SendFacts
    <2>5. /\ \A y \in Range(ls_buffer) : curelem < y
          /\ rpt # 0 => curelem < rpt
          /\ last[1] <= curelem
      BY <1>1, <2>2 DEF OwnerInv, Ordered, Newest
    <2>6. CASE wpc' = "exit"
      BY <2>2, <2>3, <2>6
    <2>7. CASE /\ n > 0 /\ index + n = BufLen
               /\ wpc' = "lock" /\ curelem' = 0 /\ index' = 0
      <3>1. last' = <<curelem, BufLen>>
        BY <2>4, <2>7
      <3>2. Covered'
        BY <1>1, <2>2, <2>5, <2>7, <3>1 DEF Covered
      <3>3. Ahead'
        BY <1>1, <2>2, <2>5, <2>7, <3>1
      <3> QED BY <2>2, <2>3, <3>2, <3>3
    <2>8. CASE n > 0 /\ index + n < BufLen /\ index' = index + n /\ UNCHANGED <<wpc, curelem>>
      <3>1. last' = <<curelem, index'>> /\ index' > 0
        BY <1>1, <2>4, <2>8
      <3>2. Covered'
        BY <1>1, <2>2, <2>5, <2>8, <3>1 DEF Covered
      <3>3. Ahead'
        BY <1>1, <2>2, <2>5, <2>8, <3>1
      <3> QED BY <2>2, <2>3, <3>2, <3>3
    <2>9. CASE n = 0 /\ index' = index + n /\ UNCHANGED <<wpc, curelem>>
      <3>1. UNCHANGED <<last, index>>
        BY <1>1, <2>4, <2>9
      <3>2. Covered'
        BY <2>2, <2>9, <3>1 DEF Covered
      <3>3. Ahead'
        BY <2>2, <2>9, <3>1
      <3> QED BY <2>2, <2>3, <3>2, <3>3
    <2> QED BY <2>4, <2>6, <2>7, <2>8, <2>9
  <1>6. CASE WorkerSendError
    <2>1. wpc' = "exit" /\ UNCHANGED <<mpc, captured, last>>
      BY <1>6 DEF WorkerSendError, WorkerLeaves
    <2> QED BY <2>1
  <1>7. CASE MainEndSession
    <2>1. ~Live /\ UNCHANGED wpc /\ mpc' = "select"
      BY <1>7 DEF MainEndSession, SessionInv, WorkerOver
    <2> QED BY <2>1
  <1>8. CASE MainAccept
    <2>1. ~Live /\ UNCHANGED <<wpc, captured>> /\ last' = <<captured, BufLen>>
      BY <1>8 DEF MainAccept, SessionInv, SessionOver, WorkerOver
    <2> QED BY <2>1
  <1>9. CASE MainSpawnWorker
    <2>1. /\ UNCHANGED bufferVars /\ wpc' = "lock" /\ mpc' = "spawnCommand"
          /\ last = <<captured, BufLen>> /\ ls_buffer = <<>> /\ curelem = 0 /\ index = 0 /\ rpt = 0
      BY <1>9 DEF MainSpawnWorker, bufferVars, SessionInv, SessionOver, WorkerOver, Quiet, OwnerInv
    <2>2. Range(ls_buffer') = {}
      BY <2>1, EmptyFacts DEF bufferVars
    <2>3. Covered'
      BY <1>1, <2>1 DEF bufferVars, Covered
    <2>4. Ahead'
      BY <1>1, <2>1, <2>2 DEF bufferVars
    <2> QED BY <2>1, <2>3, <2>4
  <1>10. CASE ~BufferActions /\ ~MainSpawnWorker
    <2>1. UNCHANGED bufferVars
      BY <1>10, BufferFrame
    <2>2. Range(ls_buffer') = Range(ls_buffer)
      BY <2>1 DEF bufferVars
    <2>3. /\ Live' => Live
          /\ mpc' \in {"greet", "spawnWorker"} => mpc \in {"greet", "spawnWorker"}
      BY <1>10, LiveFrame
    <2>4. Live' => Covered'
      BY <2>1, <2>2, <2>3 DEF bufferVars, Covered
    <2>5. Live' => Ahead'
      BY <2>1, <2>2, <2>3 DEF bufferVars
    <2> QED BY <2>1, <2>3, <2>4, <2>5 DEF bufferVars
  <1> QED BY <1>2, <1>3, <1>4, <1>5, <1>6, <1>7, <1>8, <1>9, <1>10 DEF BufferActions

\* A step that sends continues the stream.
LEMMA StreamContinues ==
    ASSUME TypeInv, OwnerInv, StreamInv, [Next]_vars, mpc # "select", last' # last
    PROVE  IF last'[1] = last[1]
             THEN index = last[2] /\ last'[2] > last[2]
             ELSE /\ index = 0 /\ last[2] = BufLen
                  /\ last'[1] > last[1]
                  /\ last[1] + 1 .. last'[1] - 1 \subseteq overflow
  <1>1. WorkerSend
    <2>1. BufferActions
      BY BufferFrame DEF bufferVars
    <2> QED BY <2>1 DEF BufferActions, Capture, Enqueue, MainEndSession, MainAccept, WorkerTake,
                        WorkerSendError
  <1>2. SendFacts
    BY <1>1, SendSteps
  <1>3. PICK n \in 0 .. BufLen - index : n > 0 /\ last' = <<curelem, index + n>>
    BY <1>2 DEF SendFacts
  <1>4. /\ captured \in Nat /\ index \in Nat /\ BufLen \in Nat /\ rpt \in Nat
        /\ curelem \in Nat /\ curelem <= captured /\ curelem # 0
        /\ last[1] \in Nat /\ last[1] <= captured /\ last[2] \in Nat
        /\ Range(ls_buffer) \subseteq 1 .. captured /\ wpc = "send"
    BY <1>2, OwnerTypes DEF SendFacts
  <1>5. Covered /\ Ahead
    BY <1>4 DEF StreamInv, Live
  <1>6. CASE index > 0
    <2>1. last[1] = curelem /\ last[2] = index
      BY <1>5, <1>6 DEF Ahead
    <2> QED BY <1>3, <1>4, <2>1
  <1>7. CASE index = 0
    <2>1. last[2] = BufLen /\ last[1] < curelem
      BY <1>4, <1>5, <1>7 DEF Ahead
    <2>2. ASSUME NEW k \in last[1] + 1 .. curelem - 1 PROVE k \in overflow
      <3>1. k \in 1 .. captured /\ last[1] < k /\ k < curelem
        BY <1>4
      <3>2. k \notin Range(ls_buffer)
        BY <1>4, <3>1 DEF OwnerInv, Ordered
      <3>3. k # rpt
        BY <1>4, <3>1 DEF OwnerInv, Newest
      <3> QED BY <1>5, <3>1, <3>2, <3>3 DEF Covered
    <2> QED BY <1>3, <1>4, <1>7, <2>1, <2>2
  <1> QED BY <1>4, <1>6, <1>7

\* Every client receives whole buffers, in order, none twice and none of an earlier
\* client's, and misses only buffers that the full list dropped.
THEOREM StreamKept == Spec => StreamIntact
  <1>1. Init => StreamInv
    BY DEF Init, StreamInv, Live
  <1>2. TypeInv /\ SessionInv /\ OwnerInv /\ [Next]_vars => OwnerInv'
    BY OwnerStep
  <1>3. TypeInv /\ SessionInv /\ OwnerInv /\ StreamInv /\ [Next]_vars => StreamInv'
    BY StreamStep
  <1>4. TypeInv /\ OwnerInv /\ StreamInv /\ [Next]_vars =>
          [ mpc # "select" /\ last' # last =>
              IF last'[1] = last[1]
                THEN index = last[2] /\ last'[2] > last[2]
                ELSE /\ index = 0 /\ last[2] = BufLen
                     /\ last'[1] > last[1]
                     /\ last[1] + 1 .. last'[1] - 1 \subseteq overflow ]_vars
    BY StreamContinues
  <1> QED BY <1>1, <1>2, <1>3, <1>4, TypeInit, TypeStep, SessionInit, SessionStep, OwnerInit, PTL
             DEF Spec, StreamIntact
=============================================================================
