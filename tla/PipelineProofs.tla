--------------------------- MODULE PipelineProofs ---------------------------
(***************************************************************************)
(* Theorems about the programs that work on the stream by themselves, and  *)
(* their proofs: rtl_adsb and rtl_sdr (StreamTools), for every length of a *)
(* block and every count of -n, and rtl_fm (RtlFm, below as Fm), for every *)
(* squelch, number of measurements and number of muted blocks.  The two    *)
(* have nothing to do with one another: a theorem speaks of one of them.   *)
(***************************************************************************)
EXTENDS StreamTools, SequenceTheorems, TLAPS

-----------------------------------------------------------------------------
(***************************************************************************)
(* rtl_adsb and rtl_sdr: types.                                            *)
(***************************************************************************)
USE DEF Programs, Cancelers, Lib!Statuses

CountsOK ==
    /\ bytes_to_read \in 0 .. asked /\ asked \in Counts
    /\ received \in 0 .. MaxSent /\ n_read \in 0 .. BlockLen
    /\ file \in Seq(1 .. MaxSent)

\* A block that is to be written is the end of what has been received.
InWrite == mpc = "write" => n_read <= received

TypeInv == TypeOK /\ InWrite

\* The steps that touch neither the count, the file nor the block at hand.
SdrFrame == UNCHANGED <<bytes_to_read, asked, received, n_read, file, torn, onEnd>>

\* The actions of Next, in the groups that the proofs tell apart.
Data == SdrCallback \/ SyncRead \/ SdrWrite \/ SyncWrite

Control ==
    \/ MainCreate \/ MainRead \/ MainCancel \/ MainKill \/ MainJoin \/ MainClose \/ MainRests
    \/ Callback \/ CallbackSignal \/ SdrCancel \/ LoseDevice \/ MainReturns
    \/ Demod \/ SpuriousWakeup \/ DemodKilled
    \/ SignalCaught \/ HandlerCancel

LEMMA NextCases == [Next]_vars <=> Data \/ Control \/ UNCHANGED vars
  BY DEF Next, Main, Data, Control

\* What a step of rtlsdr_cancel_async() does.
LEMMA CancelFacts ==
    ASSUME NEW t \in Cancelers, NEW pc, NEW newpc, NEW next, CancelStep(t, pc, newpc, next)
    PROVE  /\ pc \in {"test", "store"} /\ newpc \in {"store", next}
           /\ pc = "store" => newpc = next /\ t \in sawRunning /\ sawRunning' = sawRunning \ {t}
           /\ pc = "test" /\ newpc = next => next = "store" \/ sawRunning' = sawRunning
           /\ pc = "test" /\ newpc # next =>
                newpc = "store" /\ sawRunning' = sawRunning \cup {t}
           /\ async_status' \in {async_status, "CANCELING"}
           /\ UNCHANGED <<dev_lost, reading>>
  BY DEF CancelStep, Lib!CancelTest, Lib!CancelStore

\* What the steps of the control do to main's place, to the data and to do_exit.
LEMMA ControlFacts ==
    ASSUME TypeOK, Control
    PROVE  /\ SdrFrame /\ UNCHANGED program
           /\ mpc' \in {"setup", "start", "read", "signal", "sync", "write", "test", "store",
                        "kill", "join", "close", "closed"}
           /\ mpc' = "write" <=> mpc = "write"
           /\ mpc \in {"close", "closed"} => mpc' \in {"close", "closed"}
           /\ cpc' \in {"none", "test", "store"}
           /\ do_exit' = do_exit \/ do_exit' = TRUE
  <1> USE DEF SdrFrame, sdrVars, demodVars, TypeOK
  <1>1. CASE MainCreate \/ MainRead \/ MainKill \/ MainJoin \/ MainClose
    BY <1>1 DEF MainCreate, MainRead, MainKill, MainJoin, MainClose
  <1>2. CASE Callback \/ CallbackSignal \/ LoseDevice \/ MainReturns
    BY <1>2 DEF Callback, CallbackSignal, LoseDevice, MainReturns
  <1>3. CASE DemodLoop \/ DemodLook \/ DemodWork \/ SpuriousWakeup \/ DemodKilled \/ SignalCaught
    BY <1>3 DEF DemodLoop, DemodLook, DemodWork, SpuriousWakeup, DemodKilled, SignalCaught
  <1>4. CASE MainCancel
    <2>1. mpc \in {"test", "store"} /\ mpc' \in {"store", "kill"}
      BY <1>4, CancelFacts DEF MainCancel
    <2> QED BY <1>4, <2>1 DEF MainCancel
  <1>5. CASE SdrCancel
    <2>1. cpc' \in {"store", "none"}
      BY <1>5, CancelFacts DEF SdrCancel
    <2> QED BY <1>5, <2>1 DEF SdrCancel
  <1>6. CASE DemodCancel \/ HandlerCancel
    BY <1>6 DEF DemodCancel, HandlerCancel
  <1>7. CASE MainRests
    BY <1>7 DEF MainRests, vars
  <1> QED BY <1>1, <1>2, <1>3, <1>4, <1>5, <1>6, <1>7 DEF Control, Demod

\* A block is given to rtl_sdr, or the synchronous read fails.
LEMMA GetFacts ==
    ASSUME TypeOK, SdrCallback \/ SyncRead
    PROVE  /\ UNCHANGED <<program, dpc, hpc, killed, fresh, asked, bytes_to_read, file, torn, onEnd,
                         libVars>>
           /\ cpc' \in {"none", "test", "store"}
           /\ \/ /\ mpc = "sync" /\ mpc' = "close"
                 /\ UNCHANGED <<received, n_read, do_exit>>
              \/ /\ mpc' = "write" /\ ~do_exit
                 /\ do_exit' \in BOOLEAN
                 /\ \E n \in 0 .. BlockLen :
                      /\ n_read' = n /\ received' = received + n /\ received + n <= MaxSent
                      /\ Last(n) => do_exit' = TRUE
  <1> USE ConstantsAssumption DEF TypeOK, demodVars
  <1>1. CASE SyncRead /\ mpc' # "write"
    BY <1>1 DEF SyncRead, GetBlock
  <1>2. CASE SdrCallback \/ (SyncRead /\ mpc' = "write")
    <2>1. PICK n \in 0 .. BlockLen : GetBlock(n) /\ ~do_exit
      BY <1>2 DEF SdrCallback, SyncRead
    <2>2. do_exit' = (do_exit \/ Last(n)) /\ n_read' = n
      BY <2>1 DEF GetBlock
    <2>3. do_exit' \in BOOLEAN /\ (Last(n) => do_exit' = TRUE)
      BY <2>2, Zenon
    <2>4. cpc' \in {"none", "test", "store"}
      BY <1>2 DEF SdrCallback, SyncRead
    <2>5. UNCHANGED <<program, dpc, hpc, killed, fresh, asked, bytes_to_read, file, torn, onEnd, libVars>>
      BY <1>2 DEF SdrCallback, SyncRead
    <2> QED BY <2>1, <2>2, <2>3, <2>4, <2>5 DEF GetBlock
  <1> QED BY <1>1, <1>2

LEMMA ToWriteFacts ==
    ASSUME TypeOK
    PROVE  /\ ToWrite \in 0 .. n_read
           /\ bytes_to_read > 0 => ToWrite <= bytes_to_read
           /\ CountDown \in 0 .. bytes_to_read
           /\ bytes_to_read > 0 => CountDown = bytes_to_read - ToWrite
           /\ bytes_to_read = 0 => CountDown = 0
           /\ Last(n_read) => ToWrite = bytes_to_read
           /\ ~Last(n_read) => ToWrite = n_read
  BY ConstantsAssumption DEF TypeOK, ToWrite, CountDown, Last

\* A block is written, or a part of it, and counted unless the loop of rtl_sdr -S ends.
LEMMA WriteFacts ==
    ASSUME TypeOK, SdrWrite \/ SyncWrite
    PROVE  /\ UNCHANGED <<program, dpc, hpc, killed, fresh, do_exit, asked, received, n_read, libVars>>
           /\ mpc = "write" /\ cpc' \in {"none", "test", "store"} /\ onEnd' \in BOOLEAN
           /\ \E n \in 0 .. ToWrite :
                /\ file' = file \o [k \in 1 .. n |-> received - n_read + k]
                /\ torn' = (torn \/ n < ToWrite)
           /\ \/ /\ mpc' \in {"read", "sync"} /\ bytes_to_read' = CountDown
                 /\ onEnd' = (onEnd \/ OnEnd)
              \/ mpc' = "close" /\ UNCHANGED <<bytes_to_read, onEnd>>
           /\ program # "rtl_adsb" /\ (mpc' = "sync" => program = "rtl_sdr_S")
  <1> USE DEF TypeOK, demodVars
  <1>1. (onEnd \/ OnEnd) \in BOOLEAN
    BY Zenon
  <1>2. CASE SdrWrite
    BY <1>1, <1>2 DEF SdrWrite, WriteSome
  <1>3. CASE SyncWrite
    BY <1>1, <1>3 DEF SyncWrite, WriteSome
  <1> QED BY <1>2, <1>3

\* The file after a write.
LEMMA FileFacts ==
    ASSUME TypeInv, mpc = "write", NEW n \in 0 .. ToWrite,
           file' = file \o [k \in 1 .. n |-> received - n_read + k]
    PROVE  /\ file' \in Seq(1 .. MaxSent)
           /\ Len(file') = Len(file) + n
           /\ \A k \in DOMAIN file : file'[k] = file[k]
           /\ \A k \in DOMAIN file' \ DOMAIN file : file'[k] = received - n_read + k - Len(file)
           /\ DOMAIN file' = 1 .. Len(file) + n /\ DOMAIN file = 1 .. Len(file)
  <1> DEFINE piece == [k \in 1 .. n |-> received - n_read + k]
  <1>1. n \in Nat /\ received - n_read \in Nat /\ received - n_read + n <= MaxSent
    BY ToWriteFacts, ConstantsAssumption DEF TypeInv, TypeOK, InWrite
  <1>2. \A k \in 1 .. n : piece[k] \in 1 .. MaxSent
    BY <1>1, ConstantsAssumption
  <1>3. piece \in [1 .. n -> 1 .. MaxSent]
    BY <1>2
  <1>4. piece \in Seq(1 .. MaxSent) /\ Len(piece) = n
    BY <1>1, <1>3
  <1>5. file \in Seq(1 .. MaxSent) /\ Len(file) \in Nat
    BY DEF TypeInv, TypeOK
  <1>6. \A k \in 1 .. n : piece[k] = received - n_read + k
    OBVIOUS
  <1> HIDE DEF piece
  <1>7. file' = file \o piece
    BY DEF piece
  <1>8. file' \in Seq(1 .. MaxSent) /\ Len(file') = Len(file) + n
    BY <1>4, <1>5, <1>7, ConcatProperties
  <1>9. DOMAIN file' = 1 .. Len(file) + n /\ DOMAIN file = 1 .. Len(file) /\ DOMAIN piece = 1 .. n
    BY <1>4, <1>5, <1>8
  <1>10. \A k \in 1 .. Len(file) : file'[k] = file[k]
    BY <1>4, <1>5, <1>7, ConcatProperties
  <1>11. ASSUME NEW k \in (1 .. Len(file) + n) \ (1 .. Len(file))
         PROVE  file'[k] = received - n_read + k - Len(file)
    <2>1. k \in Nat /\ Len(file) < k /\ k <= Len(file) + n /\ k - Len(file) \in 1 .. n
      BY <1>1, <1>5
    <2>2. file'[k] = piece[k - Len(file)]
      <3>1. k \in 1 .. Len(file) + Len(piece) /\ ~(k <= Len(file))
        BY <1>4, <1>5, <2>1
      <3> QED BY <1>4, <1>5, <1>7, <3>1, ConcatProperties
    <2>3. piece[k - Len(file)] = received - n_read + (k - Len(file))
      BY <1>6, <2>1
    <2> QED BY <1>1, <1>5, <2>1, <2>2, <2>3
  <1> QED BY <1>8, <1>9, <1>10, <1>11

LEMMA LibTypeStep ==
    ASSUME Lib!TypeOK, Control \/ UNCHANGED libVars
    PROVE  Lib!TypeOK'
  <1> USE DEF libVars
  <1>1. ASSUME NEW t \in Cancelers, Lib!CancelTest(t) \/ Lib!CancelStore(t) PROVE Lib!TypeOK'
    BY <1>1 DEF Lib!TypeOK, Lib!CancelTest, Lib!CancelStore
  <1>2. CASE MainCancel \/ SdrCancel \/ DemodCancel \/ HandlerCancel
    BY <1>1, <1>2 DEF MainCancel, SdrCancel, DemodCancel, HandlerCancel, CancelStep
  <1>3. CASE MainRead \/ LoseDevice
    <2>1. dev_lost' \in BOOLEAN /\ reading' \in BOOLEAN
      BY <1>3 DEF Lib!TypeOK, MainRead, LoseDevice, Lib!BeginRead, Lib!LoseDevice
    <2> QED BY <1>3, <2>1 DEF Lib!TypeOK, MainRead, LoseDevice, Lib!BeginRead, Lib!LoseDevice
  <1>4. CASE MainReturns
    <2>1. dev_lost' \in BOOLEAN /\ reading' \in BOOLEAN
      BY <1>4 DEF Lib!TypeOK, MainReturns, Lib!EndRead, Lib!FailRead
    <2> QED BY <1>4, <2>1 DEF Lib!TypeOK, MainReturns, Lib!EndRead, Lib!FailRead
  <1>5. CASE UNCHANGED libVars
    BY <1>5 DEF Lib!TypeOK
  <1>6. ASSUME Control PROVE \/ MainCancel \/ SdrCancel \/ DemodCancel \/ HandlerCancel
                             \/ MainRead \/ LoseDevice \/ MainReturns \/ UNCHANGED libVars
    BY <1>6 DEF Control, Demod, MainCreate, MainKill, MainJoin, MainClose, MainRests, Callback,
                CallbackSignal, DemodLoop, DemodLook, DemodWork, SpuriousWakeup, DemodKilled, SignalCaught,
                vars
  <1> QED BY <1>2, <1>3, <1>4, <1>5, <1>6

LEMMA ControlTypes ==
    ASSUME TypeOK, Control
    PROVE  /\ dpc' \in {"none", "loop", "towait", "wait", "work", "passes", "test", "store",
                       "done"}
           /\ hpc' \in {"idle", "test", "store"}
           /\ {killed', do_exit', fresh', torn', onEnd'} \subseteq BOOLEAN
  <1> USE DEF TypeOK, demodVars, sdrVars
  <1>1. CASE MainCreate \/ MainRead \/ MainJoin \/ MainClose \/ LoseDevice \/ MainReturns
    BY <1>1 DEF MainCreate, MainRead, MainJoin, MainClose, LoseDevice, MainReturns
  <1>2. CASE CallbackSignal
    BY <1>2 DEF CallbackSignal, Signalled
  <1>3. CASE MainKill
    <2>1. killed' = (dpc # "done")
      BY <1>3 DEF MainKill, Kill
    <2>2. killed' \in BOOLEAN
      BY <2>1
    <2> QED BY <1>3, <2>2 DEF MainKill
  <1>4. CASE \/ Callback \/ DemodLoop \/ DemodLook \/ DemodWork
             \/ SpuriousWakeup \/ DemodKilled \/ SignalCaught
    BY <1>4 DEF Callback, DemodLoop, DemodLook, DemodWork, SpuriousWakeup, DemodKilled, SignalCaught
  <1>5. CASE MainCancel \/ SdrCancel
    BY <1>5 DEF MainCancel, SdrCancel
  <1>6. CASE DemodCancel
    <2>1. dpc' \in {"store", "done"}
      BY <1>6, CancelFacts DEF DemodCancel
    <2> QED BY <1>6, <2>1 DEF DemodCancel
  <1>7. CASE HandlerCancel
    <2>1. hpc' \in {"store", "idle"}
      BY <1>7, CancelFacts DEF HandlerCancel
    <2> QED BY <1>7, <2>1 DEF HandlerCancel
  <1>8. CASE MainRests
    BY <1>8 DEF MainRests, vars
  <1> QED BY <1>1, <1>2, <1>3, <1>4, <1>5, <1>6, <1>7, <1>8 DEF Control, Demod

LEMMA TypeInit == Init => TypeInv
  <1> SUFFICES ASSUME Init PROVE TypeInv
    OBVIOUS
  <1>1. Lib!TypeOK
    BY DEF Init, Lib!Init, Lib!TypeOK
  <1>2. bytes_to_read \in 0 .. asked /\ asked \in Counts /\ received \in 0 .. MaxSent
        /\ n_read \in 0 .. BlockLen /\ file \in Seq(1 .. MaxSent)
    BY ConstantsAssumption DEF Init
  <1> QED BY <1>1, <1>2 DEF Init, TypeInv, TypeOK, InWrite

LEMMA TypeStep == TypeInv /\ [Next]_vars => TypeInv'
  <1> SUFFICES ASSUME TypeInv, [Next]_vars PROVE TypeInv'
    OBVIOUS
  <1>1. CASE UNCHANGED vars
    BY <1>1 DEF TypeInv, TypeOK, InWrite, vars, demodVars, sdrVars, libVars, Lib!TypeOK
  <1>2. CASE Control
    <2>1. TypeOK /\ Lib!TypeOK
      BY DEF TypeInv, TypeOK
    <2>2. Lib!TypeOK'
      BY <1>2, <2>1, LibTypeStep
    <2>3. TypeOK'
      BY <1>2, <2>1, <2>2, ControlFacts, ControlTypes DEF TypeOK, SdrFrame
    <2>4. InWrite'
      BY <1>2, <2>1, ControlFacts DEF TypeInv, InWrite, SdrFrame
    <2> QED BY <2>3, <2>4 DEF TypeInv
  <1>3. CASE SdrCallback \/ SyncRead
    <2>1. TypeOK /\ Lib!TypeOK
      BY DEF TypeInv, TypeOK
    <2>2. Lib!TypeOK'
      BY <1>3, <2>1, GetFacts, LibTypeStep
    <2>3. received' \in 0 .. MaxSent /\ n_read' \in 0 .. BlockLen
          /\ (mpc' = "write" => n_read' <= received')
      <3>1. CASE mpc' = "close"
        BY <1>3, <2>1, <3>1, GetFacts DEF TypeOK
      <3>2. CASE mpc' # "close"
        <4>1. PICK n \in 0 .. BlockLen :
                n_read' = n /\ received' = received + n /\ received + n <= MaxSent
          BY <1>3, <2>1, <3>2, GetFacts
        <4>2. received \in Nat /\ BlockLen \in Nat /\ MaxSent \in Nat
          BY <2>1, ConstantsAssumption DEF TypeOK
        <4> QED BY <4>1, <4>2
      <3> QED BY <3>1, <3>2
    <2>4. mpc' \in {"write", "close"} /\ do_exit' \in BOOLEAN
      BY <1>3, <2>1, GetFacts DEF TypeOK
    <2> QED BY <1>3, <2>1, <2>2, <2>3, <2>4, GetFacts DEF TypeInv, TypeOK, InWrite
  <1>4. CASE SdrWrite \/ SyncWrite
    <2>1. TypeOK /\ Lib!TypeOK
      BY DEF TypeInv, TypeOK
    <2>2. Lib!TypeOK'
      BY <1>4, <2>1, WriteFacts, LibTypeStep
    <2>3. PICK n \in 0 .. ToWrite :
                /\ file' = file \o [k \in 1 .. n |-> received - n_read + k]
                /\ torn' = (torn \/ n < ToWrite)
      BY <1>4, <2>1, WriteFacts
    <2>4. torn' \in BOOLEAN
      BY <2>3, Zenon
    <2>5. file' \in Seq(1 .. MaxSent)
      BY <1>4, <2>1, <2>3, WriteFacts, FileFacts
    <2>6. bytes_to_read' \in 0 .. asked'
      BY <1>4, <2>1, WriteFacts, ToWriteFacts, ConstantsAssumption DEF TypeOK
    <2>7. mpc' \in {"read", "close", "sync"}
      BY <1>4, <2>1, WriteFacts
    <2> QED BY <1>4, <2>1, <2>2, <2>4, <2>5, <2>6, <2>7, WriteFacts DEF TypeInv, TypeOK, InWrite
  <1> QED BY <1>1, <1>2, <1>3, <1>4, NextCases DEF Data

\* Every variable of rtl_adsb and rtl_sdr keeps its type: the file holds bytes that were
\* received, and the count of -n never falls below zero or rises.
THEOREM TypeCorrect == Spec => []TypeOK
  <1>1. TypeInv => TypeOK
    BY DEF TypeInv
  <1> QED BY <1>1, TypeInit, TypeStep, PTL DEF Spec

-----------------------------------------------------------------------------
(***************************************************************************)
(* The demodulator's thread.  rtl_sdr has none; rtl_adsb's is there when   *)
(* main begins to read, and main passes its join only after its end.       *)
(***************************************************************************)
ThreadInv ==
    /\ program # "rtl_adsb" \/ mpc = "setup" => dpc = "none"
    /\ mpc = "write" => program # "rtl_adsb"
    /\ mpc = "sync" => program = "rtl_sdr_S"
    /\ mpc \in {"close", "closed"} => dpc \in {"none", "done"}
    /\ "demod" \in sawRunning <=> dpc = "store"

LEMMA ThreadInit == Init => ThreadInv
  BY DEF Init, ThreadInv, Lib!Init

\* A thread that runs has a place, and no other thread's cancel is taken for its own.
LEMMA ThreadStep == TypeOK /\ ThreadInv /\ [Next]_vars => ThreadInv'
  <1> SUFFICES ASSUME TypeOK, ThreadInv, [Next]_vars PROVE ThreadInv'
    OBVIOUS
  <1> USE DEF ThreadInv, demodVars, sdrVars, libVars
  <1>1. CASE UNCHANGED vars
    BY <1>1 DEF vars
  <1>2. CASE SdrCallback \/ SyncRead
    <2>1. mpc \in {"read", "sync"} /\ mpc' \in {"write", "close"} /\ program # "rtl_adsb"
      BY <1>2 DEF SdrCallback, SyncRead, GetBlock
    <2> QED BY <1>2, <2>1, GetFacts
  <1>3. CASE SdrWrite \/ SyncWrite
    <2>1. mpc = "write" /\ mpc' \in {"read", "close", "sync"}
      BY <1>3, WriteFacts
    <2> QED BY <1>3, <2>1, WriteFacts
  <1>4. CASE MainCreate \/ MainKill \/ MainJoin \/ MainClose \/ MainRests
    BY <1>4 DEF MainCreate, MainKill, MainJoin, MainClose, MainRests, DemodEnded, TypeOK, vars
  <1>5. CASE MainRead \/ MainReturns \/ LoseDevice
    BY <1>5 DEF MainRead, MainReturns, LoseDevice, Lib!BeginRead, Lib!EndRead, Lib!FailRead,
                Lib!LoseDevice, TypeOK
  <1>6. CASE Callback \/ CallbackSignal \/ SignalCaught
    BY <1>6 DEF Callback, CallbackSignal, Signalled, SignalCaught
  <1>7. CASE DemodLoop \/ DemodLook \/ DemodWork \/ SpuriousWakeup \/ DemodKilled
    BY <1>7 DEF DemodLoop, DemodLook, DemodWork, SpuriousWakeup, DemodKilled
  <1>8. ASSUME NEW t \in {"main", "ctrlc"}, Lib!CancelTest(t) \/ Lib!CancelStore(t)
        PROVE  "demod" \in sawRunning' <=> "demod" \in sawRunning
    BY <1>8 DEF Lib!CancelTest, Lib!CancelStore
  <1>9. CASE SdrCancel \/ HandlerCancel
    <2>1. "demod" \in sawRunning' <=> "demod" \in sawRunning
      BY <1>8, <1>9 DEF SdrCancel, HandlerCancel, CancelStep
    <2> QED BY <1>9, <2>1 DEF SdrCancel, HandlerCancel
  <1>10. CASE MainCancel
    <2>1. "demod" \in sawRunning' <=> "demod" \in sawRunning
      BY <1>8, <1>10 DEF MainCancel, CancelStep
    <2>2. mpc \in {"test", "store"} /\ mpc' \in {"store", "kill"}
      BY <1>10, CancelFacts DEF MainCancel
    <2> QED BY <1>10, <2>1, <2>2 DEF MainCancel
  <1>11. CASE DemodCancel
    <2>1. dpc \in {"test", "store"} /\ ("demod" \in sawRunning' <=> dpc' = "store")
      BY <1>11 DEF DemodCancel, CancelStep, Lib!CancelTest, Lib!CancelStore
    <2>2. dpc' \in {"store", "done"} /\ mpc \notin {"close", "closed"}
      BY <1>11, <2>1, CancelFacts DEF DemodCancel
    <2> QED BY <1>11, <2>1, <2>2 DEF DemodCancel
  <1> QED BY <1>1, <1>2, <1>3, <1>4, <1>5, <1>6, <1>7, <1>9, <1>10, <1>11, NextCases
          DEF Data, Control, Demod

\* main closes the device and frees the buffer only when the demodulator has left its
\* loop, wherever pthread_cancel() or the end of the stream found it.
THEOREM FreedLast == Spec => []FreedUnused
  <1>1. ThreadInv => FreedUnused
    BY DEF ThreadInv, FreedUnused
  <1>2. TypeInv => TypeOK
    BY DEF TypeInv
  <1> QED BY <1>1, <1>2, TypeInit, TypeStep, ThreadInit, ThreadStep, PTL DEF Spec

-----------------------------------------------------------------------------
(***************************************************************************)
(* The file of rtl_sdr.                                                    *)
(***************************************************************************)
Over == mpc \in {"close", "closed"}

\* What is at hand follows what has been written; after the last block, or a signal,
\* nothing more comes.
Filled ==
    /\ ~torn => /\ \A k \in DOMAIN file : file[k] = k
                /\ mpc = "write" => Len(file) = received - n_read
                /\ mpc # "write" /\ ~do_exit => Len(file) = received
    /\ mpc = "write" => (Last(n_read) => do_exit)

\* What is left of -n: it ends with do_exit, or by a block that ends where -n does.
Remaining ==
    /\ asked > 0 /\ ~onEnd =>
         /\ ~torn => Len(file) <= asked
         /\ ~torn /\ ~Over => Len(file) + bytes_to_read = asked
         /\ ~Over => bytes_to_read > 0 \/ (do_exit /\ mpc # "write")
    /\ onEnd => asked > 0 /\ bytes_to_read = 0 /\ (~torn => Len(file) >= asked)

FileInv == Filled /\ Remaining

LEMMA FileInit == Init => FileInv
  <1> SUFFICES ASSUME Init PROVE FileInv
    OBVIOUS
  <1>1. asked \in Nat /\ bytes_to_read = asked /\ mpc = "setup" /\ file = <<>> /\ received = 0 /\ ~onEnd
    BY ConstantsAssumption DEF Init
  <1>2. Len(file) = 0 /\ DOMAIN file = {}
    BY <1>1
  <1> QED BY <1>1, <1>2 DEF FileInv, Filled, Remaining

\* Steps that leave the data alone, if they do not begin or end a write.
LEMMA FileFrame ==
    ASSUME TypeInv, FileInv, SdrFrame, UNCHANGED program, mpc' = "write" <=> mpc = "write",
           Over => Over', do_exit' = do_exit \/ do_exit' = TRUE
    PROVE  FileInv'
  <1> USE DEF FileInv, SdrFrame
  <1>1. Last(n_read)' = Last(n_read)
    BY DEF Last
  <1>2. Filled'
    BY <1>1 DEF Filled
  <1>3. Remaining'
    BY DEF Remaining
  <1> QED BY <1>2, <1>3

LEMMA GetStep == ASSUME TypeInv, ThreadInv, FileInv, SdrCallback \/ SyncRead PROVE FileInv'
  <1> USE DEF FileInv
  <1>1. TypeOK
    BY DEF TypeInv
  <1>2. CASE mpc' = "close"
    <2>1. mpc # "write" /\ SdrFrame /\ UNCHANGED <<program, do_exit>> /\ ~Over
      BY <1>1, <1>2, GetFacts DEF SdrFrame, Over
    <2> QED BY <1>2, <2>1, FileFrame
  <1>3. CASE mpc' # "close"
    <2>1. PICK n \in 0 .. BlockLen :
            /\ n_read' = n /\ received' = received + n
            /\ Last(n) => do_exit' = TRUE
      BY <1>1, <1>3, GetFacts
    <2>2. mpc' = "write" /\ ~do_exit /\ UNCHANGED <<program, asked, bytes_to_read, file, torn, onEnd>>
      BY <1>1, <1>3, GetFacts
    <2>3. mpc # "write" /\ ~Over
      BY <1>1, <1>3 DEF SdrCallback, SyncRead, Over
    <2>4. Last(n_read)' = Last(n)
      BY <2>1, <2>2 DEF Last
    <2>5. Filled'
      <3>1. ~torn => Len(file) = received /\ received \in Nat
        BY <1>1, <2>2, <2>3 DEF Filled, TypeOK
      <3>2. ~torn => Len(file') = received' - n_read'
        BY <2>1, <2>2, <3>1, ConstantsAssumption
      <3> QED BY <2>1, <2>2, <2>4, <3>2 DEF Filled
    <2>6. Remaining'
      BY <2>2, <2>3 DEF Remaining, Over
    <2> QED BY <2>5, <2>6
  <1> QED BY <1>2, <1>3

\* Numbers of a write, whether it is the last or not.
LEMMA Written ==
    ASSUME TypeInv, FileInv, mpc = "write", asked > 0, ~onEnd
    PROVE  /\ bytes_to_read > 0 /\ asked \in Nat /\ bytes_to_read \in Nat /\ ToWrite \in Nat
           /\ CountDown = bytes_to_read - ToWrite
           /\ ToWrite <= bytes_to_read
           /\ OnEnd => ToWrite = bytes_to_read
           /\ CountDown > 0 \/ OnEnd \/ do_exit
  <1>1. TypeOK /\ asked \in Nat /\ bytes_to_read \in Nat /\ n_read \in Nat
    BY ConstantsAssumption DEF TypeInv, TypeOK
  <1>2. bytes_to_read > 0
    BY DEF FileInv, Remaining, Over
  <1>3. ToWrite \in Nat /\ ToWrite <= bytes_to_read /\ CountDown = bytes_to_read - ToWrite
    BY <1>1, <1>2, ToWriteFacts
  <1>4. CASE Last(n_read)
    BY <1>1, <1>2, <1>3, <1>4 DEF FileInv, Filled, Last, OnEnd
  <1>5. CASE ~Last(n_read)
    <2>1. ToWrite = n_read /\ n_read <= bytes_to_read
      BY <1>1, <1>2, <1>5, ToWriteFacts DEF Last
    <2> QED BY <1>1, <1>2, <1>3, <2>1 DEF OnEnd
  <1> QED BY <1>4, <1>5

LEMMA WriteStep ==
    ASSUME TypeInv, FileInv, SdrWrite \/ SyncWrite PROVE FileInv'
  <1>1. TypeOK
    BY DEF TypeInv
  <1>2. PICK n \in 0 .. ToWrite :
          /\ file' = file \o [k \in 1 .. n |-> received - n_read + k]
          /\ torn' = (torn \/ n < ToWrite)
    BY <1>1, WriteFacts
  <1>3. /\ mpc = "write" /\ mpc' \in {"read", "close", "sync"}
        /\ UNCHANGED <<program, do_exit, asked, received, n_read>>
    BY <1>1, WriteFacts
  <1>4. n \in Nat /\ n <= ToWrite /\ Len(file) \in Nat /\ Len(file') = Len(file) + n
    BY <1>1, <1>2, <1>3, ToWriteFacts, FileFacts DEF TypeOK
  <1>5. ~torn' => ~torn /\ n = ToWrite
    <2>1. ~torn' => ~torn /\ ~(n < ToWrite)
      BY <1>2, Zenon
    <2> QED BY <1>1, <1>4, <2>1, ToWriteFacts
  <1>6. Filled'
    <2> SUFFICES ASSUME ~torn'
                 PROVE  (\A k \in DOMAIN file' : file'[k] = k) /\ (~do_exit' => Len(file') = received')
      <3>1. mpc' # "write"
        BY <1>3
      <3> QED BY <3>1, Zenon DEF Filled
    <2>1. Len(file) = received - n_read /\ \A k \in DOMAIN file : file[k] = k
      BY <1>3, <1>5 DEF FileInv, Filled
    <2>2. \A k \in DOMAIN file' : file'[k] = k
      <3> TAKE k \in DOMAIN file'
      <3>1. CASE k \in DOMAIN file
        BY <1>2, <1>3, <2>1, <3>1, FileFacts
      <3>2. CASE k \notin DOMAIN file
        <4>1. file'[k] = received - n_read + k - Len(file) /\ k \in 1 .. Len(file) + n
          BY <1>2, <1>3, <3>2, FileFacts
        <4>2. k \in Nat /\ received - n_read \in Nat
          BY <1>1, <1>4, <2>1, <4>1
        <4> QED BY <1>4, <2>1, <4>1, <4>2
      <3> QED BY <3>1, <3>2
    <2>3. ASSUME ~do_exit PROVE Len(file') = received
      <3>1. ~Last(n_read)
        BY <1>3, <2>3 DEF FileInv, Filled
      <3>2. n = n_read
        BY <1>1, <1>5, <3>1, ToWriteFacts
      <3> QED BY <1>1, <1>4, <2>1, <3>2 DEF TypeOK
    <2> QED BY <1>3, <2>2, <2>3
  <1>7. \/ bytes_to_read' = CountDown /\ (onEnd' <=> onEnd \/ OnEnd) /\ ~Over'
        \/ UNCHANGED <<bytes_to_read, onEnd>> /\ Over'
    <2>1. \/ bytes_to_read' = CountDown /\ onEnd' = (onEnd \/ OnEnd) /\ mpc' \in {"read", "sync"}
          \/ UNCHANGED <<bytes_to_read, onEnd>> /\ mpc' = "close"
      BY <1>1, WriteFacts
    <2>2. onEnd' = (onEnd \/ OnEnd) => (onEnd' <=> onEnd \/ OnEnd)
      BY Zenon
    <2> QED BY <2>1, <2>2 DEF Over
  <1>8. Remaining'
    <2>1. CASE onEnd
      <3>1. asked > 0 /\ bytes_to_read = 0 /\ (~torn => Len(file) >= asked) /\ asked \in Nat
        BY <1>1, <2>1, ConstantsAssumption DEF FileInv, Remaining, TypeOK
      <3>2. onEnd' /\ bytes_to_read' = 0
        BY <1>1, <1>7, <2>1, <3>1, ToWriteFacts
      <3> QED BY <1>3, <1>4, <1>5, <3>1, <3>2 DEF Remaining
    <2>2. CASE ~onEnd /\ asked > 0
      <3>1. ~torn => Len(file) + bytes_to_read = asked
        BY <1>3, <2>2 DEF FileInv, Remaining, Over
      <3>2. /\ bytes_to_read > 0 /\ asked \in Nat /\ bytes_to_read \in Nat /\ ToWrite \in Nat
            /\ CountDown = bytes_to_read - ToWrite
            /\ ToWrite <= bytes_to_read
            /\ OnEnd => ToWrite = bytes_to_read
            /\ CountDown > 0 \/ OnEnd \/ do_exit
        BY <1>3, <2>2, Written
      <3>3. CASE OnEnd /\ onEnd'
        <4>1. bytes_to_read' = CountDown
          BY <1>7, <2>2, <3>3, Zenon
        <4>2. bytes_to_read' = 0
          BY <3>2, <3>3, <4>1
        <4> QED BY <1>3, <1>4, <1>5, <2>2, <3>1, <3>2, <3>3, <4>2 DEF Remaining
      <3>4. CASE ~onEnd'
        <4>1. ~torn' => Len(file') <= asked
          BY <1>4, <1>5, <3>1, <3>2
        <4>2. ~Over' => bytes_to_read' = CountDown /\ ~OnEnd
          BY <1>7, <3>4
        <4> QED BY <1>3, <1>4, <1>5, <3>1, <3>2, <3>4, <4>1, <4>2 DEF Remaining
      <3> QED BY <1>7, <2>2, <3>3, <3>4
    <2>3. CASE ~onEnd /\ ~(asked > 0)
      <3>1. bytes_to_read = 0
        BY <1>1, <2>3, ConstantsAssumption DEF TypeOK
      <3>2. ~onEnd'
        BY <1>7, <2>3, <3>1 DEF OnEnd
      <3> QED BY <1>3, <2>3, <3>2 DEF Remaining
    <2> QED BY <2>1, <2>2, <2>3
  <1> QED BY <1>6, <1>8 DEF FileInv

LEMMA FileStep == TypeInv /\ ThreadInv /\ FileInv /\ [Next]_vars => FileInv'
  <1> SUFFICES ASSUME TypeInv, ThreadInv, FileInv, [Next]_vars PROVE FileInv'
    OBVIOUS
  <1>1. CASE UNCHANGED vars
    BY <1>1, FileFrame DEF vars, sdrVars, SdrFrame, Over
  <1>2. CASE Control
    BY <1>2, ControlFacts, FileFrame DEF TypeInv, Over
  <1> QED BY <1>1, <1>2, GetStep, WriteStep, NextCases DEF Data

\* For every length of a block and every count of -n, and whatever of each block the device
\* delivers, the file of rtl_sdr is the start of the stream, has not more than -n asked and
\* lacks what is left to read, as long as no write was short; it passes -n only when a block
\* ended where -n did.
THEOREM RecordingWhole == Spec => []FileWhole
  <1> DEFINE Inv == TypeInv /\ ThreadInv /\ FileInv
  <1>1. Init => Inv
    BY TypeInit, ThreadInit, FileInit
  <1>2. Inv /\ [Next]_vars => Inv'
    BY TypeStep, ThreadStep, FileStep DEF TypeInv
  <1>3. Inv => FileWhole
    BY DEF FileInv, Filled, Remaining, Over, FileWhole
  <1> HIDE DEF Inv
  <1> QED BY <1>1, <1>2, <1>3, PTL DEF Spec

-----------------------------------------------------------------------------
(***************************************************************************)
(* rtl_adsb and rtl_sdr over librtlsdr: what they do to the asynchronous   *)
(* read is what AsyncReadAPI allows, which AsyncRead implements.           *)
(***************************************************************************)
LEMMA LibSteps == [Next]_vars => [Lib!Next]_(Lib!vars)
  <1> SUFFICES ASSUME [Next]_vars PROVE [Lib!Next]_(Lib!vars)
    OBVIOUS
  <1> USE DEF libVars, Lib!vars
  <1>1. ASSUME NEW t \in Cancelers, NEW pc, NEW newpc, NEW next, CancelStep(t, pc, newpc, next)
        PROVE  Lib!Next
    BY <1>1 DEF CancelStep, Lib!Next
  <1>2. CASE MainCancel \/ SdrCancel \/ DemodCancel \/ HandlerCancel
    BY <1>1, <1>2 DEF MainCancel, SdrCancel, DemodCancel, HandlerCancel
  <1>3. CASE MainRead \/ LoseDevice \/ MainReturns
    BY <1>3 DEF MainRead, LoseDevice, MainReturns, Lib!Next
  <1>4. CASE Data
    BY <1>4 DEF Data, SdrCallback, SyncRead, SdrWrite, SyncWrite, WriteSome
  <1>5. CASE MainCreate \/ MainKill \/ MainJoin \/ MainClose \/ MainRests \/ UNCHANGED vars
    BY <1>5 DEF MainCreate, MainKill, MainJoin, MainClose, MainRests, vars
  <1>6. CASE Callback \/ CallbackSignal \/ SignalCaught
    BY <1>6 DEF Callback, CallbackSignal, SignalCaught
  <1>7. CASE DemodLoop \/ DemodLook \/ DemodWork \/ SpuriousWakeup \/ DemodKilled
    BY <1>7 DEF DemodLoop, DemodLook, DemodWork, SpuriousWakeup, DemodKilled
  <1> QED BY <1>2, <1>3, <1>4, <1>5, <1>6, <1>7, NextCases DEF Control, Demod

\* rtl_adsb and rtl_sdr drive the library as a caller of AsyncReadAPI does, so that what
\* is proved of AsyncRead applies to them.
THEOREM CallsAsAPI == Spec => Lib!Spec
  <1>1. Init => Lib!Init
    BY DEF Init
  <1> QED BY <1>1, LibSteps, PTL DEF Spec, Lib!Spec

-----------------------------------------------------------------------------
(***************************************************************************)
(* rtl_fm.  mpc, do_exit and async_status are its own here.                *)
(***************************************************************************)
CONSTANTS Conseq, NumMeas, LongMute

VARIABLES mode, spc, pc, lowpassed, o_result, mute, squelch_hits, numSummed, missed

Fm == INSTANCE RtlFm

\* pc has a place for each thread and for nothing else.
PlacesOf == [t \in Fm!Threads |-> pc[t]]

\* Steps that move a thread, or two, to a place that no signal leads to.
LEMMA FmMoves ==
    ASSUME pc = PlacesOf, NEW t \in Fm!Threads, NEW place, Fm!Goto(t, place)
    PROVE  /\ pc' = PlacesOf'
           /\ pc'[t] = place
           /\ \A u \in Fm!Threads : u # t => pc'[u] = pc[u]
  BY DEF PlacesOf, Fm!Goto

LEMMA FmSignals ==
    ASSUME pc = PlacesOf, NEW t \in Fm!Threads, NEW sender, NEW place,
           Fm!Signal(t, sender, place)
    PROVE  /\ pc' = PlacesOf'
           /\ \A u \in Fm!Threads : pc'[u] = IF u = t /\ pc[t] = "wait" THEN "awake"
                                            ELSE IF u = sender THEN place ELSE pc[u]
  BY DEF PlacesOf, Fm!Signal

-----------------------------------------------------------------------------
(***************************************************************************)
(* rtl_fm: types.  squelch_hits passes Conseq + 1 only until demod_thread  *)
(* has decided, which takes it back.                                       *)
(***************************************************************************)
FmPlaces(t) ==
    CASE t = "dongle" -> {"none", "begin", "stream", "signal", "done"}
      [] t = "demod" -> {"awake", "none", "test", "towait", "wait", "decide", "hop", "signal", "done"}
      [] t = "output" -> {"awake", "none", "test", "towait", "wait", "done"}
      [] t = "controller" -> {"awake", "none", "setup", "first", "test", "towait", "wait", "retune", "done"}

FmPlacesOK == pc = PlacesOf /\ \A t \in Fm!Threads : pc[t] \in FmPlaces(t)

FmFlagsOK ==
    /\ mode \in {"single", "scan", "commands"}
    /\ mpc \in {"start", "sleep", "run", "joinDongle", "joinDemod", "joinOutput",
                "joinController", "done"}
    /\ spc \in {"idle", "cancel"}
    /\ do_exit \in BOOLEAN /\ missed \in BOOLEAN
    /\ async_status \in {"INACTIVE", "RUNNING", "CANCELING"}
    /\ lowpassed \in {"new", "old"} /\ o_result \in {"new", "old"}

FmCountsOK ==
    /\ mute \in 0 .. LongMute
    /\ squelch_hits \in 0 .. Conseq + 2
    /\ pc["demod"] # "decide" => squelch_hits <= Conseq + 1
    /\ mpc \in {"start", "sleep"} => pc["demod"] = "none"
    /\ numSummed \in 0 .. NumMeas

FmActions ==
    \/ Fm!MainStart \/ Fm!MainCancel \/ Fm!MainJoin \/ Fm!MainDone \/ Fm!MainSleeps
    \/ Fm!DongleBegin \/ Fm!Block \/ Fm!DongleSignal \/ Fm!DongleReturns
    \/ Fm!FullDemod \/ Fm!DemodAsks \/ Fm!DemodHop \/ Fm!DemodLeaves \/ Fm!DemodCopies
    \/ Fm!DemodSignal \/ Fm!OutputWrite
    \/ Fm!ControllerSetup \/ Fm!ControllerStays \/ Fm!ControllerScans
    \/ Fm!ControllerNextLine \/ Fm!ControllerRetunes
    \/ (\E t \in Fm!Sleepers : Fm!Sleep(t) \/ Fm!SpuriousWakeup(t))
    \/ Fm!SignalCaught \/ Fm!HandlerCancel

LEMMA FmCases == [Fm!Next]_(Fm!vars) => FmActions \/ UNCHANGED Fm!vars
  BY DEF FmActions, Fm!Next, Fm!Main, Fm!Dongle, Fm!Demod, Fm!Controller

\* One thread moves.
LEMMA FmGoes ==
    ASSUME FmPlacesOK, NEW t \in Fm!Threads, NEW place \in FmPlaces(t), Fm!Goto(t, place)
    PROVE  FmPlacesOK'
  <1>1. pc' = PlacesOf' /\ pc'[t] = place /\ \A u \in Fm!Threads : u # t => pc'[u] = pc[u]
    BY FmMoves DEF FmPlacesOK
  <1> QED BY <1>1 DEF FmPlacesOK

\* One thread moves and wakes another.
LEMMA FmWakes ==
    ASSUME FmPlacesOK, NEW t \in Fm!Sleepers, NEW sender, NEW place,
           sender \in Fm!Threads => place \in FmPlaces(sender), Fm!Signal(t, sender, place)
    PROVE  FmPlacesOK'
  <1>1. t \in Fm!Threads /\ "awake" \in FmPlaces(t)
    BY DEF Fm!Sleepers, Fm!Threads, FmPlaces
  <1>2. pc' = PlacesOf' /\ \A u \in Fm!Threads :
            pc'[u] = IF u = t /\ pc[t] = "wait" THEN "awake" ELSE IF u = sender THEN place ELSE pc[u]
    BY <1>1, FmSignals DEF FmPlacesOK
  <1> QED BY <1>1, <1>2 DEF FmPlacesOK

LEMMA FmPlacesStep == FmPlacesOK /\ [Fm!Next]_(Fm!vars) => FmPlacesOK'
  <1> SUFFICES ASSUME FmPlacesOK, [Fm!Next]_(Fm!vars) PROVE FmPlacesOK'
    OBVIOUS
  <1>1. ASSUME UNCHANGED pc PROVE FmPlacesOK'
    BY <1>1 DEF FmPlacesOK, PlacesOf
  <1>2. CASE Fm!MainCancel \/ Fm!MainDone \/ Fm!MainSleeps \/ UNCHANGED Fm!vars
             \/ Fm!SignalCaught \/ Fm!HandlerCancel
    BY <1>1, <1>2 DEF Fm!MainCancel, Fm!MainDone, Fm!MainSleeps, Fm!vars, Fm!SignalCaught,
                      Fm!HandlerCancel
  <1>3. CASE Fm!MainStart
    <2>1. CASE Fm!Goto("controller", "setup")
      BY <2>1, FmGoes DEF Fm!Threads, FmPlaces
    <2>2. CASE pc' = [t \in Fm!Threads |-> CASE t = "controller" -> pc[t]
                                             [] t = "dongle" -> "begin"
                                             [] OTHER -> "test"]
      BY <2>2 DEF FmPlacesOK, PlacesOf, FmPlaces, Fm!Threads
    <2> QED BY <1>3, <2>1, <2>2 DEF Fm!MainStart
  <1>4. CASE Fm!MainJoin
    <2>1. PICK t \in Fm!Sleepers : Fm!Signal(t, "main", "run")
      BY <1>4 DEF Fm!MainJoin, Fm!WakeNext, Fm!Joins, Fm!NextJoin, Fm!Sleepers, Fm!Threads
    <2> QED BY <2>1, FmWakes DEF Fm!Threads
  <1>5. CASE \/ Fm!DongleBegin \/ Fm!DongleReturns \/ Fm!Block
    <2>1. PICK place \in {"stream", "done", "signal"} : Fm!Goto("dongle", place) \/ UNCHANGED pc
      BY <1>5 DEF Fm!DongleBegin, Fm!DongleReturns, Fm!Block
    <2>2. place \in FmPlaces("dongle") /\ "dongle" \in Fm!Threads
      BY DEF FmPlaces, Fm!Threads
    <2> QED BY <1>1, <2>1, <2>2, FmGoes
  <1>6. CASE Fm!FullDemod \/ Fm!DemodAsks \/ Fm!DemodLeaves \/ Fm!DemodCopies
    <2>1. PICK place \in {"decide", "hop", "done", "signal"} : Fm!Goto("demod", place)
      BY <1>6 DEF Fm!FullDemod, Fm!DemodAsks, Fm!DemodLeaves, Fm!DemodCopies
    <2>2. place \in FmPlaces("demod") /\ "demod" \in Fm!Threads
      BY DEF FmPlaces, Fm!Threads
    <2> QED BY <2>1, <2>2, FmGoes
  <1>7. CASE Fm!DongleSignal \/ Fm!DemodHop \/ Fm!DemodSignal
    <2>1. PICK t \in Fm!Sleepers :
               Fm!Signal(t, "dongle", "stream") \/ Fm!Signal(t, "demod", "test")
      BY <1>7 DEF Fm!DongleSignal, Fm!DemodHop, Fm!DemodSignal, Fm!WakeDemod, Fm!WakeHop,
                  Fm!WakeOutput, Fm!Sleepers, Fm!Threads
    <2>2. "stream" \in FmPlaces("dongle") /\ "test" \in FmPlaces("demod")
      BY DEF FmPlaces
    <2> QED BY <2>1, <2>2, FmWakes
  <1>8. CASE Fm!OutputWrite
    BY <1>8, FmGoes DEF Fm!OutputWrite, FmPlaces, Fm!Threads
  <1>9. CASE Fm!ControllerSetup \/ Fm!ControllerStays \/ Fm!ControllerScans
             \/ Fm!ControllerNextLine \/ Fm!ControllerRetunes
    <2>1. PICK place \in {"first", "test", "done", "awake", "retune"} : Fm!Goto("controller", place)
      BY <1>9 DEF Fm!ControllerSetup, Fm!ControllerStays, Fm!ControllerScans,
                  Fm!ControllerNextLine, Fm!ControllerRetunes
    <2>2. place \in FmPlaces("controller") /\ "controller" \in Fm!Threads
      BY DEF FmPlaces, Fm!Threads
    <2> QED BY <2>1, <2>2, FmGoes
  <1>10. ASSUME NEW t \in Fm!Sleepers, Fm!Sleep(t) \/ Fm!SpuriousWakeup(t) PROVE FmPlacesOK'
    <2>1. PICK place \in {"done", "towait", "wait", "awake"} : Fm!Goto(t, place)
      BY <1>10 DEF Fm!Sleep, Fm!SpuriousWakeup, Fm!AfterTest
    <2>2. place \in FmPlaces(t) /\ t \in Fm!Threads
      BY DEF FmPlaces, Fm!Sleepers, Fm!Threads
    <2> QED BY <2>1, <2>2, FmGoes
  <1> QED BY <1>2, <1>3, <1>4, <1>5, <1>6, <1>7, <1>8, <1>9, <1>10, FmCases DEF FmActions

LEMMA FmFlagsStep == FmFlagsOK /\ [Fm!Next]_(Fm!vars) => FmFlagsOK'
  <1> SUFFICES ASSUME FmFlagsOK, [Fm!Next]_(Fm!vars) PROVE FmFlagsOK'
    OBVIOUS
  <1> USE DEF FmFlagsOK, Fm!slotVars, Fm!hopVars, Fm!Cancel
  <1>1. CASE Fm!MainStart \/ Fm!MainCancel \/ Fm!MainDone \/ Fm!MainSleeps \/ UNCHANGED Fm!vars
    BY <1>1 DEF Fm!MainStart, Fm!MainCancel, Fm!MainDone, Fm!MainSleeps, Fm!vars
  <1>2. CASE Fm!MainJoin
    <2>1. PICK t : missed' = (missed \/ pc[t] = "towait")
      BY <1>2 DEF Fm!MainJoin, Fm!WakeNext
    <2>2. missed' \in BOOLEAN
      BY <2>1, Zenon
    <2>3. mpc' \in {"joinDemod", "joinOutput", "joinController"}
      BY <1>2 DEF Fm!MainJoin, Fm!NextJoin
    <2> QED BY <1>2, <2>2, <2>3 DEF Fm!MainJoin
  <1>3. CASE Fm!DongleBegin \/ Fm!Block \/ Fm!DongleSignal \/ Fm!DongleReturns
    BY <1>3 DEF Fm!DongleBegin, Fm!Block, Fm!DongleSignal, Fm!DongleReturns
  <1>4. CASE \/ Fm!FullDemod \/ Fm!DemodAsks \/ Fm!DemodHop \/ Fm!DemodLeaves \/ Fm!DemodCopies
             \/ Fm!DemodSignal \/ Fm!OutputWrite
    BY <1>4 DEF Fm!FullDemod, Fm!DemodAsks, Fm!DemodHop, Fm!DemodLeaves, Fm!DemodCopies,
                Fm!DemodSignal, Fm!OutputWrite
  <1>5. CASE Fm!ControllerSetup \/ Fm!ControllerStays \/ Fm!ControllerScans
             \/ Fm!ControllerNextLine \/ Fm!ControllerRetunes
    BY <1>5 DEF Fm!ControllerSetup, Fm!ControllerStays, Fm!ControllerScans,
                Fm!ControllerNextLine, Fm!ControllerRetunes
  <1>6. ASSUME NEW t \in Fm!Sleepers, Fm!Sleep(t) \/ Fm!SpuriousWakeup(t) PROVE FmFlagsOK'
    BY <1>6 DEF Fm!Sleep, Fm!SpuriousWakeup
  <1>7. CASE Fm!SignalCaught \/ Fm!HandlerCancel
    BY <1>7 DEF Fm!SignalCaught, Fm!HandlerCancel
  <1> QED BY <1>1, <1>2, <1>3, <1>4, <1>5, <1>6, <1>7, FmCases DEF FmActions

\* The steps that leave the counts alone and neither start the demodulator nor end its
\* decision.
LEMMA FmCountsFrame ==
    ASSUME FmCountsOK, UNCHANGED <<squelch_hits, numSummed>>, mute' \in 0 .. LongMute,
           pc["demod"] \in {"none", "decide"} => pc'["demod"] = pc["demod"],
           mpc' \in {"start", "sleep"} => mpc \in {"start", "sleep"}
    PROVE  FmCountsOK'
  BY DEF FmCountsOK

LEMMA FmCountsStep ==
    ASSUME Fm!ConstantsAssumption, FmPlacesOK, FmCountsOK, [Fm!Next]_(Fm!vars)
    PROVE  FmCountsOK'
  <1> USE DEF Fm!slotVars, Fm!hopVars
  <1>1. /\ Conseq \in Nat /\ NumMeas \in Nat \ {0} /\ LongMute \in Nat \ {0}
        /\ mute \in 0 .. LongMute /\ squelch_hits \in 0 .. Conseq + 2 /\ numSummed \in 0 .. NumMeas
    BY DEF Fm!ConstantsAssumption, FmCountsOK
  <1>2. ASSUME NEW t \in Fm!Threads, NEW place, Fm!Goto(t, place), t # "demod"
        PROVE  pc'["demod"] = pc["demod"]
    BY <1>2, FmMoves DEF FmPlacesOK, Fm!Threads
  <1>3. ASSUME NEW t \in Fm!Threads, NEW sender, NEW place, Fm!Signal(t, sender, place),
               sender # "demod", pc["demod"] \in {"none", "decide"}
        PROVE  pc'["demod"] = pc["demod"]
    <2>1. pc'["demod"] = IF "demod" = t /\ pc[t] = "wait" THEN "awake"
                         ELSE IF "demod" = sender THEN place ELSE pc["demod"]
      BY <1>3, FmSignals DEF FmPlacesOK, Fm!Threads
    <2> QED BY <1>3, <2>1
  <1>4. CASE Fm!MainCancel \/ Fm!MainDone \/ Fm!MainSleeps \/ UNCHANGED Fm!vars
             \/ Fm!SignalCaught \/ Fm!HandlerCancel
    BY <1>1, <1>4, FmCountsFrame DEF Fm!MainCancel, Fm!MainDone, Fm!MainSleeps, Fm!vars,
                                     Fm!SignalCaught, Fm!HandlerCancel
  <1>5. CASE Fm!MainStart
    <2>1. CASE mpc = "start"
      BY <1>1, <1>2, <1>5, <2>1, FmCountsFrame DEF Fm!MainStart, Fm!Threads
    <2>2. CASE mpc = "sleep"
      BY <1>5, <2>2 DEF Fm!MainStart, FmCountsOK
    <2> QED BY <1>5, <2>1, <2>2 DEF Fm!MainStart
  <1>6. CASE Fm!MainJoin
    <2>1. PICK t \in Fm!Threads : Fm!Signal(t, "main", "run")
      BY <1>6 DEF Fm!MainJoin, Fm!WakeNext, Fm!Joins, Fm!NextJoin, Fm!Threads
    <2>2. mpc' \notin {"start", "sleep"}
      BY <1>6 DEF Fm!MainJoin, Fm!NextJoin
    <2> QED BY <1>1, <1>3, <1>6, <2>1, <2>2, FmCountsFrame DEF Fm!MainJoin
  <1>7. CASE Fm!DongleBegin \/ Fm!DongleReturns \/ Fm!Block
    <2>1. pc'["demod"] = pc["demod"]
      BY <1>2, <1>7 DEF Fm!DongleBegin, Fm!DongleReturns, Fm!Block, Fm!Threads
    <2>2. mute' \in 0 .. LongMute
      BY <1>1, <1>7 DEF Fm!DongleBegin, Fm!DongleReturns, Fm!Block, Fm!StillMuted
    <2> QED BY <1>7, <2>1, <2>2, FmCountsFrame DEF Fm!DongleBegin, Fm!DongleReturns, Fm!Block
  <1>8. CASE Fm!DongleSignal
    <2>1. pc["demod"] \in {"none", "decide"} => pc'["demod"] = pc["demod"]
      BY <1>3, <1>8 DEF Fm!DongleSignal, Fm!WakeDemod, Fm!Threads
    <2> QED BY <1>1, <1>8, <2>1, FmCountsFrame DEF Fm!DongleSignal
  <1>9. CASE Fm!FullDemod
    <2>1. pc'["demod"] = "decide" /\ mpc \notin {"start", "sleep"} /\ squelch_hits <= Conseq + 1
      BY <1>9, FmMoves DEF Fm!FullDemod, FmCountsOK, FmPlacesOK, Fm!Threads
    <2>2. squelch_hits' \in 0 .. Conseq + 2
      <3>1. squelch_hits' = 0 \/ squelch_hits' = squelch_hits + 1
        BY <1>9 DEF Fm!FullDemod
      <3> QED BY <1>1, <2>1, <3>1
    <2>3. numSummed' \in 0 .. NumMeas
      BY <1>1, <1>9 DEF Fm!FullDemod
    <2> QED BY <1>1, <1>9, <2>1, <2>2, <2>3 DEF Fm!FullDemod, FmCountsOK
  <1>10. CASE Fm!DemodAsks \/ Fm!DemodLeaves \/ Fm!DemodCopies
    <2>1. squelch_hits' \in 0 .. Conseq + 1
      BY <1>1, <1>10 DEF Fm!DemodAsks, Fm!DemodLeaves, Fm!DemodCopies, Fm!Silent
    <2>2. squelch_hits' \in 0 .. Conseq + 2 /\ squelch_hits' <= Conseq + 1
      BY <1>1, <2>1
    <2>3. mpc \notin {"start", "sleep"} /\ UNCHANGED <<mpc, mute, numSummed>>
      BY <1>10 DEF Fm!DemodAsks, Fm!DemodLeaves, Fm!DemodCopies, FmCountsOK
    <2> QED BY <1>1, <2>2, <2>3 DEF FmCountsOK
  <1>11. CASE Fm!DemodHop \/ Fm!DemodSignal
    <2>1. pc["demod"] \in {"hop", "signal"} /\ UNCHANGED <<mpc, mute, squelch_hits, numSummed>>
      BY <1>11 DEF Fm!DemodHop, Fm!DemodSignal
    <2> QED BY <1>1, <2>1, FmCountsFrame
  <1>12. CASE Fm!OutputWrite
    BY <1>1, <1>2, <1>12, FmCountsFrame DEF Fm!OutputWrite, Fm!Threads
  <1>13. CASE Fm!ControllerSetup \/ Fm!ControllerStays \/ Fm!ControllerScans
    <2>1. pc'["demod"] = pc["demod"]
      BY <1>2, <1>13 DEF Fm!ControllerSetup, Fm!ControllerStays, Fm!ControllerScans, Fm!Threads
    <2>2. mute' \in 0 .. LongMute
      BY <1>1, <1>13 DEF Fm!ControllerSetup, Fm!ControllerStays, Fm!ControllerScans
    <2> QED BY <1>13, <2>1, <2>2, FmCountsFrame
            DEF Fm!ControllerSetup, Fm!ControllerStays, Fm!ControllerScans
  <1>14. CASE Fm!ControllerNextLine \/ Fm!ControllerRetunes
    <2>1. pc'["demod"] = pc["demod"]
      BY <1>2, <1>14 DEF Fm!ControllerNextLine, Fm!ControllerRetunes, Fm!Threads
    <2>2. mute' \in 0 .. LongMute /\ numSummed' \in 0 .. NumMeas /\ UNCHANGED <<mpc, squelch_hits>>
      BY <1>1, <1>14 DEF Fm!ControllerNextLine, Fm!ControllerRetunes
    <2> QED BY <2>1, <2>2 DEF FmCountsOK
  <1>15. ASSUME NEW t \in Fm!Sleepers, Fm!Sleep(t) \/ Fm!SpuriousWakeup(t) PROVE FmCountsOK'
    <2>1. pc[t] \notin {"none", "decide"} /\ (\E place : Fm!Goto(t, place)) /\ t \in Fm!Threads
      BY <1>15 DEF Fm!Sleep, Fm!SpuriousWakeup, Fm!Sleepers
    <2>2. pc["demod"] \in {"none", "decide"} => pc'["demod"] = pc["demod"]
      BY <1>2, <2>1
    <2> QED BY <1>1, <1>15, <2>2, FmCountsFrame DEF Fm!Sleep, Fm!SpuriousWakeup
  <1> QED BY <1>4, <1>5, <1>6, <1>7, <1>8, <1>9, <1>10, <1>11, <1>12, <1>13, <1>14, <1>15, FmCases
          DEF FmActions

\* For every squelch, number of measurements and of muted blocks: no thread of rtl_fm is
\* at a place of another, and the counters of squelch, muting and measuring keep within
\* their limits although they are written by three threads without a lock.
THEOREM FmTypeCorrect == ASSUME Fm!ConstantsAssumption PROVE Fm!Spec => []Fm!TypeOK
  <1> DEFINE Inv == FmPlacesOK /\ FmFlagsOK /\ FmCountsOK
  <1>1. Fm!Init => Inv
    <2> SUFFICES ASSUME Fm!Init PROVE Inv
      OBVIOUS
    <2>1. FmPlacesOK
      BY DEF Fm!Init, FmPlacesOK, PlacesOf, FmPlaces, Fm!Threads
    <2>2. FmFlagsOK
      BY DEF Fm!Init, FmFlagsOK
    <2>3. FmCountsOK
      BY DEF Fm!Init, FmCountsOK, Fm!Threads, Fm!ConstantsAssumption
    <2> QED BY <2>1, <2>2, <2>3
  <1>2. Inv /\ [Fm!Next]_(Fm!vars) => Inv'
    BY FmPlacesStep, FmFlagsStep, FmCountsStep
  <1>3. Inv => Fm!TypeOK
    <2> SUFFICES ASSUME Inv PROVE Fm!TypeOK
      OBVIOUS
    <2>1. /\ pc["dongle"] \in FmPlaces("dongle") /\ pc["demod"] \in FmPlaces("demod")
          /\ pc["output"] \in FmPlaces("output") /\ pc["controller"] \in FmPlaces("controller")
      BY DEF FmPlacesOK, Fm!Threads
    <2> QED BY <2>1 DEF FmPlaces, FmFlagsOK, FmCountsOK, Fm!TypeOK
  <1> HIDE DEF Inv
  <1> QED BY <1>1, <1>2, <1>3, PTL DEF Fm!Spec
=============================================================================
