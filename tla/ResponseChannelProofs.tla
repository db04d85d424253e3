----------------------- MODULE ResponseChannelProofs ------------------------
(***************************************************************************)
(* Theorems about the way to the tuner and about the response channel that *)
(* shares it, for every set of threads, every length of a tuner operation  *)
(* and of a report, and every bound, and their proofs.  First I2cRepeater  *)
(* by itself; then ResponseChannel, which implements I2cRepeater and       *)
(* ControlThread, so that what is proved of either holds for it; last what *)
(* ControlThread promises, proved of that module alone.                    *)
(***************************************************************************)
EXTENDS ResponseChannel, TLAPS

-----------------------------------------------------------------------------
(***************************************************************************)
(* The inductive invariant: the mutex counts the operations its owner is   *)
(* inside of, nobody else is inside of one, and the repeater is open only  *)
(* while its owner is about to transfer, nest or close.                    *)
(***************************************************************************)
Held(t) == level[t] + (IF pc[t] = "open" THEN 1 ELSE 0)

Levels ==
    \A t \in Threads :
      /\ pc[t] \in {"out", "reset"} => level[t] = 0
      /\ pc[t] \in {"lock", "open"} => level[t] <= 1
      /\ pc[t] \in {"transfer", "unlock"} => level[t] > 0
      /\ pc[t] # "transfer" => transfers[t] = 0

Counted ==
    /\ owner = NoThread => depth = 0
    /\ \A t \in Threads : IF owner = t THEN depth = Held(t) /\ depth > 0 ELSE Held(t) = 0

OpenFor == repeater => owner # NoThread /\ pc[owner] # "unlock"

IInv == TypeOK /\ Levels /\ Counted /\ OpenFor

LEMMA InitIInv == Init => IInv
  <1> SUFFICES ASSUME Init PROVE IInv
    OBVIOUS
  <1>1. TypeOK
    <2>1. 0 \in 0 .. MaxTransfers
      BY ConstantsAssumption
    <2>2. level \in [Threads -> 0 .. 2] /\ transfers \in [Threads -> 0 .. MaxTransfers]
      BY <2>1 DEF Init
    <2>3. pc \in [Threads -> {"out", "lock", "open", "transfer", "unlock", "reset"}]
      BY DEF Init
    <2>4. owner \in Threads \cup {NoThread} /\ depth \in 0 .. 2
      BY DEF Init
    <2>5. repeater \in BOOLEAN /\ undone \in BOOLEAN
      BY Zenon DEF Init
    <2> QED BY <2>2, <2>3, <2>4, <2>5 DEF TypeOK
  <1>2. Levels /\ OpenFor
    BY DEF Init, Levels, OpenFor
  <1>3. Counted
    BY ConstantsAssumption DEF Init, Counted, Held
  <1> QED BY <1>1, <1>2, <1>3 DEF IInv

\* Who is inside of an operation owns the mutex.
LEMMA InsideOwns ==
    ASSUME IInv, NEW t \in Threads, pc[t] \in {"open", "transfer", "unlock"} \/ level[t] > 0
    PROVE  owner = t /\ depth = Held(t)
  BY DEF IInv, TypeOK, Levels, Counted, Held

LEMMA BeginStep == ASSUME IInv, NEW t \in Threads, Begin(t) PROVE IInv'
  <1> USE DEF Begin, Goto, IInv
  <1>1. TypeOK'
    BY DEF TypeOK
  <1>2. Levels'
    BY DEF TypeOK, Levels
  <1>3. Counted'
    BY DEF TypeOK, Counted, Held
  <1>4. OpenFor'
    BY DEF TypeOK, OpenFor
  <1> QED BY <1>1, <1>2, <1>3, <1>4

LEMMA LockStep == ASSUME IInv, NEW t \in Threads, Lock(t) PROVE IInv'
  <1> USE DEF Lock, MayLock, Goto, IInv
  <1>1. depth = Held(t) /\ Held(t) = level[t] /\ level[t] \in 0 .. 1
    BY ConstantsAssumption DEF TypeOK, Levels, Counted, Held
  <1>2. TypeOK'
    BY <1>1 DEF TypeOK
  <1>3. Levels'
    BY DEF TypeOK, Levels
  <1>4. Counted'
    BY <1>1, ConstantsAssumption DEF TypeOK, Counted, Held
  <1>5. OpenFor'
    BY ConstantsAssumption DEF TypeOK, OpenFor
  <1> QED BY <1>2, <1>3, <1>4, <1>5

LEMMA OpenStep == ASSUME IInv, NEW t \in Threads, Open(t) PROVE IInv'
  <1> USE DEF Open, Goto, IInv
  <1>1. owner = t /\ depth = Held(t)
    BY InsideOwns
  <1>2. level[t] \in 0 .. 1
    BY DEF TypeOK, Levels
  <1>3. TypeOK'
    <2>1. pc' \in [Threads -> {"out", "lock", "open", "transfer", "unlock", "reset"}]
      BY DEF TypeOK
    <2>2. level' \in [Threads -> 0 .. 2] /\ transfers' \in [Threads -> 0 .. MaxTransfers]
      BY <1>2, ConstantsAssumption DEF TypeOK
    <2>3. repeater' \in BOOLEAN /\ undone' \in BOOLEAN
      BY Zenon
    <2>4. owner' \in Threads \cup {NoThread} /\ depth' \in 0 .. 2
      BY DEF TypeOK
    <2> QED BY <2>1, <2>2, <2>3, <2>4 DEF TypeOK
  <1>4. Levels'
    BY <1>2 DEF TypeOK, Levels
  <1>5. Counted'
    BY <1>1, <1>2, ConstantsAssumption DEF TypeOK, Counted, Held
  <1>6. OpenFor'
    BY <1>1, ConstantsAssumption DEF TypeOK, OpenFor
  <1> QED BY <1>3, <1>4, <1>5, <1>6

LEMMA TransferStep == ASSUME IInv, NEW t \in Threads, Transfer(t) PROVE IInv'
  <1> USE DEF Transfer, IInv
  <1>1. TypeOK'
    <2>1. transfers[t] - 1 \in 0 .. MaxTransfers
      BY ConstantsAssumption DEF TypeOK
    <2> QED BY <2>1 DEF TypeOK
  <1>2. Levels'
    BY DEF TypeOK, Levels
  <1>3. Counted' /\ OpenFor'
    BY DEF Counted, Held, OpenFor
  <1> QED BY <1>1, <1>2, <1>3

LEMMA CloseStep == ASSUME IInv, NEW t \in Threads, Close(t) PROVE IInv'
  <1> USE DEF Close, CloseRepeater, Goto, IInv
  <1>1. TypeOK'
    BY DEF TypeOK
  <1>2. Levels'
    BY DEF TypeOK, Levels
  <1>3. Counted'
    BY DEF TypeOK, Counted, Held
  <1>4. OpenFor'
    BY DEF OpenFor
  <1> QED BY <1>1, <1>2, <1>3, <1>4

LEMMA UnlockStep == ASSUME IInv, NEW t \in Threads, Unlock(t) PROVE IInv'
  <1> USE DEF Unlock, Release, Goto, IInv
  <1>1. owner = t /\ depth = level[t] /\ level[t] \in 1 .. 2
    BY InsideOwns DEF TypeOK, Levels, Held
  <1>2. TypeOK'
    BY <1>1 DEF TypeOK
  <1>3. Levels'
    BY <1>1 DEF TypeOK, Levels
  <1>4. Counted'
    BY <1>1, ConstantsAssumption DEF TypeOK, Counted, Held
  <1>5. OpenFor'
    BY <1>1 DEF OpenFor
  <1> QED BY <1>2, <1>3, <1>4, <1>5

LEMMA ResetStep == ASSUME IInv, NEW t \in Threads, SampleRateReset(t) PROVE IInv'
  <1> USE DEF SampleRateReset, Goto, IInv
  <1>1. TypeOK'
    BY DEF TypeOK
  <1>2. Levels'
    BY DEF TypeOK, Levels
  <1>3. Counted'
    BY DEF TypeOK, Counted, Held
  <1>4. OpenFor'
    BY DEF OpenFor
  <1> QED BY <1>1, <1>2, <1>3, <1>4

LEMMA IInvStep == IInv /\ [Next]_vars => IInv'
  <1> SUFFICES ASSUME IInv, [Next]_vars PROVE IInv'
    OBVIOUS
  <1>1. ASSUME NEW t \in Threads, Begin(t) \/ Step(t) \/ SampleRateReset(t) PROVE IInv'
    BY <1>1, BeginStep, LockStep, OpenStep, TransferStep, CloseStep, UnlockStep, ResetStep DEF Step
  <1>2. CASE UNCHANGED vars
    BY <1>2 DEF IInv, TypeOK, Levels, Counted, OpenFor, Held, vars
  <1> QED BY <1>1, <1>2 DEF Next

LEMMA Invariant == Spec => []IInv
  BY InitIInv, IInvStep, PTL DEF Spec

\* No variable leaves its type: the mutex is never locked more than twice by its owner.
THEOREM TypeCorrect == Spec => []TypeOK
  <1>1. IInv => TypeOK
    BY DEF IInv
  <1> QED BY <1>1, Invariant, PTL

\* A thread inside of a tuner operation owns the mutex until the operation ends, the
\* operations it calls included.
THEOREM MutualExclusion == Spec => []Exclusive
  <1>1. IInv => Exclusive
    BY InsideOwns DEF Exclusive
  <1> QED BY <1>1, Invariant, PTL

\* The repeater is closed whenever nobody owns the mutex.
THEOREM RestsClosed == Spec => []ClosedAtRest
  <1>1. IInv => ClosedAtRest
    BY DEF IInv, OpenFor, ClosedAtRest
  <1> QED BY <1>1, Invariant, PTL

(***************************************************************************)
(* Only a reset of the demodulator closes the repeater under a thread that *)
(* transfers, and it leaves undone set until the repeater is opened again  *)
(* or closed by its owner.                                                 *)
(***************************************************************************)
LEMMA HeardStep == IInv /\ HeardByTuner /\ [Next]_vars => HeardByTuner'
  <1> SUFFICES ASSUME IInv, HeardByTuner, [Next]_vars PROVE HeardByTuner'
    OBVIOUS
  <1> USE DEF HeardByTuner
  <1>1. CASE UNCHANGED vars
    BY <1>1 DEF vars
  <1>2. ASSUME NEW t \in Threads, Begin(t) \/ Lock(t) \/ Open(t) \/ Transfer(t) PROVE HeardByTuner'
    BY <1>2 DEF Begin, Lock, Open, Transfer, Goto, IInv, TypeOK
  <1>3. ASSUME NEW t \in Threads, Close(t) PROVE HeardByTuner'
    <2> SUFFICES ASSUME NEW u \in Threads, pc'[u] = "transfer", transfers'[u] > 0 PROVE FALSE
      OBVIOUS
    <2>1. owner = t
      BY <1>3, InsideOwns DEF Close
    <2>2. u # t /\ pc[u] = "transfer"
      BY <1>3 DEF Close, Goto, IInv, TypeOK
    <2> QED BY <2>1, <2>2, InsideOwns
  <1>4. ASSUME NEW t \in Threads, Unlock(t) PROVE HeardByTuner'
    <2>1. transfers[t] = 0
      BY <1>4 DEF Unlock, IInv, Levels
    <2> QED BY <1>4, <2>1 DEF Unlock, Goto, IInv, TypeOK
  <1>5. ASSUME NEW t \in Threads, SampleRateReset(t) PROVE HeardByTuner'
    <2> SUFFICES ASSUME NEW u \in Threads, pc'[u] = "transfer", transfers'[u] > 0 PROVE undone'
      OBVIOUS
    <2>1. pc[u] = "transfer" /\ transfers[u] > 0
      BY <1>5 DEF SampleRateReset, Goto, IInv, TypeOK
    <2>2. repeater \/ undone
      BY <2>1
    <2> QED BY <1>5, <2>2 DEF SampleRateReset
  <1> QED BY <1>1, <1>2, <1>3, <1>4, <1>5 DEF Next, Step

\* Every transfer to the tuner is made through an open repeater, whichever threads set
\* it up and read it, but for those before which a setter has reset the demodulator.
THEOREM AlwaysHeard == Spec => []HeardByTuner
  <1>1. Init => HeardByTuner
    BY DEF Init, HeardByTuner
  <1> QED BY <1>1, HeardStep, Invariant, PTL DEF Spec

-----------------------------------------------------------------------------
(***************************************************************************)
(* The parts.                                                              *)
(***************************************************************************)
LEMMA RepeaterSteps == [NextAll]_allVars => [Next]_vars
  <1> SUFFICES ASSUME [NextAll]_allVars PROVE [Next]_vars
    OBVIOUS
  <1> USE DEF i2cVars
  <1>1. CASE ReadRegisters
    <2>1. Begin(Control) \/ Step(Control)
      BY <1>1 DEF ReadRegisters
    <2> QED BY <2>1, ControlAssumption DEF Next
  <1>2. ASSUME NEW t \in Setters, SetUpTuner(t) PROVE Next
    <2>1. Begin(t) \/ Step(t) \/ SampleRateReset(t)
      BY <1>2 DEF SetUpTuner
    <2> QED BY <2>1, ConstantsAssumption DEF Next
  <1>3. CASE UseRegisters \/ ControlStep \/ CloseDevice \/ MainOrClient
    BY <1>3 DEF UseRegisters, ControlStep, CloseDevice, MainOrClient
  <1>4. CASE UNCHANGED allVars
    BY <1>4 DEF allVars
  <1> QED BY <1>1, <1>2, <1>3, <1>4 DEF NextAll

\* The threads of rtl_tcp use librtlsdr's repeater as I2cRepeater says.
THEOREM ImplementsRepeater == SpecAll => Spec
  <1>1. InitAll => Init
    BY DEF InitAll
  <1> QED BY <1>1, RepeaterSteps, PTL DEF SpecAll, Spec

LEMMA ControlSteps == [NextAll]_allVars => [Ctl!Next]_(Ctl!vars)
  <1> SUFFICES ASSUME [NextAll]_allVars PROVE [Ctl!Next]_(Ctl!vars)
    OBVIOUS
  <1> USE DEF ctlVars, Ctl!vars, Ctl!thread
  <1>1. CASE ReadRegisters
    BY <1>1 DEF ReadRegisters
  <1>2. ASSUME NEW t \in Setters, SetUpTuner(t) PROVE UNCHANGED Ctl!vars
    BY <1>2 DEF SetUpTuner
  <1>3. CASE UseRegisters \/ ControlStep
    BY <1>3 DEF UseRegisters, ControlStep, Ctl!Next, Ctl!Thread
  <1>4. CASE CloseDevice \/ MainOrClient
    BY <1>4 DEF CloseDevice, MainOrClient, Ctl!Next
  <1>5. CASE UNCHANGED allVars
    BY <1>5 DEF allVars
  <1> QED BY <1>1, <1>2, <1>3, <1>4, <1>5 DEF NextAll

\* The response channel's thread and main behave as ControlThread says, however long
\* the reading of the registers waits for the mutex.
THEOREM ImplementsControl == SpecAll => Ctl!Spec
  <1>1. InitAll => Ctl!Init
    BY DEF InitAll
  <1> QED BY <1>1, ControlSteps, PTL DEF SpecAll, Ctl!Spec

\* While the response channel reads the tuner's registers and commands set it up, every
\* transfer is heard, operations exclude each other and the bus is closed at rest.
THEOREM TunerShared == SpecAll => [](HeardByTuner /\ Exclusive /\ ClosedAtRest)
  BY ImplementsRepeater, AlwaysHeard, MutualExclusion, RestsClosed, PTL

-----------------------------------------------------------------------------
(***************************************************************************)
(* Type correctness of ControlThread.                                      *)
(***************************************************************************)
LEMMA ControlTypeInit == Ctl!Init => Ctl!TypeOK
  <1> SUFFICES ASSUME Ctl!Init PROVE Ctl!TypeOK
    OBVIOUS
  <1>1. last \in (0 .. MaxClients) \X {0, 1} \X (1 .. FrameLen)
    BY ControlAssumption DEF Ctl!Init
  <1>2. {do_exit, wanted, report_i2c, haveControlSocket} \subseteq BOOLEAN
    BY Zenon DEF Ctl!Init
  <1> QED BY <1>1, <1>2, ControlAssumption DEF Ctl!Init, Ctl!TypeOK

LEMMA ControlTypeStep == Ctl!TypeOK /\ [Ctl!Next]_(Ctl!vars) => Ctl!TypeOK'
  <1> SUFFICES ASSUME Ctl!TypeOK, [Ctl!Next]_(Ctl!vars) PROVE Ctl!TypeOK'
    OBVIOUS
  <1> USE ControlAssumption DEF Ctl!TypeOK, Ctl!thread
  <1>1. CASE Ctl!MainClose \/ Ctl!MainFlag \/ Ctl!MainJoin
    BY <1>1 DEF Ctl!MainClose, Ctl!MainFlag, Ctl!MainJoin
  <1>10. CASE Ctl!Toggle
    <2>1. {do_exit', wanted', report_i2c', haveControlSocket'} \subseteq BOOLEAN
      BY <1>10, Zenon DEF Ctl!Toggle
    <2>2. toggles' \in 0 .. MaxToggles
      BY <1>10 DEF Ctl!Toggle
    <2> QED BY <1>10, <2>1, <2>2 DEF Ctl!Toggle
  <1>2. CASE Ctl!Poll \/ Ctl!Look \/ Ctl!Nap \/ Ctl!SendError
    BY <1>2 DEF Ctl!Poll, Ctl!Look, Ctl!Nap, Ctl!SendError
  <1>3. CASE Ctl!Accept
    BY <1>3 DEF Ctl!Accept
  <1>4. CASE Ctl!Check
    BY <1>4 DEF Ctl!Check
  <1>5. CASE Ctl!Fetch
    BY <1>5 DEF Ctl!Fetch
  <1>6. CASE Ctl!Send
    <2>1. PICK n \in 0 .. left :
            /\ left' = left - n
            /\ last' = IF n = 0 THEN last ELSE <<controlSocket, frame, FrameLen - left + n>>
      BY <1>6 DEF Ctl!Send, Ctl!Remains
    <2>2. left' \in 0 .. FrameLen
      BY <2>1
    <2>3. last' \in (0 .. MaxClients) \X {0, 1} \X (1 .. FrameLen)
      BY <2>1
    <2> QED BY <1>6, <2>2, <2>3 DEF Ctl!Send
  <1>7. CASE Ctl!Close
    BY <1>7 DEF Ctl!Close, Ctl!CloseSocket, Ctl!AfterClose
  <1>8. CASE Ctl!ClientLeaves
    BY <1>8 DEF Ctl!ClientLeaves
  <1>9. CASE Ctl!Terminating \/ UNCHANGED Ctl!vars
    BY <1>9 DEF Ctl!Terminating, Ctl!vars
  <1> QED BY <1>1, <1>2, <1>3, <1>4, <1>5, <1>6, <1>7, <1>8, <1>9, <1>10
           DEF Ctl!Next, Ctl!Thread

\* Every variable of main and of the control thread keeps its type.
THEOREM ControlTypeCorrect == Ctl!Spec => []Ctl!TypeOK
  BY ControlTypeInit, ControlTypeStep, PTL DEF Ctl!Spec

-----------------------------------------------------------------------------
(***************************************************************************)
(* The sockets.  haveControlSocket stays set when the thread closes its    *)
(* socket; what the close relies on is that it is set while one is open.   *)
(***************************************************************************)
SocketInv ==
    /\ Ctl!NoSocketLost
    /\ open # {} => haveControlSocket

LEMMA SocketStep == SocketInv /\ [Ctl!Next]_(Ctl!vars) => SocketInv'
  <1> SUFFICES ASSUME SocketInv, [Ctl!Next]_(Ctl!vars) PROVE SocketInv'
    OBVIOUS
  <1> USE DEF SocketInv, Ctl!NoSocketLost, Ctl!thread
  <1>1. CASE Ctl!Accept
    BY <1>1 DEF Ctl!Accept
  <1>2. CASE Ctl!Close
    BY <1>2 DEF Ctl!Close, Ctl!CloseSocket
  <1>3. CASE Ctl!Poll \/ Ctl!Look \/ Ctl!Nap \/ Ctl!SendError
    BY <1>3 DEF Ctl!Poll, Ctl!Look, Ctl!Nap, Ctl!SendError
  <1>4. CASE Ctl!Check \/ Ctl!Fetch \/ Ctl!Send
    BY <1>4 DEF Ctl!Check, Ctl!Fetch, Ctl!Send
  <1>5. CASE Ctl!MainClose \/ Ctl!MainFlag \/ Ctl!MainJoin \/ Ctl!Toggle \/ Ctl!ClientLeaves
    BY <1>5 DEF Ctl!MainClose, Ctl!MainFlag, Ctl!MainJoin, Ctl!Toggle, Ctl!ClientLeaves
  <1>6. CASE Ctl!Terminating \/ UNCHANGED Ctl!vars
    BY <1>6 DEF Ctl!Terminating, Ctl!vars
  <1> QED BY <1>1, <1>2, <1>3, <1>4, <1>5, <1>6 DEF Ctl!Next, Ctl!Thread

\* For every number of clients: at most the current one's socket is open, and none
\* when the thread listens again or has ended.
THEOREM SocketsClosed == SpecAll => []NoSocketLost
  <1>1. Ctl!Init => SocketInv
    BY DEF Ctl!Init, SocketInv, Ctl!NoSocketLost
  <1>2. SocketInv => Ctl!NoSocketLost
    BY DEF SocketInv
  <1> QED BY <1>1, <1>2, SocketStep, ImplementsControl, PTL DEF Ctl!Spec, NoSocketLost

-----------------------------------------------------------------------------
(***************************************************************************)
(* The reports.  Between two reports the last piece sent to this client is *)
(* the last of its report; within one, the thread goes on where that piece *)
(* ended.                                                                  *)
(***************************************************************************)
Between(parity) == last[1] # controlSocket \/ (last[2] = parity /\ last[3] = FrameLen)

ReportInv ==
    /\ last[1] <= controlSocket
    /\ tpc = "send" =>
         /\ left > 0
         /\ left = FrameLen => Between(1 - frame)
         /\ left # FrameLen => last = <<controlSocket, frame, FrameLen - left>>
    /\ tpc \in {"check", "fetch", "nap"} => Between(frame)

LEMMA ReportInit == Ctl!Init => ReportInv
  BY DEF Ctl!Init, ReportInv

\* What a send() of n pieces does.
LEMMA SendSteps ==
    ASSUME Ctl!TypeOK, ReportInv, Ctl!Send
    PROVE  \E n \in 0 .. left :
             /\ left' = left - n
             /\ last' = IF n = 0 THEN last ELSE <<controlSocket, frame, FrameLen - left + n>>
             /\ \/ tpc' = "close"
                \/ tpc' = "nap" /\ left' = 0
                \/ tpc' = "send" /\ left' # 0
             /\ tpc = "send" /\ UNCHANGED <<controlSocket, frame>>
  BY DEF Ctl!Send, Ctl!Remains

LEMMA ReportStep ==
    ASSUME Ctl!TypeOK, ReportInv, [Ctl!Next]_(Ctl!vars)
    PROVE  ReportInv'
  <1> USE ControlAssumption DEF ReportInv, Between, Ctl!thread
  <1>1. /\ left \in 0 .. FrameLen /\ frame \in {0, 1} /\ controlSocket \in Nat
        /\ last[1] \in Nat /\ last[2] \in {0, 1} /\ last[3] \in 1 .. FrameLen
        /\ FrameLen \in Nat /\ FrameLen > 0
    BY DEF Ctl!TypeOK
  <1>2. CASE Ctl!Send
    <2>1. PICK n \in 0 .. left :
            /\ left' = left - n
            /\ last' = IF n = 0 THEN last ELSE <<controlSocket, frame, FrameLen - left + n>>
            /\ \/ tpc' = "close"
               \/ tpc' = "nap" /\ left' = 0
               \/ tpc' = "send" /\ left' # 0
            /\ tpc = "send" /\ UNCHANGED <<controlSocket, frame>>
      BY <1>2, SendSteps
    <2>2. CASE n = 0
      BY <1>1, <2>1, <2>2
    <2>3. CASE n # 0
      <3>1. last' = <<controlSocket, frame, FrameLen - left'>> /\ left' < FrameLen /\ left' >= 0
        BY <1>1, <2>1, <2>3
      <3> QED BY <1>1, <2>1, <3>1
    <2> QED BY <2>2, <2>3
  <1>3. CASE Ctl!Fetch
    BY <1>1, <1>3 DEF Ctl!Fetch
  <1>4. CASE Ctl!Check \/ Ctl!Nap
    BY <1>1, <1>4 DEF Ctl!Check, Ctl!Nap
  <1>5. CASE Ctl!Accept
    BY <1>1, <1>5 DEF Ctl!Accept
  <1>6. CASE Ctl!Poll \/ Ctl!Look \/ Ctl!SendError \/ Ctl!Close
    BY <1>1, <1>6 DEF Ctl!Poll, Ctl!Look, Ctl!SendError, Ctl!Close, Ctl!AfterClose
  <1>7. CASE UNCHANGED <<tpc, left, frame, last, controlSocket>>
    BY <1>7
  <1> QED BY <1>2, <1>3, <1>4, <1>5, <1>6, <1>7
             DEF Ctl!Next, Ctl!Thread, Ctl!MainClose, Ctl!MainFlag, Ctl!MainJoin, Ctl!Toggle,
                 Ctl!ClientLeaves, Ctl!Terminating, Ctl!vars

\* A piece that is sent begins where the one before it ended.
LEMMA FramesContinue ==
    ASSUME Ctl!TypeOK, ReportInv, [Ctl!Next]_(Ctl!vars), last' # last
    PROVE  IF last'[1] = last[1] /\ last'[2] = last[2]
             THEN FrameLen - left = last[3] /\ last'[3] > last[3]
             ELSE FrameLen - left = 0 /\ (last[3] = FrameLen \/ last'[1] # last[1])
  <1>1. Ctl!Send
    BY DEF Ctl!Next, Ctl!Thread, Ctl!vars, Ctl!thread, Ctl!MainClose, Ctl!MainFlag, Ctl!MainJoin,
           Ctl!Toggle, Ctl!ClientLeaves, Ctl!Terminating, Ctl!Poll, Ctl!Accept, Ctl!Look,
           Ctl!Check, Ctl!Fetch, Ctl!SendError, Ctl!Nap, Ctl!Close
  <1>2. PICK n \in 0 .. left : n # 0 /\ last' = <<controlSocket, frame, FrameLen - left + n>>
    BY <1>1, SendSteps
  <1>3. /\ left \in 0 .. FrameLen /\ frame \in {0, 1} /\ FrameLen \in Nat
        /\ tpc = "send"
    BY <1>1, ControlAssumption DEF Ctl!TypeOK, Ctl!Send
  <1>4. CASE left = FrameLen
    BY <1>2, <1>3, <1>4 DEF ReportInv, Between
  <1>5. CASE left # FrameLen
    BY <1>2, <1>3, <1>5 DEF ReportInv
  <1> QED BY <1>4, <1>5

\* For every length of a report: a control client receives reports whole and in order,
\* and no client gets the rest of another's.
THEOREM ReportsWhole == SpecAll => FramesWhole
  <1>1. Ctl!TypeOK /\ ReportInv /\ [Ctl!Next]_(Ctl!vars) => ReportInv'
    BY ReportStep
  <1>2. Ctl!TypeOK /\ ReportInv /\ [Ctl!Next]_(Ctl!vars) =>
          [ last' # last =>
              LET begin == FrameLen - left
              IN IF last'[1] = last[1] /\ last'[2] = last[2]
                   THEN begin = last[3] /\ last'[3] > last[3]
                   ELSE begin = 0 /\ (last[3] = FrameLen \/ last'[1] # last[1]) ]_(Ctl!vars)
    BY FramesContinue
  <1> QED BY <1>1, <1>2, ReportInit, ControlTypeCorrect, ImplementsControl, PTL
             DEF Ctl!Spec, FramesWhole, Ctl!FramesWhole

-----------------------------------------------------------------------------
(***************************************************************************)
(* The end.  Who may still be inside of librtlsdr when main has closed the *)
(* device: nobody but the control thread, and it only within a reading of  *)
(* the registers that it then uses.                                        *)
(***************************************************************************)
OnlyControlLate ==
    mpc # "serve" => \A t \in Threads : pc[t] # "out" => t = Control /\ Reading

LateInv ==
    /\ \A t \in Threads \ Setters : t # Control => pc[t] = "out"
    /\ ~Reading => pc[Control] = "out"
    /\ mpc # "serve" => \A t \in Setters : pc[t] = "out"
    /\ haveRegisters => tpc \in {"look", "fetch"}

LEMMA LateInit == InitAll => LateInv
  BY ControlAssumption, ConstantsAssumption DEF InitAll, Init, Ctl!Init, LateInv

\* A step of one thread leaves the others where they are.
LEMMA StepIsLocal ==
    ASSUME TypeOK, NEW t \in Threads, Begin(t) \/ Step(t) \/ SampleRateReset(t)
    PROVE  \A u \in Threads : u # t => pc'[u] = pc[u]
  BY DEF TypeOK, Begin, Step, SampleRateReset, Lock, Open, Transfer, Close, Unlock, Goto

LEMMA LateStep ==
    ASSUME TypeOK, LateInv, [NextAll]_allVars
    PROVE  LateInv'
  <1> USE ControlAssumption, ConstantsAssumption DEF LateInv, Reading
  <1>1. CASE ReadRegisters
    <2>1. /\ \A u \in Threads : u # Control => pc'[u] = pc[u]
          /\ UNCHANGED <<mpc, tpc>>
          /\ tpc \in {"look", "fetch"}
          /\ haveRegisters' = (pc'[Control] = "out")
      BY <1>1, StepIsLocal DEF ReadRegisters, ctlVars
    <2> QED BY <2>1
  <1>2. ASSUME NEW t \in Setters, SetUpTuner(t) PROVE LateInv'
    <2>1. /\ \A u \in Threads : u # t => pc'[u] = pc[u]
          /\ UNCHANGED <<mpc, tpc, haveRegisters>>
          /\ mpc = "serve"
      BY <1>2, StepIsLocal DEF SetUpTuner, ctlVars
    <2> QED BY <2>1
  <1>3. CASE UseRegisters
    <2>1. UNCHANGED pc /\ haveRegisters /\ ~haveRegisters' /\ UNCHANGED mpc
      BY <1>3 DEF UseRegisters, i2cVars, vars, Ctl!Look, Ctl!Fetch
    <2> QED BY <2>1
  <1>4. CASE ControlStep
    <2>1. UNCHANGED <<pc, haveRegisters, mpc>> /\ tpc \notin {"look", "fetch"}
      BY <1>4 DEF ControlStep, i2cVars, vars, Ctl!Poll, Ctl!Accept, Ctl!Check, Ctl!Send,
                  Ctl!SendError, Ctl!Nap, Ctl!Close
    <2> QED BY <2>1
  <1>5. CASE CloseDevice
    <2>1. UNCHANGED <<pc, haveRegisters, tpc>> /\ \A t \in Setters : pc[t] = "out"
      BY <1>5 DEF CloseDevice, i2cVars, vars, Ctl!MainClose
    <2> QED BY <2>1
  <1>6. CASE MainOrClient
    <2>1. UNCHANGED <<pc, haveRegisters, tpc>> /\ (mpc' # "serve" => mpc # "serve")
      BY <1>6 DEF MainOrClient, i2cVars, vars, Ctl!MainFlag, Ctl!MainJoin, Ctl!Toggle,
                  Ctl!ClientLeaves, Ctl!Terminating, Ctl!vars
    <2> QED BY <2>1
  <1>7. CASE UNCHANGED allVars
    BY <1>7 DEF allVars, i2cVars, vars, ctlVars
  <1> QED BY <1>1, <1>2, <1>3, <1>4, <1>5, <1>6, <1>7 DEF NextAll

\* When main has closed the device no thread but the control thread is inside of
\* librtlsdr, and it is there only for a reading of the registers.
THEOREM ClosedUnderControlOnly == SpecAll => []OnlyControlLate
  <1>1. TypeOK /\ LateInv /\ [NextAll]_allVars => LateInv'
    BY LateStep
  <1>2. LateInv => OnlyControlLate
    BY DEF LateInv, OnlyControlLate
  <1> QED BY <1>1, <1>2, LateInit, ImplementsRepeater, TypeCorrect, PTL DEF SpecAll
=============================================================================
