-------------------------- MODULE AsyncReadProofs ---------------------------
(***************************************************************************)
(* Theorems about AsyncRead, for every number of transfers, of reads, of   *)
(* cancelers and of other threads that handle events, every error limit    *)
(* and every choice of what may fail, and their proofs.                    *)
(***************************************************************************)
EXTENDS AsyncRead, TLAPS

USE DEF readerVars, xferVars, libVars, handlerVars

(***************************************************************************)
(* The invariant.  While the status is RUNNING the reader has not begun to *)
(* cancel; a cancelling pass finds it CANCELING, and the status that       *)
(* rtlsdr_read_async() is going to store is never staler than that.        *)
(***************************************************************************)
StatusInv ==
    /\ async_status = "INACTIVE" => rpc = "out"
    /\ async_status = "RUNNING" => rpc \in {"begun", "submit", "loop", "handle", "test", "free"}
    /\ next_status = "CANCELING" /\ rpc \notin {"out", "begun"} => async_status = "CANCELING"

\* Only a thread that handles events has a list of what its poll() found.
Polled == ready = {} \/ (InEvents /\ holder = {})

IInv == TypeOK /\ StatusInv /\ Polled

LEMMA InitIInv == Init => IInv
  <1> SUFFICES ASSUME Init PROVE IInv
    OBVIOUS
  <1> USE ConstantsAssumption DEF Init
  <1>1. TypeOK
    <2>1. async_cancel \in BOOLEAN /\ dev_lost \in BOOLEAN /\ canceled \in BOOLEAN
      BY Zenon
    <2>2. taken \in Xfers
      BY DEF Xfers
    <2> QED BY <2>1, <2>2 DEF TypeOK
  <1>2. StatusInv /\ Polled
    BY DEF StatusInv, Polled
  <1> QED BY <1>1, <1>2 DEF IInv

-----------------------------------------------------------------------------
(***************************************************************************)
(* What the steps of the transfers do.                                     *)
(***************************************************************************)
\* A request finishes.
LEMMA FinishSteps ==
    ASSUME NEW t \in Xfers, Finish(t)
    PROVE  /\ \E e \in {"completed", "cancelled", "error", "nodevice"} : urb' = [urb EXCEPT ![t] = e]
           /\ ~Finished(t)
           /\ UNCHANGED <<readerVars, libVars, flight, status, xfer_errors, system, cpc,
                          handlerVars, reads, cancels>>
  BY DEF Finish, Finished

\* A finished request is reaped: its transfer is submitted again or rests, and the
\* status changes only when the device is lost.
Resubmitted(t) ==
    /\ urb[t] = "completed"
    /\ flight' = [flight EXCEPT ![t] = "flying"]
    /\ urb' = [urb EXCEPT ![t] = "pending"]
    /\ status' = [status EXCEPT ![t] = "COMPLETED"]
    /\ UNCHANGED libVars

Rested(t) ==
    /\ flight' = [flight EXCEPT ![t] = "idle"]
    /\ urb' = [urb EXCEPT ![t] = "none"]
    /\ \/ urb[t] = "completed" /\ "submit" \in Faults /\ status' = [status EXCEPT ![t] = "COMPLETED"]
          /\ UNCHANGED libVars
       \/ urb[t] = "cancelled" /\ status' = [status EXCEPT ![t] = "CANCELLED"] /\ UNCHANGED libVars
       \/ /\ urb[t] \in {"error", "nodevice"} /\ status' = [status EXCEPT ![t] = "ERROR"]
          /\ LoseDevice \/ UNCHANGED libVars

LEMMA ReapSteps ==
    ASSUME TypeOK, NEW t \in Xfers, Reap(t)
    PROVE  /\ Resubmitted(t) \/ Rested(t)
           /\ InEvents /\ holder = {}
           /\ ready' = ready \ {t}
           /\ xfer_errors' \in 0 .. NumXfers
           /\ UNCHANGED <<rpc, i, next_status, canceled, system, cpc, handlerVars, reads, cancels>>
  <1>1. /\ InEvents /\ holder = {} /\ ready' = ready \ {t}
        /\ UNCHANGED <<rpc, i, next_status, canceled, system, cpc, handlerVars, reads, cancels>>
    BY DEF Reap
  <1>2. /\ xfer_errors \in 0 .. NumXfers /\ NumXfers \in Nat
    BY ConstantsAssumption DEF TypeOK
  <1>3. CASE CallbackCompleted(t)
    BY <1>1, <1>2, <1>3 DEF CallbackCompleted, Submit, Rest, Resubmitted, Rested
  <1>4. CASE CallbackCancelled(t)
    BY <1>1, <1>2, <1>4 DEF CallbackCancelled, Rest, Rested
  <1>5. CASE CallbackFailed(t)
    <2>1. xfer_errors' \in 0 .. NumXfers
      BY <1>2, <1>5 DEF CallbackFailed, CountError
    <2>2. LoseDevice \/ UNCHANGED libVars
      BY <1>5 DEF CallbackFailed
    <2> QED BY <1>1, <1>5, <2>1, <2>2 DEF CallbackFailed, Rest, Rested
  <1> QED BY <1>3, <1>4, <1>5 DEF Reap, Callback

\* What one libusb_cancel_transfer() does.
LEMMA CancelSteps ==
    ASSUME TypeOK, NEW t, CancelXfer(t)
    PROVE  /\ \/ UNCHANGED <<flight, urb>>
              \/ /\ flight[t] = "flying" /\ flight' = [flight EXCEPT ![t] = "cancelling"]
                 /\ urb' = urb \/ urb' = [urb EXCEPT ![t] = "discarded"]
           /\ canceled' \in BOOLEAN
  <1>1. CASE flight[t] # "flying"
    BY <1>1 DEF CancelXfer
  <1>2. CASE flight[t] = "flying"
    <2>1. canceled' \in BOOLEAN
      BY <1>2, Zenon DEF CancelXfer
    <2>2. flight' = [flight EXCEPT ![t] = "cancelling"]
      BY <1>2 DEF CancelXfer
    <2>3. urb' = urb \/ urb' = [urb EXCEPT ![t] = "discarded"]
      BY <1>2 DEF CancelXfer, TypeOK
    <2> QED BY <1>2, <2>1, <2>2, <2>3
  <1> QED BY <1>1, <1>2

\* Another thread handles events: it leaves the reader's variables and the status alone,
\* and it finds the device lost, or calls rtlsdr_cancel_async(), but not both at once.
HandlersOK ==
    /\ flight \in [Xfers -> {"idle", "flying", "cancelling"}]
    /\ urb \in [Xfers -> {"none", "pending", "discarded", "completed", "cancelled", "error", "nodevice"}]
    /\ status \in [Xfers -> {"COMPLETED", "CANCELLED", "ERROR"}]
    /\ xfer_errors \in 0 .. NumXfers
    /\ holder \in {{}} \cup {{h} : h \in Handlers}
    /\ call \in {"none", "user", "cancel"}
    /\ taken \in Xfers

LEMMA HandlerSteps ==
    ASSUME TypeOK, NEW h \in Handlers, Handler(h)
    PROVE  /\ HandlersOK'
           /\ UNCHANGED <<readerVars, system, async_status, async_cancel, reads, cancels>>
           /\ holder' = {} \/ holder # {} \/ ~InEvents
           /\ \/ UNCHANGED <<dev_lost, cpc>>
              \/ dev_lost' = TRUE /\ UNCHANGED cpc
              \/ /\ UNCHANGED dev_lost /\ cpc[h] # "store"
                 /\ cpc' = [cpc EXCEPT ![h] = IF async_status = "RUNNING" THEN "store" ELSE "idle"]
           /\ \A t \in Xfers : Finished(t) => urb'[t] = urb[t] \/ holder # {}
  <1>1. HandlersOK /\ h \in Cancelers /\ NumXfers \in Nat
    BY ConstantsAssumption DEF TypeOK, HandlersOK
  <1> USE <1>1 DEF HandlersOK
  <1>2. CASE TakeEvents(h)
    BY <1>2 DEF TakeEvents
  <1>3. CASE LeaveTo(h)
    BY <1>3 DEF LeaveTo
  <1>4. CASE TestInCallback(h)
    <2>1. UNCHANGED dev_lost
      BY <1>4, Zenon DEF TestInCallback
    <2> QED BY <1>4, <2>1 DEF TestInCallback
  <1>5. CASE Resubmit(h)
    BY <1>5 DEF Resubmit, Submit
  <1>6. ASSUME NEW t \in Xfers, TakeXfer(h, t)
        PROVE  /\ HandlersOK' /\ holder # {}
               /\ UNCHANGED <<readerVars, system, async_status, async_cancel, reads, cancels>>
               /\ UNCHANGED cpc /\ (UNCHANGED dev_lost \/ dev_lost' = TRUE)
    <2>1. /\ holder # {} /\ UNCHANGED holder
          /\ flight' = [flight EXCEPT ![t] = "idle"] /\ urb' = [urb EXCEPT ![t] = "none"]
          /\ taken' = t
          /\ UNCHANGED <<readerVars, system, async_status, async_cancel, cpc, reads, cancels>>
      BY <1>6 DEF TakeXfer, Rest
    <2>2. /\ \E e \in {"COMPLETED", "CANCELLED", "ERROR"} : status' = [status EXCEPT ![t] = e]
          /\ call' \in {"none", "user", "cancel"}
          /\ UNCHANGED dev_lost \/ dev_lost' = TRUE
      BY <1>6 DEF TakeXfer
    <2>3. xfer_errors' \in 0 .. NumXfers
      BY <1>6 DEF TakeXfer, CountError
    <2> QED BY <2>1, <2>2, <2>3
  <1> QED BY <1>2, <1>3, <1>4, <1>5, <1>6 DEF Handler

\* The steps that touch no transfer, no request and not the status of a transfer.
QuietActions ==
    \/ Begin \/ Allocate \/ SubmitFails \/ EnterEvents \/ LeaveEvents \/ EventsFail \/ TestStatus
    \/ Sweep \/ Decide \/ Final \/ Return \/ Terminating
    \/ \E c \in Cancelers : CancelTest(c) \/ CancelStore(c) \/ CancelFlag(c)

LEMMA QuietFrame ==
    ASSUME QuietActions \/ UNCHANGED vars
    PROVE  UNCHANGED <<flight, urb, status, xfer_errors, system, handlerVars>>
  BY DEF QuietActions, Begin, Allocate, SubmitFails, EnterEvents, LeaveEvents, EventsFail, TestStatus, Sweep,
         Decide, Final, Return, Terminating, CancelTest, CancelStore, CancelFlag, vars

LEMMA NextCases ==
    ASSUME [Next]_vars
    PROVE  \/ QuietActions \/ SubmitNext \/ CancelNext \/ UNCHANGED vars
           \/ \E t \in Xfers : Reap(t) \/ Finish(t)
           \/ \E h \in Handlers : Handler(h)
  BY DEF Next, Reader, QuietActions

-----------------------------------------------------------------------------
(***************************************************************************)
(* Type correctness.                                                       *)
(***************************************************************************)
Places == {"out", "begun", "submit", "loop", "handle", "test", "cancel", "sweep", "decide",
           "final", "free"}

\* The reader's and the cancelers' own variables.
ReaderOK ==
    /\ async_status \in {"INACTIVE", "CANCELING", "RUNNING"}
    /\ async_cancel \in BOOLEAN
    /\ dev_lost \in BOOLEAN
    /\ rpc \in Places
    /\ i \in 1 .. NumXfers
    /\ next_status \in {"INACTIVE", "CANCELING"}
    /\ canceled \in BOOLEAN
    /\ cpc \in [Cancelers -> {"idle", "store", "flag"}]
    /\ reads \in 0 .. MaxReads
    /\ cancels \in 0 .. MaxCancels

LEMMA ReaderStep == ASSUME TypeOK, [Next]_vars PROVE ReaderOK'
  <1>1. ReaderOK
    BY DEF TypeOK, ReaderOK, Places
  <1>2. /\ NumXfers \in Nat \ {0} /\ MaxReads \in Nat /\ MaxCancels \in Nat
        /\ xfer_buf_num \in 1 .. NumXfers
    BY <1>1, ConstantsAssumption DEF ReaderOK, xfer_buf_num
  <1> USE <1>1, <1>2 DEF ReaderOK, Places
  <1>3. CASE Begin \/ SubmitFails
    BY <1>3 DEF Begin, SubmitFails
  <1>14. CASE Allocate
    <2>1. async_cancel' \in BOOLEAN
      BY <1>14, Zenon DEF Allocate
    <2> QED BY <1>14, <2>1 DEF Allocate
  <1>4. CASE SubmitNext
    BY <1>4 DEF SubmitNext
  <1>5. CASE EnterEvents \/ LeaveEvents \/ EventsFail \/ Decide \/ Final
    BY <1>5 DEF EnterEvents, LeaveEvents, EventsFail, Decide, Final
  <1>6. CASE TestStatus
    BY <1>6 DEF TestStatus
  <1>7. CASE CancelNext
    <2>1. canceled' \in BOOLEAN
      BY <1>7, CancelSteps DEF CancelNext
    <2> QED BY <1>7, <2>1 DEF CancelNext, NextXfer
  <1>8. CASE Sweep
    BY <1>8 DEF Sweep, NextXfer
  <1>9. CASE Return
    BY <1>9 DEF Return, ReturnStatus
  <1>10. CASE Terminating \/ UNCHANGED vars
    BY <1>10 DEF Terminating, vars
  <1>11. ASSUME NEW t \in Xfers, Reap(t) PROVE ReaderOK'
    <2>1. UNCHANGED <<rpc, i, next_status, canceled, cpc, reads, cancels>>
      BY <1>11, ReapSteps
    <2>2. UNCHANGED libVars \/ LoseDevice
      BY <1>11, ReapSteps DEF Resubmitted, Rested
    <2>3. CASE UNCHANGED libVars
      BY <2>1, <2>3
    <2>4. CASE LoseDevice
      BY <2>1, <2>4 DEF LoseDevice
    <2> QED BY <2>2, <2>3, <2>4
  <1>15. ASSUME NEW h \in Handlers, Handler(h) PROVE ReaderOK'
    <2>1. h \in Cancelers
      BY ConstantsAssumption
    <2> QED BY <1>15, <2>1, HandlerSteps
  <1>12. ASSUME NEW t \in Xfers, Finish(t) PROVE ReaderOK'
    BY <1>12, FinishSteps
  <1>13. ASSUME NEW c \in Cancelers, CancelTest(c) \/ CancelStore(c) \/ CancelFlag(c)
         PROVE  ReaderOK'
    <2>1. CASE CancelTest(c)
      BY <2>1 DEF CancelTest
    <2>2. CASE CancelStore(c)
      BY <2>2 DEF CancelStore
    <2>3. CASE CancelFlag(c)
      BY <2>3 DEF CancelFlag
    <2> QED BY <1>13, <2>1, <2>2, <2>3
  <1> QED BY <1>3, <1>4, <1>5, <1>6, <1>7, <1>8, <1>9, <1>10, <1>11, <1>12, <1>13,
             <1>14, <1>15 DEF Next, Reader

\* The transfers and their requests.
XfersOK ==
    /\ ready \subseteq {t \in Xfers : Finished(t)}
    /\ flight \in [Xfers -> {"idle", "flying", "cancelling"}]
    /\ urb \in [Xfers -> {"none", "pending", "discarded", "completed", "cancelled", "error", "nodevice"}]
    /\ status \in [Xfers -> {"COMPLETED", "CANCELLED", "ERROR"}]
    /\ xfer_errors \in 0 .. NumXfers /\ system \in Systems

LEMMA XfersStep == ASSUME TypeOK, Polled, [Next]_vars PROVE XfersOK' /\ HandlersOK' /\ Polled'
  <1>1. XfersOK /\ HandlersOK /\ Polled
    BY DEF TypeOK, XfersOK, HandlersOK
  <1>2. SUFFICES XfersOK' /\ HandlersOK' /\ Polled'
    OBVIOUS
  <1> USE <1>1 DEF XfersOK, HandlersOK, Finished
  <1>3. CASE QuietActions \/ UNCHANGED vars
    <2>1. UNCHANGED <<flight, urb, status, xfer_errors, system, handlerVars>>
      BY <1>3, QuietFrame
    <2>2. \/ ready' = ready /\ (UNCHANGED rpc \/ ready = {})
          \/ ready' = {}
          \/ Poll /\ InEvents'
      BY <1>3 DEF QuietActions, Begin, Allocate, SubmitFails, EnterEvents, LeaveEvents, EventsFail,
                  TestStatus, Sweep, Decide, Final, Return, Terminating, CancelTest, CancelStore,
                  CancelFlag, Polled, InEvents, Handled, vars
    <2>3. ready' \subseteq {t \in Xfers : Finished(t)}'
      BY <2>1, <2>2 DEF Poll
    <2>4. Polled'
      BY <2>1, <2>2 DEF Poll, Polled, InEvents
    <2> QED BY <2>1, <2>3, <2>4
  <1>4. CASE SubmitNext
    <2>1. ready' = {} /\ UNCHANGED <<status, xfer_errors, system, handlerVars>>
      BY <1>4 DEF Polled, InEvents, SubmitNext
    <2>2. /\ flight' \in [Xfers -> {"idle", "flying", "cancelling"}]
          /\ urb' \in [Xfers -> {"none", "pending", "discarded", "completed", "cancelled", "error",
                                 "nodevice"}]
      BY <1>4 DEF SubmitNext, Submit
    <2> QED BY <2>1, <2>2 DEF Polled
  <1>5. CASE CancelNext
    <2>1. ready = {} /\ UNCHANGED <<status, xfer_errors, system, handlerVars>>
      BY <1>5 DEF CancelNext, Polled, InEvents
    <2>2. CASE status[Own(i)] = "CANCELLED"
      BY <1>5, <2>1, <2>2 DEF CancelNext, Polled
    <2>3. CASE status[Own(i)] # "CANCELLED"
      <3>1. CancelXfer(Own(i)) /\ Poll /\ rpc' = "sweep"
        BY <1>5, <2>3 DEF CancelNext
      <3>2. /\ flight' \in [Xfers -> {"idle", "flying", "cancelling"}]
            /\ urb' \in [Xfers -> {"none", "pending", "discarded", "completed", "cancelled", "error",
                                   "nodevice"}]
        BY <3>1, CancelSteps
      <3>3. \A t \in Xfers : urb[t] \in {"completed", "cancelled", "error", "nodevice"} => urb'[t] = urb[t]
        <4>1. CASE flight[Own(i)] # "flying"
          BY <3>1, <4>1 DEF CancelXfer
        <4>2. CASE flight[Own(i)] = "flying"
          BY <3>1, <4>2 DEF CancelXfer
        <4> QED BY <4>1, <4>2
      <3>4. ready' \subseteq {t \in Xfers : Finished(t)}'
        BY <3>1, <3>3 DEF Poll
      <3>5. Polled'
        BY <2>1, <3>1 DEF Poll, Polled, InEvents
      <3> QED BY <2>1, <3>2, <3>4, <3>5
    <2> QED BY <2>2, <2>3
  <1>6. ASSUME NEW t \in Xfers, Reap(t) PROVE XfersOK' /\ HandlersOK' /\ Polled'
    <2>1. /\ Resubmitted(t) \/ Rested(t)
          /\ InEvents /\ holder = {}
          /\ ready' = ready \ {t} /\ xfer_errors' \in 0 .. NumXfers
          /\ UNCHANGED <<rpc, system, handlerVars>>
      BY <1>6, ReapSteps
    <2>2. /\ flight' \in [Xfers -> {"idle", "flying", "cancelling"}]
          /\ urb' \in [Xfers -> {"none", "pending", "discarded", "completed", "cancelled", "error",
                                 "nodevice"}]
          /\ status' \in [Xfers -> {"COMPLETED", "CANCELLED", "ERROR"}]
      BY <2>1 DEF Resubmitted, Rested
    <2>3. \A u \in Xfers : u # t => urb'[u] = urb[u]
      BY <2>1 DEF Resubmitted, Rested
    <2>4. ready' \subseteq {u \in Xfers : Finished(u)}'
      BY <2>1, <2>3
    <2>5. Polled'
      BY <2>1 DEF Polled, InEvents
    <2> QED BY <2>1, <2>2, <2>4, <2>5
  <1>7. ASSUME NEW t \in Xfers, Finish(t) PROVE XfersOK' /\ HandlersOK' /\ Polled'
    <2>1. PICK e \in {"completed", "cancelled", "error", "nodevice"} : urb' = [urb EXCEPT ![t] = e]
      BY <1>7, FinishSteps
    <2>2. UNCHANGED <<rpc, ready, flight, status, xfer_errors, system, handlerVars>>
      BY <1>7, FinishSteps
    <2>3. urb' \in [Xfers -> {"none", "pending", "discarded", "completed", "cancelled", "error",
                              "nodevice"}]
      BY <2>1
    <2>4. ready' \subseteq {u \in Xfers : Finished(u)}'
      BY <2>1, <2>2
    <2>5. Polled'
      BY <2>2 DEF Polled, InEvents
    <2> QED BY <2>2, <2>3, <2>4, <2>5
  <1>8. ASSUME NEW h \in Handlers, Handler(h) PROVE XfersOK' /\ HandlersOK' /\ Polled'
    <2>1. /\ HandlersOK' /\ UNCHANGED <<rpc, ready, system>>
          /\ holder' = {} \/ holder # {} \/ ~InEvents
          /\ \A t \in Xfers : Finished(t) => urb'[t] = urb[t] \/ holder # {}
      BY <1>8, HandlerSteps
    <2>2. holder # {} \/ ~InEvents => ready = {}
      BY DEF Polled
    <2>3. ready' \subseteq {u \in Xfers : Finished(u)}'
      BY <2>1, <2>2
    <2>4. Polled'
      BY <2>1, <2>2 DEF Polled, InEvents
    <2> QED BY <2>1, <2>3, <2>4
  <1> QED BY <1>3, <1>4, <1>5, <1>6, <1>7, <1>8, NextCases

LEMMA TypeStep == ASSUME TypeOK, Polled, [Next]_vars PROVE TypeOK' /\ Polled'
  BY ReaderStep, XfersStep DEF TypeOK, ReaderOK, XfersOK, HandlersOK, Places

-----------------------------------------------------------------------------
(***************************************************************************)
(* The status.                                                             *)
(***************************************************************************)
LEMMA StatusStep == ASSUME TypeOK, StatusInv, [Next]_vars PROVE StatusInv'
  <1> USE DEF StatusInv
  <1>1. /\ async_status \in {"INACTIVE", "CANCELING", "RUNNING"}
        /\ next_status \in {"INACTIVE", "CANCELING"}
        /\ rpc \in Places
    BY DEF TypeOK, Places
  <1>2. CASE Begin \/ Allocate \/ SubmitNext \/ SubmitFails
    BY <1>1, <1>2 DEF Places, Begin, Allocate, SubmitNext, SubmitFails
  <1>3. CASE EnterEvents \/ LeaveEvents \/ EventsFail \/ TestStatus
    BY <1>1, <1>3 DEF Places, EnterEvents, LeaveEvents, EventsFail, TestStatus
  <1>4. CASE CancelNext \/ Sweep
    BY <1>1, <1>4 DEF Places, CancelNext, Sweep, NextXfer
  <1>5. CASE Decide \/ Final
    BY <1>1, <1>5 DEF Places, Decide, Final
  <1>6. CASE Return
    BY <1>1, <1>6 DEF Places, Return, ReturnStatus
  <1>7. ASSUME NEW t \in Xfers, Reap(t) PROVE StatusInv'
    <2>1. /\ UNCHANGED <<rpc, next_status>>
          /\ async_status' = async_status \/ (async_status = "RUNNING" /\ async_status' = "CANCELING")
      BY <1>7, ReapSteps DEF Resubmitted, Rested, LoseDevice
    <2> QED BY <2>1
  <1>8. ASSUME NEW t \in Xfers, Finish(t) PROVE StatusInv'
    BY <1>8, FinishSteps
  <1>11. ASSUME NEW h \in Handlers, Handler(h) PROVE StatusInv'
    BY <1>11, HandlerSteps
  <1>9. ASSUME NEW c \in Cancelers, CancelTest(c) \/ CancelStore(c) \/ CancelFlag(c)
        PROVE  StatusInv'
    BY <1>9 DEF CancelTest, CancelStore, CancelFlag
  <1>10. CASE Terminating \/ UNCHANGED vars
    BY <1>10 DEF Terminating, vars
  <1> QED BY <1>2, <1>3, <1>4, <1>5, <1>6, <1>7, <1>8, <1>9, <1>10, <1>11 DEF Next, Reader

LEMMA IInvStep == IInv /\ [Next]_vars => IInv'
  BY TypeStep, StatusStep DEF IInv

LEMMA Invariant == Spec => []IInv
  BY InitIInv, IInvStep, PTL DEF Spec

\* No variable of the reader, of the transfers and of the cancelers leaves its type.
THEOREM TypeCorrect == Spec => []TypeOK
  <1>1. IInv => TypeOK
    BY DEF IInv
  <1> QED BY <1>1, Invariant, PTL

-----------------------------------------------------------------------------
(***************************************************************************)
(* What a caller of librtlsdr sees.  The reader's steps map to the steps   *)
(* of AsyncReadAPI that publish, cancel and take back the status; the work *)
(* on the transfers, and the flag that libusb polls, are stutters.         *)
(***************************************************************************)
Between == {c \in Cancelers : cpc[c] = "store"}

LEMMA APIStutter ==
    ASSUME UNCHANGED <<async_status, dev_lost, cpc>>, rpc' # "out" <=> rpc # "out"
    PROVE  UNCHANGED API!vars
  <1>1. (rpc # "out")' = (rpc # "out")
    BY Zenon
  <1>2. UNCHANGED {c \in Cancelers : cpc[c] = "store"}
    OBVIOUS
  <1> QED BY <1>1, <1>2 DEF API!vars

LEMMA ReturnMaps ==
    ASSUME TypeOK, StatusInv, Return
    PROVE  API!FailRead
  <1>1. /\ rpc = "free" /\ rpc' = "out" /\ async_status' = next_status
        /\ UNCHANGED <<dev_lost, cpc>>
    BY DEF Return, ReturnStatus
  <1>2. async_status' = "INACTIVE" \/ (async_status = "CANCELING" /\ async_status' = "CANCELING")
    BY <1>1 DEF TypeOK, StatusInv
  <1> QED BY <1>1, <1>2 DEF API!FailRead

LEMMA ReapMaps ==
    ASSUME TypeOK, NEW t \in Xfers, Reap(t)
    PROVE  API!LoseDevice \/ UNCHANGED API!vars
  <1>1. /\ Resubmitted(t) \/ Rested(t)
        /\ rpc # "out" /\ UNCHANGED <<rpc, cpc>>
    BY ReapSteps DEF InEvents
  <1>2. CASE LoseDevice
    <2>1. (rpc # "out")' = (rpc # "out")
      BY <1>1
    <2> QED BY <1>1, <1>2, <2>1 DEF LoseDevice, API!LoseDevice
  <1>3. CASE UNCHANGED libVars
    BY <1>1, <1>3, APIStutter
  <1> QED BY <1>1, <1>2, <1>3 DEF Resubmitted, Rested

LEMMA CancelMaps ==
    ASSUME TypeOK, NEW c \in Cancelers, CancelTest(c) \/ CancelStore(c) \/ CancelFlag(c)
    PROVE  API!CancelTest(c) \/ API!CancelStore(c) \/ UNCHANGED API!vars
  <1>1. cpc \in [Cancelers -> {"idle", "store", "flag"}]
    BY DEF TypeOK
  <1>2. (rpc # "out")' = (rpc # "out") /\ UNCHANGED dev_lost
    BY DEF CancelTest, CancelStore, CancelFlag
  <1>3. CASE CancelTest(c)
    <2>1. cpc[c] = "idle" /\ UNCHANGED async_status
          /\ cpc' = [cpc EXCEPT ![c] = IF async_status = "RUNNING" THEN "store" ELSE "idle"]
      BY <1>3 DEF CancelTest
    <2>2. Between' = IF async_status = "RUNNING" THEN Between \cup {c} ELSE Between
      BY <1>1, <2>1 DEF Between
    <2>3. c \notin Between
      BY <2>1 DEF Between
    <2> QED BY <1>2, <2>1, <2>2, <2>3 DEF API!CancelTest, Between
  <1>4. CASE CancelStore(c)
    <2>1. cpc[c] = "store" /\ cpc' = [cpc EXCEPT ![c] = "flag"] /\ async_status' = "CANCELING"
      BY <1>4 DEF CancelStore
    <2>2. c \in Between /\ Between' = Between \ {c}
      BY <1>1, <2>1 DEF Between
    <2> QED BY <1>2, <2>1, <2>2 DEF API!CancelStore, Between
  <1>5. CASE CancelFlag(c)
    <2>1. cpc[c] = "flag" /\ cpc' = [cpc EXCEPT ![c] = "idle"] /\ UNCHANGED async_status
      BY <1>5 DEF CancelFlag
    <2>2. Between' = Between
      BY <1>1, <2>1 DEF Between
    <2> QED BY <1>2, <2>1, <2>2 DEF API!vars, Between
  <1> QED BY <1>3, <1>4, <1>5

LEMMA HandlerMaps ==
    ASSUME TypeOK, NEW h \in Handlers, Handler(h)
    PROVE  API!HandlerLoses \/ API!CancelTest(h) \/ UNCHANGED API!vars
  <1>1. /\ UNCHANGED <<rpc, async_status>>
        /\ cpc \in [Cancelers -> {"idle", "store", "flag"}] /\ h \in Cancelers /\ Handlers # {}
    BY HandlerSteps, ConstantsAssumption DEF TypeOK
  <1>2. (rpc # "out")' = (rpc # "out")
    BY <1>1
  <1>3. CASE UNCHANGED <<dev_lost, cpc>>
    BY <1>1, <1>3, APIStutter
  <1>4. CASE dev_lost' = TRUE /\ UNCHANGED cpc
    BY <1>1, <1>2, <1>4 DEF API!HandlerLoses
  <1>5. CASE /\ UNCHANGED dev_lost /\ cpc[h] # "store"
             /\ cpc' = [cpc EXCEPT ![h] = IF async_status = "RUNNING" THEN "store" ELSE "idle"]
    <2>1. Between' = IF async_status = "RUNNING" THEN Between \cup {h} ELSE Between
      BY <1>1, <1>5 DEF Between
    <2>2. h \notin Between
      BY <1>5 DEF Between
    <2> QED BY <1>1, <1>2, <1>5, <2>1, <2>2 DEF API!CancelTest, Between
  <1> QED BY <1>3, <1>4, <1>5, HandlerSteps

LEMMA StepMaps ==
    ASSUME TypeOK, StatusInv, [Next]_vars
    PROVE  [API!Next]_(API!vars)
  <1>1. CASE Begin
    BY <1>1 DEF Begin, API!Next, API!BeginRead
  <1>2. CASE SubmitFails
    <2>1. (rpc # "out")' = (rpc # "out")
      BY <1>2 DEF SubmitFails
    <2> QED BY <1>2, <2>1 DEF SubmitFails, API!Next, API!SubmitFails
  <1>3. CASE Return
    BY <1>3, ReturnMaps DEF API!Next
  <1>4. ASSUME NEW t \in Xfers, Reap(t) PROVE [API!Next]_(API!vars)
    BY <1>4, ReapMaps DEF API!Next
  <1>5. ASSUME NEW c \in Cancelers, CancelTest(c) \/ CancelStore(c) \/ CancelFlag(c)
        PROVE  [API!Next]_(API!vars)
    BY <1>5, CancelMaps DEF API!Next
  <1>6. ASSUME NEW t \in Xfers, Finish(t) PROVE UNCHANGED API!vars
    BY <1>6, FinishSteps, APIStutter
  <1>9. ASSUME NEW h \in Handlers, Handler(h) PROVE [API!Next]_(API!vars)
    <2>1. h \in Cancelers
      BY ConstantsAssumption
    <2> QED BY <1>9, <2>1, HandlerMaps DEF API!Next
  <1>7. CASE Allocate \/ SubmitNext \/ EnterEvents \/ LeaveEvents \/ EventsFail \/ TestStatus
             \/ CancelNext \/ Sweep \/ Decide \/ Final
    <2>1. UNCHANGED <<async_status, dev_lost, cpc>> /\ rpc # "out" /\ rpc' # "out"
      BY <1>7 DEF Allocate, SubmitNext, EnterEvents, LeaveEvents, EventsFail, TestStatus, CancelNext,
                  Sweep, NextXfer, Decide, Final
    <2> QED BY <2>1, APIStutter
  <1>8. CASE Terminating \/ UNCHANGED vars
    BY <1>8, APIStutter DEF Terminating, vars
  <1> QED BY <1>1, <1>2, <1>3, <1>4, <1>5, <1>6, <1>7, <1>8, <1>9 DEF Next, Reader

\* For every number of transfers and of cancelers, whichever threads handle the events,
\* rtlsdr_read_async() over libusb does nothing that AsyncReadAPI, on which RtlTcp is
\* built, does not allow: each of its steps is a step of the abstract read or leaves what
\* its callers see unchanged.
THEOREM ImplementsAPISafely == Spec => API!Spec
  <1>1. Init => API!Init
    <2> SUFFICES ASSUME Init PROVE API!Init
      OBVIOUS
    <2>1. (rpc # "out") = FALSE
      BY DEF Init
    <2>2. {c \in Cancelers : cpc[c] = "store"} = {}
      BY DEF Init
    <2> QED BY <2>1, <2>2 DEF Init, API!Init
  <1>2. IInv /\ [Next]_vars => [API!Next]_(API!vars)
    BY StepMaps DEF IInv
  <1> QED BY <1>1, <1>2, Invariant, PTL DEF Spec, API!Spec
=============================================================================
