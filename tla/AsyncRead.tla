----------------------------- MODULE AsyncRead -----------------------------
(***************************************************************************)
(* rtlsdr_read_async() of librtlsdr over libusb's bulk transfers.  The     *)
(* reading thread submits every transfer and then handles libusb's events: *)
(* a completed transfer runs the user's callback and is submitted again.   *)
(* When the status has become CANCELING it cancels the transfers, one      *)
(* after the other, until a pass finds none left to cancel, frees them and *)
(* returns.  Other threads call rtlsdr_cancel_async() meanwhile.           *)
(*                                                                         *)
(* A transfer's request (urb) lives in the kernel: it finishes on its own, *)
(* and is reaped by whichever thread handles events next.  Only one does   *)
(* at a time: a thread inside a synchronous transfer of the same device    *)
(* may, and then runs the callbacks of the stream's transfers too, while   *)
(* the reading thread finds nothing to handle, goes on, and may return.    *)
(* Memory of a transfer that is used after it was freed is taken to be     *)
(* still what it was.                                                      *)
(***************************************************************************)
EXTENDS Integers

CONSTANTS
    NumXfers,       \* the most transfers that a read may have
    BufNums,        \* per call of rtlsdr_read_async(): its argument buf_num
    Cancelers,      \* threads that call rtlsdr_cancel_async()
    Handlers,       \* those of them that may handle libusb's events
    Systems,        \* those librtlsdr is compiled for: "posix", "windows"
    Faults,         \* what may fail: "transfer", "submit" (libusb_submit_transfer), "events"
    MaxReads,       \* bound: calls of rtlsdr_read_async()
    MaxCancels      \* bound: calls of rtlsdr_cancel_async()

ASSUME ConstantsAssumption ==
    /\ NumXfers \in Nat \ {0}
    /\ Systems \subseteq {"posix", "windows"}
    /\ Handlers \subseteq Cancelers
    /\ Faults \subseteq {"transfer", "submit", "events"}
    /\ MaxReads \in Nat \ {0}
    /\ BufNums \in [0 .. MaxReads -> 1 .. NumXfers]
    /\ MaxCancels \in Nat

Xfers == (1 .. MaxReads) \X (1 .. NumXfers)     \* each read allocates its own

VARIABLES
    async_status,
    async_cancel,   \* the flag libusb polls: events are not handled once it is set
    dev_lost,
    rpc,            \* the reading thread: where it is
    i,              \* the transfer its loops are at
    next_status,
    canceled,       \* libusb_cancel_transfer() succeeded for transfer i
    ready,          \* the transfers whose requests its last poll() found finished
    flight,         \* per transfer: "idle", "flying" or "cancelling"
    urb,            \* per transfer: its request in the kernel
    status,         \* per transfer: xfer->status
    xfer_errors,
    system,         \* the one this librtlsdr was compiled for
    cpc,            \* rtlsdr_cancel_async(), per thread that calls it
    holder,         \* the thread, other than the reader, that handles events: {} or {h}
    call,           \* the callback it runs: "none", the "user"'s, or about to "cancel"
    taken,          \* for this transfer
    reads, cancels

readerVars == <<rpc, i, next_status, canceled, ready>>
xferVars == <<flight, urb, status, xfer_errors, system>>
libVars == <<async_status, async_cancel, dev_lost>>
handlerVars == <<holder, call, taken>>
vars == <<readerVars, xferVars, libVars, cpc, handlerVars, reads, cancels>>

Own(k) == <<reads, k>>      \* dev->xfer[k]
xfer_buf_num == BufNums[reads]

Init ==
    /\ async_status = "INACTIVE" /\ async_cancel = FALSE /\ dev_lost = FALSE
    /\ rpc = "out" /\ i = 1 /\ next_status = "INACTIVE" /\ canceled = FALSE /\ ready = {}
    /\ flight = [t \in Xfers |-> "idle"]
    /\ urb = [t \in Xfers |-> "none"]
    /\ status = [t \in Xfers |-> "COMPLETED"]
    /\ xfer_errors = 0 /\ system \in Systems
    /\ cpc = [c \in Cancelers |-> "idle"]
    /\ holder = {} /\ call = "none" /\ taken = <<1, 1>>
    /\ reads = 0 /\ cancels = 0

(***************************************************************************)
(* The kernel.  A request that was discarded finishes as cancelled, unless *)
(* (with WinUSB) it completes before the abort reaches it.                 *)
(***************************************************************************)
Finished(t) == urb[t] \in {"completed", "cancelled", "error", "nodevice"}

Finish(t) ==
    /\ \/ urb[t] = "pending" /\ urb' = [urb EXCEPT ![t] = "completed"]
       \/ urb[t] = "pending" /\ "transfer" \in Faults /\ \E e \in {"error", "nodevice"} : urb' = [urb EXCEPT ![t] = e]
       \/ urb[t] = "discarded" /\ \E e \in {"cancelled", "completed"} : urb' = [urb EXCEPT ![t] = e]
    /\ UNCHANGED <<readerVars, libVars, flight, status, xfer_errors, system, cpc, handlerVars,
                   reads, cancels>>

(***************************************************************************)
(* libusb_submit_transfer() and libusb_cancel_transfer().  A request that  *)
(* has finished and is not yet reaped cannot be cancelled any more.        *)
(***************************************************************************)
Submit(t) ==
    /\ flight' = [flight EXCEPT ![t] = "flying"]
    /\ urb' = [urb EXCEPT ![t] = "pending"]

Rest(t) ==
    /\ flight' = [flight EXCEPT ![t] = "idle"]
    /\ urb' = [urb EXCEPT ![t] = "none"]

CancelXfer(t) ==
    IF flight[t] # "flying"
      THEN canceled' = FALSE /\ UNCHANGED <<flight, urb>>       \* LIBUSB_ERROR_NOT_FOUND
      ELSE /\ flight' = [flight EXCEPT ![t] = "cancelling"]
           /\ canceled' = (urb[t] = "pending")
           /\ urb' = [urb EXCEPT ![t] = IF @ = "pending" THEN "discarded" ELSE @]

(***************************************************************************)
(* _libusb_callback(), run by the reading thread for each finished         *)
(* transfer while no other thread handles events.                          *)
(***************************************************************************)
LoseDevice ==
    /\ dev_lost' = TRUE
    /\ IF async_status = "RUNNING"
         THEN async_status' = "CANCELING" /\ async_cancel' = TRUE
         ELSE UNCHANGED <<async_status, async_cancel>>

CountError(t) ==
    xfer_errors' = IF urb[t] = "error" /\ xfer_errors < NumXfers THEN xfer_errors + 1 ELSE xfer_errors

ErrorLimit == IF system = "windows" THEN 1 ELSE xfer_buf_num

Lost(t) == xfer_errors' >= ErrorLimit \/ urb[t] = "nodevice"

CallbackCompleted(t) ==
    /\ urb[t] = "completed"
    /\ status' = [status EXCEPT ![t] = "COMPLETED"]
    /\ Submit(t) \/ ("submit" \in Faults /\ Rest(t))         \* the result is ignored
    /\ xfer_errors' = 0
    /\ UNCHANGED libVars

CallbackCancelled(t) ==
    /\ urb[t] = "cancelled"
    /\ status' = [status EXCEPT ![t] = "CANCELLED"]
    /\ Rest(t)
    /\ UNCHANGED <<xfer_errors, libVars>>

CallbackFailed(t) ==
    /\ urb[t] \in {"error", "nodevice"}
    /\ status' = [status EXCEPT ![t] = "ERROR"]
    /\ Rest(t)
    /\ CountError(t)
    /\ IF Lost(t) THEN LoseDevice ELSE UNCHANGED libVars

Callback(t) == CallbackCompleted(t) \/ CallbackCancelled(t) \/ CallbackFailed(t)

InEvents == rpc \in {"handle", "sweep", "final"}

Reap(t) ==
    /\ InEvents /\ holder = {}
    /\ Callback(t)
    /\ ready' = ready \ {t}
    /\ UNCHANGED <<rpc, i, next_status, canceled, system, cpc, handlerVars, reads, cancels>>

\* poll(): the call handles at least what it finds, or nothing if another thread handles
\* events.
Poll == ready' = IF holder = {} THEN {t \in Xfers : Finished(t)} ELSE {}

Handled == ready = {}

(***************************************************************************)
(* Another thread h handles events.  A transfer is no longer in flight     *)
(* while its callback runs, and the thread that runs it may call           *)
(* rtlsdr_cancel_async() in it.                                            *)
(***************************************************************************)
TakeEvents(h) ==
    /\ holder = {} /\ ~InEvents
    /\ cpc[h] = "idle"
    /\ holder' = {h}
    /\ UNCHANGED <<readerVars, xferVars, libVars, cpc, call, taken, reads, cancels>>

TakeXfer(h, t) ==
    /\ holder = {h} /\ call = "none" /\ cpc[h] = "idle"
    /\ Finished(t)
    /\ Rest(t)
    /\ taken' = t
    /\ \/ /\ urb[t] = "completed"
          /\ status' = [status EXCEPT ![t] = "COMPLETED"]
          /\ call' = "user"
          /\ UNCHANGED <<xfer_errors, dev_lost>>
       \/ /\ urb[t] = "cancelled"
          /\ status' = [status EXCEPT ![t] = "CANCELLED"]
          /\ UNCHANGED <<call, xfer_errors, dev_lost>>
       \/ /\ urb[t] \in {"error", "nodevice"}
          /\ status' = [status EXCEPT ![t] = "ERROR"]
          /\ CountError(t)
          /\ IF Lost(t) THEN call' = "cancel" /\ dev_lost' = TRUE ELSE UNCHANGED <<call, dev_lost>>
    /\ UNCHANGED <<readerVars, system, async_status, async_cancel, cpc, holder, reads, cancels>>

Resubmit(h) ==
    /\ holder = {h} /\ call = "user"
    /\ call' = "none"
    /\ Submit(taken) \/ ("submit" \in Faults /\ UNCHANGED <<flight, urb>>)
    /\ xfer_errors' = 0
    /\ UNCHANGED <<readerVars, status, system, libVars, cpc, holder, taken, reads, cancels>>

TestInCallback(h) ==
    /\ holder = {h} /\ call = "cancel" /\ cpc[h] = "idle"
    /\ call' = "none"
    /\ cpc' = [cpc EXCEPT ![h] = IF async_status = "RUNNING" THEN "store" ELSE "idle"]
    /\ UNCHANGED <<readerVars, xferVars, libVars, holder, taken, reads, cancels>>

LeaveTo(h) ==           \* unlocks the events: anybody may handle them
    /\ holder = {h} /\ call = "none" /\ cpc[h] = "idle"
    /\ holder' = {}
    /\ UNCHANGED <<readerVars, xferVars, libVars, cpc, call, taken, reads, cancels>>

Handler(h) ==
    \/ TakeEvents(h) \/ Resubmit(h) \/ TestInCallback(h) \/ LeaveTo(h)
    \/ \E t \in Xfers : TakeXfer(h, t)

(***************************************************************************)
(* The reading thread.                                                     *)
(***************************************************************************)
Begin ==
    /\ rpc = "out"
    /\ reads < MaxReads
    /\ async_status = "INACTIVE"                \* otherwise it returns -2
    /\ rpc' = "begun"
    /\ async_status' = "RUNNING"
    /\ reads' = reads + 1
    /\ UNCHANGED <<i, next_status, canceled, ready, xferVars, async_cancel, dev_lost, cpc, handlerVars, cancels>>

Allocate ==
    /\ rpc = "begun"
    /\ rpc' = "submit"
    /\ async_cancel' = FALSE
    /\ i' = 1
    /\ next_status' = "INACTIVE"
    /\ UNCHANGED <<canceled, ready, xferVars, async_status, dev_lost, cpc, handlerVars, reads, cancels>>

SubmitNext ==
    /\ rpc = "submit"
    /\ Submit(Own(i))
    /\ IF i < xfer_buf_num THEN i' = i + 1 /\ UNCHANGED rpc ELSE rpc' = "loop" /\ UNCHANGED i
    /\ UNCHANGED <<next_status, canceled, ready, status, xfer_errors, system, libVars, cpc, handlerVars, reads, cancels>>

SubmitFails ==
    /\ rpc = "submit"
    /\ "submit" \in Faults
    /\ async_status' = "CANCELING"
    /\ rpc' = "loop"
    /\ UNCHANGED <<i, next_status, canceled, ready, xferVars, async_cancel, dev_lost, cpc, handlerVars, reads, cancels>>

\* libusb_handle_events_timeout_completed() handles nothing once async_cancel is set.
EnterEvents ==
    /\ rpc = "loop"
    /\ IF async_cancel THEN rpc' = "test" /\ UNCHANGED ready ELSE rpc' = "handle" /\ Poll
    /\ UNCHANGED <<i, next_status, canceled, xferVars, libVars, cpc, handlerVars, reads, cancels>>

LeaveEvents ==
    /\ rpc = "handle"
    /\ Handled
    /\ rpc' = "test"
    /\ UNCHANGED <<i, next_status, canceled, ready, xferVars, libVars, cpc, handlerVars, reads, cancels>>

EventsFail ==
    /\ rpc = "handle" /\ holder = {}
    /\ "events" \in Faults
    /\ rpc' = "free"
    /\ ready' = {}
    /\ UNCHANGED <<i, next_status, canceled, xferVars, libVars, cpc, handlerVars, reads, cancels>>

TestStatus ==
    /\ rpc = "test"
    /\ IF async_status = "CANCELING"
         THEN rpc' = "cancel" /\ i' = 1 /\ next_status' = "INACTIVE"
         ELSE rpc' = "loop" /\ UNCHANGED <<i, next_status>>
    /\ UNCHANGED <<canceled, ready, xferVars, libVars, cpc, handlerVars, reads, cancels>>

NextXfer == IF i < xfer_buf_num THEN i' = i + 1 /\ rpc' = "cancel" ELSE rpc' = "decide" /\ UNCHANGED i

CancelNext ==
    /\ rpc = "cancel"
    /\ IF status[Own(i)] = "CANCELLED"
         THEN NextXfer /\ UNCHANGED <<canceled, ready, flight, urb>>
         ELSE CancelXfer(Own(i)) /\ rpc' = "sweep" /\ Poll /\ UNCHANGED i
    /\ UNCHANGED <<next_status, status, xfer_errors, system, libVars, cpc, handlerVars, reads, cancels>>

Sweep ==                \* events are handled with a zero timeout after each cancel
    /\ rpc = "sweep"
    /\ Handled
    /\ next_status' = IF canceled THEN "CANCELING" ELSE next_status
    /\ NextXfer
    /\ UNCHANGED <<canceled, ready, xferVars, libVars, cpc, handlerVars, reads, cancels>>

PassIsLast == dev_lost \/ next_status = "INACTIVE"

Decide ==
    /\ rpc = "decide"
    /\ IF PassIsLast THEN rpc' = "final" /\ Poll ELSE rpc' = "loop" /\ UNCHANGED ready
    /\ UNCHANGED <<i, next_status, canceled, xferVars, libVars, cpc, handlerVars, reads, cancels>>

Final ==
    /\ rpc = "final"
    /\ Handled
    /\ rpc' = "free"
    /\ UNCHANGED <<i, next_status, canceled, ready, xferVars, libVars, cpc, handlerVars, reads, cancels>>

\* Mutant of ReturnStatus: the status is left as it is.
KeepStatus == UNCHANGED async_status

ReturnStatus == async_status' = next_status

Return ==
    /\ rpc = "free"
    /\ rpc' = "out"
    /\ ReturnStatus
    /\ UNCHANGED <<i, next_status, canceled, ready, xferVars, async_cancel, dev_lost, cpc, handlerVars, reads, cancels>>

Reader ==
    \/ Begin \/ Allocate \/ SubmitNext \/ SubmitFails \/ EnterEvents \/ LeaveEvents \/ EventsFail
    \/ TestStatus \/ CancelNext \/ Sweep \/ Decide \/ Final \/ Return
    \/ \E t \in Xfers : Reap(t)

(***************************************************************************)
(* rtlsdr_cancel_async(), called by thread c.                              *)
(***************************************************************************)
CancelTest(c) ==
    /\ cpc[c] = "idle" /\ c \notin holder
    /\ cancels < MaxCancels
    /\ cancels' = cancels + 1
    /\ cpc' = [cpc EXCEPT ![c] = IF async_status = "RUNNING" THEN "store" ELSE "idle"]
    /\ UNCHANGED <<readerVars, xferVars, libVars, handlerVars, reads>>

CancelStore(c) ==
    /\ cpc[c] = "store"
    /\ cpc' = [cpc EXCEPT ![c] = "flag"]
    /\ async_status' = "CANCELING"
    /\ UNCHANGED <<readerVars, xferVars, async_cancel, dev_lost, handlerVars, reads, cancels>>

CancelFlag(c) ==
    /\ cpc[c] = "flag"
    /\ cpc' = [cpc EXCEPT ![c] = "idle"]
    /\ async_cancel' = TRUE
    /\ UNCHANGED <<readerVars, xferVars, async_status, dev_lost, handlerVars, reads, cancels>>

\* All reads and cancels are over.
Terminating ==
    /\ rpc = "out"
    /\ UNCHANGED vars

Next ==
    \/ Reader
    \/ \E t \in Xfers : Finish(t)
    \/ \E c \in Cancelers : CancelTest(c) \/ CancelStore(c) \/ CancelFlag(c)
    \/ \E h \in Handlers : Handler(h)
    \/ Terminating

Spec == Init /\ [][Next]_vars

(***************************************************************************)
(* Fairness: the reading thread and the cancelers are scheduled, requests  *)
(* that were discarded finish, and not every one that was discarded has    *)
(* completed just before.  The device need not deliver, and between two    *)
(* waits for events the reader tests the status however fast it delivers:  *)
(* one call handles what its poll() has found, each in its turn.           *)
(***************************************************************************)
Runs ==
    \/ Allocate \/ SubmitNext \/ EnterEvents \/ LeaveEvents \/ TestStatus
    \/ CancelNext \/ Sweep \/ Decide \/ Final \/ Return
    \/ \E t \in Xfers : Reap(t)

FinishCancelled(t) == urb[t] = "discarded" /\ Finish(t) /\ urb'[t] = "cancelled"

Fairness ==
    /\ WF_vars(Runs)
    /\ WF_vars(LeaveEvents \/ Sweep \/ Final)
    /\ \A t \in Xfers : WF_vars(Reap(t))
    /\ \A t \in Xfers : WF_vars(urb[t] = "discarded" /\ Finish(t)) /\ SF_vars(FinishCancelled(t))
    /\ \A c \in Cancelers : WF_vars(CancelStore(c)) /\ WF_vars(CancelFlag(c))

FairSpec == Spec /\ Fairness

-----------------------------------------------------------------------------
(***************************************************************************)
(* Properties.                                                             *)
(***************************************************************************)

\* Every variable of the reader, of the transfers and of the cancelers has its type.
TypeOK ==
    /\ async_status \in {"INACTIVE", "CANCELING", "RUNNING"}
    /\ async_cancel \in BOOLEAN
    /\ dev_lost \in BOOLEAN
    /\ rpc \in {"out", "begun", "submit", "loop", "handle", "test", "cancel", "sweep",
                "decide", "final", "free"}
    /\ i \in 1 .. NumXfers
    /\ next_status \in {"INACTIVE", "CANCELING"}
    /\ canceled \in BOOLEAN
    /\ ready \subseteq {t \in Xfers : Finished(t)}
    /\ flight \in [Xfers -> {"idle", "flying", "cancelling"}]
    /\ urb \in [Xfers -> {"none", "pending", "discarded", "completed", "cancelled", "error", "nodevice"}]
    /\ status \in [Xfers -> {"COMPLETED", "CANCELLED", "ERROR"}]
    /\ xfer_errors \in 0 .. NumXfers /\ system \in Systems
    /\ cpc \in [Cancelers -> {"idle", "store", "flag"}]
    /\ holder \in {{}} \cup {{h} : h \in Handlers}
    /\ call \in {"none", "user", "cancel"}
    /\ taken \in Xfers
    /\ reads \in 0 .. MaxReads
    /\ cancels \in 0 .. MaxCancels

\* rtlsdr_read_async() implements what its callers see of it.
API == INSTANCE AsyncReadAPI
         WITH reading <- rpc # "out",
              sawRunning <- {c \in Cancelers : cpc[c] = "store"}

\* The read begins, is cancelled, fails and returns as AsyncReadAPI says, and a
\* cancelled read returns.
ImplementsAPI == API!FairSpec
=============================================================================
