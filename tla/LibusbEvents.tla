---------------------------- MODULE LibusbEvents -----------------------------
(***************************************************************************)
(* How the threads of a program share libusb's event handling (io.c,       *)
(* sync.c): each one submits a transfer and waits for its completion.  The *)
(* one that gets the events lock polls and reaps for all of them; the      *)
(* others wait for it to leave.  Any of them may find that a timeout has   *)
(* expired, and cancels the transfer.  One more thread closes a device,    *)
(* for which the event handler has to step aside (core.c).                 *)
(*                                                                         *)
(* A transfer has the name of the thread that submits it and one request   *)
(* in the kernel; UsbfsUrbs splits it.  Errors of poll() and of clocks are *)
(* left out.                                                               *)
(***************************************************************************)
EXTENDS Integers, FiniteSets

CONSTANTS
    Threads,        \* the threads that transfer synchronously
    Closer,         \* the thread that closes a device
    NoOne,
    MaxTransfers,   \* bound: transfers of each thread
    MaxCloses       \* bound: devices closed

ASSUME ConstantsAssumption ==
    /\ Closer \notin Threads /\ NoOne \notin Threads \cup {Closer}
    /\ MaxTransfers \in Nat \ {0} /\ MaxCloses \in Nat

VARIABLES
    pc,             \* every thread: where it is
    cur,            \* the transfer that a thread completes or cancels
    ret,            \* where handle_timeouts() returns to
    urb,            \* the kernel's request: "none", "queued", "done" or "discarded"
    in_flight,      \* USBI_TRANSFER_IN_FLIGHT
    reap_action,    \* tpriv->reap_action is CANCELLED
    timeout,        \* the transfer's: "none", "running" or "expired"
    handled,        \* USBI_TRANSFER_TIMEOUT_HANDLED
    timed_out,      \* USBI_TRANSFER_TIMED_OUT
    completed, status,
    flying,         \* ctx->flying_transfers, a set
    eventsOwner,    \* ctx->events_lock
    event_handler_active,
    device_close,   \* ctx->device_close, which also keeps the event pipe readable
    timerfd,        \* usbi_using_timerfd(ctx)
    transfers, closes

callVars == <<cur, ret>>
kernelVars == <<urb, in_flight, reap_action>>
timeVars == <<timeout, handled, timed_out>>
resultVars == <<completed, status>>
eventVars == <<eventsOwner, event_handler_active, device_close>>
boundVars == <<timerfd, transfers, closes>>
vars == <<pc, callVars, kernelVars, timeVars, resultVars, flying, eventVars, boundVars>>

All == Threads \cup {Closer}

Init ==
    /\ pc = [t \in All |-> "idle"]
    /\ cur = [t \in Threads |-> NoOne]
    /\ ret = [t \in Threads |-> "loop"]
    /\ urb = [t \in Threads |-> "none"]
    /\ in_flight = [t \in Threads |-> FALSE]
    /\ reap_action = [t \in Threads |-> FALSE]
    /\ timeout = [t \in Threads |-> "none"]
    /\ handled = [t \in Threads |-> FALSE]
    /\ timed_out = [t \in Threads |-> FALSE]
    /\ completed = [t \in Threads |-> FALSE]
    /\ status = [t \in Threads |-> "none"]
    /\ flying = {}
    /\ eventsOwner = NoOne /\ event_handler_active = FALSE
    /\ device_close = 0
    /\ timerfd \in BOOLEAN
    /\ transfers = [t \in Threads |-> 0]
    /\ closes = 0

Goto(t, place) == pc' = [pc EXCEPT ![t] = place]
Move(t, from, to) == pc[t] = from /\ Goto(t, to)

\* Mutant of FlyingFree: the lock is released before the transfer is marked.
FlyingDropped == \A t \in Threads : pc[t] # "sweep"

\* Three mutexes are held in certain places only: flying_transfers_lock while the
\* timeouts are handled, a transfer's lock while it is submitted, event_waiters_lock
\* from the last look at the event handler to the wait.
FlyingFree == \A t \in Threads : pc[t] \notin {"sweep", "mark"}
XferFree(x) == pc[x] # "submit"
WaitersFree == \A t \in Threads : pc[t] # "towait"

(***************************************************************************)
(* libusb_submit_transfer(), and what the kernel and the clock do.         *)
(***************************************************************************)
Submit(t) ==            \* the transfer's lock is kept until it is submitted
    /\ Move(t, "idle", "submit")
    /\ transfers[t] < MaxTransfers
    /\ FlyingFree
    /\ transfers' = [transfers EXCEPT ![t] = @ + 1]
    /\ \E b \in {"none", "running"} : timeout' = [timeout EXCEPT ![t] = b]
    /\ flying' = flying \cup {t}
    /\ UNCHANGED <<callVars, kernelVars, handled, timed_out, resultVars, eventVars, timerfd, closes>>

Submitted(t) ==
    /\ Move(t, "submit", "loop")
    /\ urb' = [urb EXCEPT ![t] = "queued"]
    /\ in_flight' = [in_flight EXCEPT ![t] = TRUE]
    /\ reap_action' = [reap_action EXCEPT ![t] = FALSE]
    /\ UNCHANGED <<callVars, timeVars, resultVars, flying, eventVars, boundVars>>

KernelCompletes(x) ==
    /\ urb[x] = "queued"
    /\ urb' = [urb EXCEPT ![x] = "done"]
    /\ UNCHANGED <<pc, callVars, in_flight, reap_action, timeVars, resultVars, flying, eventVars,
                   boundVars>>

Expire(x) ==
    /\ x \in flying
    /\ timeout[x] = "running"
    /\ timeout' = [timeout EXCEPT ![x] = "expired"]
    /\ UNCHANGED <<pc, callVars, kernelVars, handled, timed_out, resultVars, flying, eventVars,
                   boundVars>>

(***************************************************************************)
(* sync_transfer_wait_for_completion() and                                 *)
(* libusb_handle_events_timeout_completed().                               *)
(***************************************************************************)
Overdue == {x \in flying : timeout[x] = "expired" /\ ~handled[x]}

Return(t) ==            \* the transfer is freed: the next one starts from nothing
    /\ Move(t, "loop", "idle")
    /\ completed[t]
    /\ completed' = [completed EXCEPT ![t] = FALSE]
    /\ status' = [status EXCEPT ![t] = "none"]
    /\ timeout' = [timeout EXCEPT ![t] = "none"]
    /\ handled' = [handled EXCEPT ![t] = FALSE]
    /\ timed_out' = [timed_out EXCEPT ![t] = FALSE]
    /\ UNCHANGED <<callVars, kernelVars, flying, eventVars, boundVars>>

Loop(t) ==              \* looks at *completed, then at the next timeout
    /\ Move(t, "loop", IF Overdue # {} /\ ~timerfd THEN "timeouts" ELSE "try")
    /\ ~completed[t]
    /\ FlyingFree
    /\ UNCHANGED <<callVars, kernelVars, timeVars, resultVars, flying, eventVars, boundVars>>

\* libusb_try_lock_events() looks for somebody who closes a device, then tries the lock.
Try(t) ==
    /\ Move(t, "try", IF device_close = 0 THEN "trylock" ELSE "waiters")
    /\ UNCHANGED <<callVars, kernelVars, timeVars, resultVars, flying, eventVars, boundVars>>

TryLock(t) ==
    /\ Move(t, "trylock", IF eventsOwner = NoOne THEN "activate" ELSE "waiters")
    /\ eventsOwner' = IF eventsOwner = NoOne THEN t ELSE eventsOwner
    /\ UNCHANGED <<callVars, kernelVars, timeVars, resultVars, flying, event_handler_active,
                   device_close, boundVars>>

Activate(t) ==          \* the handler looks at *completed once more
    /\ Move(t, "activate", IF completed[t] THEN "unlock" ELSE "poll")
    /\ event_handler_active' = TRUE
    /\ UNCHANGED <<callVars, kernelVars, timeVars, resultVars, flying, eventsOwner, device_close,
                   boundVars>>

\* Mutant of SomebodyHandles: the thread waits without looking again.
SomebodyHandled == TRUE

\* libusb_event_handler_active().
SomebodyHandles == device_close > 0 \/ event_handler_active

LockWaiters(t) ==
    /\ Move(t, "waiters", IF completed[t] THEN "loop" ELSE IF SomebodyHandles THEN "towait" ELSE "try")
    /\ WaitersFree
    /\ UNCHANGED <<callVars, kernelVars, timeVars, resultVars, flying, eventVars, boundVars>>

Wait(t) ==              \* libusb_wait_for_event() releases the lock as it begins
    /\ Move(t, "towait", "wait")
    /\ UNCHANGED <<callVars, kernelVars, timeVars, resultVars, flying, eventVars, boundVars>>

WaitTimesOut(t) ==      \* after the time until the next timeout, or a minute
    /\ Move(t, "wait", "timeouts")
    /\ WaitersFree
    /\ UNCHANGED <<callVars, kernelVars, timeVars, resultVars, flying, eventVars, boundVars>>

(***************************************************************************)
(* handle_timeouts(): under flying_transfers_lock every transfer whose     *)
(* timeout has expired is cancelled, under its own lock, and then marked   *)
(* as timed out if it was cancelled.                                       *)
(***************************************************************************)
LockFlying(t) ==
    /\ Move(t, "timeouts", "sweep")
    /\ FlyingFree
    /\ UNCHANGED <<callVars, kernelVars, timeVars, resultVars, flying, eventVars, boundVars>>

\* A transfer that is not in flight, or whose request has finished, is not found.
HandleTimeout(t) ==
    /\ pc[t] = "sweep"
    /\ \E x \in Overdue :
         /\ XferFree(x)
         /\ handled' = [handled EXCEPT ![x] = TRUE]
         /\ IF in_flight[x] /\ urb[x] = "queued"
              THEN /\ urb' = [urb EXCEPT ![x] = "discarded"]
                   /\ reap_action' = [reap_action EXCEPT ![x] = TRUE]
                   /\ cur' = [cur EXCEPT ![t] = x]
                   /\ Goto(t, "mark")
              ELSE UNCHANGED <<pc, cur, urb, reap_action>>
    /\ UNCHANGED <<ret, in_flight, timeout, timed_out, resultVars, flying, eventVars, boundVars>>

MarkTimedOut(t) ==
    /\ Move(t, "mark", "sweep")
    /\ timed_out' = [timed_out EXCEPT ![cur[t]] = TRUE]
    /\ cur' = [cur EXCEPT ![t] = NoOne]
    /\ UNCHANGED <<ret, kernelVars, timeout, handled, resultVars, flying, eventVars, boundVars>>

UnlockFlying(t) ==
    /\ Move(t, "sweep", ret[t])
    /\ Overdue = {}
    /\ ret' = [ret EXCEPT ![t] = "loop"]
    /\ UNCHANGED <<cur, kernelVars, timeVars, resultVars, flying, eventVars, boundVars>>

(***************************************************************************)
(* handle_events(), under the events lock: poll() returns because of the   *)
(* event pipe, a reapable request or a timeout.                            *)
(***************************************************************************)
Reapable == {x \in Threads : urb[x] \in {"done", "discarded"}}

PollReturns(t) ==
    /\ pc[t] = "poll"
    /\ \/ timerfd /\ Overdue # {} /\ Goto(t, "timeouts") /\ ret' = [ret EXCEPT ![t] = "reap"]
       \/ (device_close > 0 \/ Reapable # {}) /\ Goto(t, "reap") /\ UNCHANGED ret
    /\ UNCHANGED <<cur, kernelVars, timeVars, resultVars, flying, eventVars, boundVars>>

PollTimesOut(t) ==      \* with nothing ready
    /\ Move(t, "poll", "timeouts")
    /\ Reapable = {} /\ device_close = 0
    /\ ret' = [ret EXCEPT ![t] = "unlock"]
    /\ UNCHANGED <<cur, kernelVars, timeVars, resultVars, flying, eventVars, boundVars>>

Reap(t) ==              \* op_handle_events(): until there is nothing to reap
    /\ pc[t] = "reap"
    /\ \/ Reapable = {} /\ Goto(t, "unlock") /\ UNCHANGED <<cur, urb>>
       \/ \E x \in Reapable :
            /\ urb' = [urb EXCEPT ![x] = "none"]
            /\ cur' = [cur EXCEPT ![t] = x]
            /\ Goto(t, "retire")
    /\ UNCHANGED <<ret, in_flight, reap_action, timeVars, resultVars, flying, eventVars, boundVars>>

\* handle_control_completion() and, of a cancelled one, usbi_handle_transfer_cancellation(),
\* each under its lock.
Retire(t) ==
    LET x == cur[t]
    IN /\ Move(t, "retire", "complete")
       /\ XferFree(x)
       /\ reap_action[x] => FlyingFree
       /\ status' = [status EXCEPT ![x] = IF ~reap_action[x] THEN "COMPLETED"
                                          ELSE IF timed_out[x] THEN "TIMED_OUT" ELSE "CANCELLED"]
       /\ UNCHANGED <<callVars, kernelVars, timeVars, completed, flying, eventVars, boundVars>>

\* usbi_handle_transfer_completion() down to sync_transfer_cb().
Complete(t) ==
    /\ Move(t, "complete", "reap")
    /\ FlyingFree
    /\ flying' = flying \ {cur[t]}
    /\ in_flight' = [in_flight EXCEPT ![cur[t]] = FALSE]
    /\ completed' = [completed EXCEPT ![cur[t]] = TRUE]
    /\ cur' = [cur EXCEPT ![t] = NoOne]
    /\ UNCHANGED <<ret, urb, reap_action, timeVars, status, eventVars, boundVars>>

(***************************************************************************)
(* libusb_unlock_events(), and libusb_close() of another device.           *)
(***************************************************************************)
Deactivate(t) ==
    /\ Move(t, "unlock", "release")
    /\ event_handler_active' = FALSE
    /\ UNCHANGED <<callVars, kernelVars, timeVars, resultVars, flying, eventsOwner, device_close,
                   boundVars>>

Release(t) ==
    /\ Move(t, "release", "broadcast")
    /\ eventsOwner' = NoOne
    /\ UNCHANGED <<callVars, kernelVars, timeVars, resultVars, flying, event_handler_active,
                   device_close, boundVars>>

\* Mutant of MayBroadcast: without the waiters' lock.
MayBroadcastAlways == TRUE

MayBroadcast == WaitersFree

Broadcast(t) ==
    /\ pc[t] = "broadcast"
    /\ MayBroadcast
    /\ pc' = [u \in All |-> IF u = t /\ t = Closer THEN "idle"
                            ELSE IF u = t \/ pc[u] = "wait" THEN "loop" ELSE pc[u]]
    /\ UNCHANGED <<callVars, kernelVars, timeVars, resultVars, flying, eventVars, boundVars>>

CloseBegins ==
    /\ Move(Closer, "idle", "lock")
    /\ closes < MaxCloses
    /\ closes' = closes + 1
    /\ device_close' = device_close + 1
    /\ UNCHANGED <<callVars, kernelVars, timeVars, resultVars, flying, eventsOwner,
                   event_handler_active, timerfd, transfers>>

CloseLocks ==
    /\ Move(Closer, "lock", "close")
    /\ eventsOwner = NoOne
    /\ eventsOwner' = Closer
    /\ event_handler_active' = TRUE
    /\ UNCHANGED <<callVars, kernelVars, timeVars, resultVars, flying, device_close, boundVars>>

CloseEnds ==
    /\ Move(Closer, "close", "unlock")
    /\ device_close' = device_close - 1
    /\ UNCHANGED <<callVars, kernelVars, timeVars, resultVars, flying, eventsOwner,
                   event_handler_active, boundVars>>

TakesLock(t) ==
    \/ Loop(t) \/ LockWaiters(t) \/ LockFlying(t) \/ HandleTimeout(t)
    \/ Retire(t) \/ Complete(t)

Goes(t) ==
    \/ Submitted(t) \/ Return(t) \/ Try(t) \/ TryLock(t) \/ Activate(t) \/ Wait(t)
    \/ MarkTimedOut(t) \/ UnlockFlying(t) \/ PollReturns(t) \/ Reap(t)

Leaves(t) == Deactivate(t) \/ Release(t) \/ Broadcast(t)

Close == CloseLocks \/ CloseEnds

Done ==
    /\ \A t \in All : pc[t] = "idle"
    /\ UNCHANGED vars

Next ==
    \/ \E t \in Threads :
         \/ Submit(t) \/ TakesLock(t) \/ Goes(t) \/ WaitTimesOut(t) \/ PollTimesOut(t)
         \/ KernelCompletes(t) \/ Expire(t)
    \/ \E t \in All : Leaves(t)
    \/ CloseBegins \/ Close
    \/ Done

Spec == Init /\ [][Next]_vars

(***************************************************************************)
(* Fairness: threads are scheduled and mutexes do not starve them.  The    *)
(* kernel must answer a transfer without a timeout only, and clocks go on. *)
(* A wait ends by itself only when the waiting thread's own timeout is     *)
(* what it waits for: nothing rests on the minute after which the others   *)
(* look again.                                                             *)
(***************************************************************************)
FairSpec ==
    /\ Spec
    /\ \A t \in Threads :
         /\ SF_vars(TakesLock(t) \/ Leaves(t))
         /\ WF_vars(Goes(t) \/ ((WaitTimesOut(t) \/ PollTimesOut(t)) /\ ~timerfd /\ t \in Overdue))
         /\ WF_vars(Expire(t) \/ (KernelCompletes(t) /\ timeout[t] = "none"))
    /\ SF_vars(Close \/ Leaves(Closer))

-----------------------------------------------------------------------------
(***************************************************************************)
(* Properties.                                                             *)
(***************************************************************************)
\* Every variable has its type; device_close counts the devices being closed, and the
\* events lock is held by whoever handles events.
TypeOK ==
    /\ \A t \in Threads :
         /\ pc[t] \in {"idle", "submit", "loop", "try", "trylock", "activate", "waiters", "towait", "wait", "timeouts",
                       "sweep", "mark", "poll", "reap", "retire", "complete", "unlock",
                       "release", "broadcast"}
         /\ cur[t] \in Threads \cup {NoOne}
         /\ ret[t] \in {"loop", "reap", "unlock"}
         /\ urb[t] \in {"none", "queued", "done", "discarded"}
         /\ timeout[t] \in {"none", "running", "expired"}
         /\ status[t] \in {"none", "COMPLETED", "TIMED_OUT", "CANCELLED"}
         /\ {in_flight[t], reap_action[t], handled[t], timed_out[t], completed[t]} \subseteq BOOLEAN
         /\ transfers[t] \in 0 .. MaxTransfers
    /\ pc[Closer] \in {"idle", "lock", "close", "unlock", "release", "broadcast"}
    /\ flying \subseteq Threads
    /\ \A t \in All :
         eventsOwner = t <=> \/ pc[t] \in {"activate", "poll", "reap", "retire", "complete", "close",
                                          "unlock", "release"}
                             \/ pc[t] \in {"timeouts", "sweep", "mark"} /\ ret[t] # "loop"
    /\ eventsOwner \in All \cup {NoOne}
    /\ event_handler_active \in BOOLEAN /\ timerfd \in BOOLEAN
    /\ device_close = IF pc[Closer] \in {"lock", "close"} THEN 1 ELSE 0
    /\ closes \in 0 .. MaxCloses

\* No thread waits for an event handler that has gone: while one waits, somebody owns
\* the events lock, is about to take it to close a device, or has still to wake the
\* waiters.
NoneWaitsInVain ==
    (\E t \in Threads : pc[t] \in {"towait", "wait"}) =>
        \/ eventsOwner # NoOne
        \/ pc[Closer] = "lock"
        \/ \E t \in All : pc[t] = "broadcast"

\* A transfer that nobody cancels is reported as completed, or, if its timeout has
\* expired, as timed out, whichever thread found the timeout and whichever reaps.
TimeoutReported ==
    \A t \in Threads : completed[t] =>
        \/ status[t] = "COMPLETED"
        \/ status[t] = "TIMED_OUT" /\ timeout[t] = "expired"

\* Whoever works on a transfer, the event handler or a thread that cancels it because
\* of its timeout, does so before the callback: its owner, who frees it then, has not
\* returned.
TransferAlive ==
    \A t \in Threads :
        cur[t] # NoOne => ~completed[cur[t]] /\ pc[cur[t]] # "idle"

\* Every synchronous transfer returns: of the few that are made, none waits for ever.
Returns == <>[](\A t \in Threads : pc[t] = "idle")
=============================================================================
