------------------------- MODULE LibusbEventsProofs --------------------------
(***************************************************************************)
(* Theorems about LibusbEvents, for every set of threads and every number  *)
(* of transfers and of closed devices, and their proofs.                   *)
(***************************************************************************)
EXTENDS LibusbEvents, TLAPS

USE DEF callVars, kernelVars, timeVars, resultVars, eventVars, boundVars

(***************************************************************************)
(* Type correctness.  TypeOK in three parts, with the domains of the       *)
(* functions, and what a thread that handles timeouts returns to: only the *)
(* event handler has it set.                                               *)
(***************************************************************************)
ThreadPlaces == {"idle", "submit", "loop", "try", "trylock", "activate", "waiters", "towait", "wait",
                 "timeouts", "sweep", "mark", "poll", "reap", "retire", "complete", "unlock",
                 "release", "broadcast"}

CloserPlaces == {"idle", "lock", "close", "unlock", "release", "broadcast"}

PlacesOK ==
    /\ pc \in [All -> ThreadPlaces \cup CloserPlaces]
    /\ \A t \in Threads : pc[t] \in ThreadPlaces
    /\ pc[Closer] \in CloserPlaces

CallsOK ==
    /\ cur \in [Threads -> Threads \cup {NoOne}]
    /\ ret \in [Threads -> {"loop", "reap", "unlock"}]

KernelOK ==
    /\ urb \in [Threads -> {"none", "queued", "done", "discarded"}]
    /\ in_flight \in [Threads -> BOOLEAN]
    /\ reap_action \in [Threads -> BOOLEAN]

TimesOK ==
    /\ timeout \in [Threads -> {"none", "running", "expired"}]
    /\ handled \in [Threads -> BOOLEAN]
    /\ timed_out \in [Threads -> BOOLEAN]

ResultsOK ==
    /\ completed \in [Threads -> BOOLEAN]
    /\ status \in [Threads -> {"none", "COMPLETED", "TIMED_OUT", "CANCELLED"}]
    /\ flying \subseteq Threads

BoundsOK ==
    /\ timerfd \in BOOLEAN
    /\ transfers \in [Threads -> 0 .. MaxTransfers]
    /\ closes \in 0 .. MaxCloses

DataOK == CallsOK /\ KernelOK /\ TimesOK /\ ResultsOK /\ BoundsOK

Handling(t) ==
    \/ pc[t] \in {"activate", "poll", "reap", "retire", "complete", "close", "unlock", "release"}
    \/ pc[t] \in {"timeouts", "sweep", "mark"} /\ ret[t] # "loop"

EventsOK ==
    /\ \A t \in All : eventsOwner = t <=> Handling(t)
    /\ eventsOwner \in All \cup {NoOne}
    /\ event_handler_active \in BOOLEAN
    /\ device_close = IF pc[Closer] \in {"lock", "close"} THEN 1 ELSE 0
    /\ \A t \in Threads : pc[t] \notin {"timeouts", "sweep", "mark"} => ret[t] = "loop"

TypeInv == PlacesOK /\ DataOK /\ EventsOK

LEMMA TypeInvTypeOK == TypeInv => TypeOK
  <1> SUFFICES ASSUME TypeInv PROVE TypeOK
    OBVIOUS
  <1>1. ASSUME NEW t \in Threads
        PROVE  {in_flight[t], reap_action[t], handled[t], timed_out[t], completed[t]} \subseteq BOOLEAN
    <2>1. in_flight[t] \in BOOLEAN /\ reap_action[t] \in BOOLEAN
      BY Zenon DEF TypeInv, DataOK, KernelOK
    <2>2. handled[t] \in BOOLEAN /\ timed_out[t] \in BOOLEAN /\ completed[t] \in BOOLEAN
      BY Zenon DEF TypeInv, DataOK, TimesOK, ResultsOK
    <2> QED BY <2>1, <2>2, Zenon
  <1>2. ASSUME NEW t \in Threads
        PROVE  /\ pc[t] \in ThreadPlaces /\ cur[t] \in Threads \cup {NoOne}
               /\ ret[t] \in {"loop", "reap", "unlock"}
               /\ urb[t] \in {"none", "queued", "done", "discarded"}
               /\ timeout[t] \in {"none", "running", "expired"}
               /\ status[t] \in {"none", "COMPLETED", "TIMED_OUT", "CANCELLED"}
               /\ transfers[t] \in 0 .. MaxTransfers
    BY DEF TypeInv, PlacesOK, DataOK, CallsOK, KernelOK, TimesOK, ResultsOK, BoundsOK
  <1>3. /\ flying \subseteq Threads /\ closes \in 0 .. MaxCloses
        /\ pc[Closer] \in {"idle", "lock", "close", "unlock", "release", "broadcast"}
    BY DEF TypeInv, PlacesOK, DataOK, ResultsOK, BoundsOK, CloserPlaces
  <1>4. timerfd \in BOOLEAN
    BY Zenon DEF TypeInv, DataOK, BoundsOK
  <1>5. /\ \A t \in All : eventsOwner = t <=> Handling(t)
        /\ eventsOwner \in All \cup {NoOne} /\ event_handler_active \in BOOLEAN
        /\ device_close = IF pc[Closer] \in {"lock", "close"} THEN 1 ELSE 0
    BY Zenon DEF TypeInv, EventsOK
  <1> QED BY <1>1, <1>2, <1>3, <1>4, <1>5, Zenon DEF TypeOK, ThreadPlaces, Handling

LEMMA InitTypeInv == Init => TypeInv
  <1> SUFFICES ASSUME Init PROVE TypeInv
    OBVIOUS
  <1> USE ConstantsAssumption DEF Init
  <1>1. PlacesOK
    BY DEF PlacesOK, ThreadPlaces, CloserPlaces, All
  <1>2. CallsOK
    BY DEF CallsOK
  <1>3. KernelOK
    <2>1. in_flight \in [Threads -> BOOLEAN] /\ reap_action \in [Threads -> BOOLEAN]
      BY Zenon
    <2> QED BY <2>1 DEF KernelOK
  <1>4. TimesOK
    <2>1. handled \in [Threads -> BOOLEAN] /\ timed_out \in [Threads -> BOOLEAN]
      BY Zenon
    <2> QED BY <2>1 DEF TimesOK
  <1>5. ResultsOK
    <2>1. completed \in [Threads -> BOOLEAN]
      BY Zenon
    <2> QED BY <2>1 DEF ResultsOK
  <1>6. BoundsOK
    <2>1. timerfd \in BOOLEAN
      BY Zenon
    <2> QED BY <2>1 DEF BoundsOK
  <1>7. EventsOK
    <2>1. event_handler_active \in BOOLEAN
      BY Zenon
    <2> QED BY <2>1 DEF EventsOK, Handling, All
  <1> QED BY <1>1, <1>2, <1>3, <1>4, <1>5, <1>6, <1>7 DEF TypeInv, DataOK

(***************************************************************************)
(* The steps that a thread passes through without touching a transfer.     *)
(***************************************************************************)
Passes(t) ==
    \/ Loop(t) \/ LockWaiters(t) \/ LockFlying(t) \/ Try(t) \/ TryLock(t) \/ Activate(t) \/ Wait(t)
    \/ UnlockFlying(t) \/ PollReturns(t) \/ WaitTimesOut(t) \/ PollTimesOut(t)

Works(t) ==
    \/ Submit(t) \/ Submitted(t) \/ KernelCompletes(t) \/ Expire(t) \/ Return(t)
    \/ HandleTimeout(t) \/ MarkTimedOut(t) \/ Reap(t) \/ Retire(t) \/ Complete(t)

LEMMA NextCases ==
    ASSUME [Next]_vars
    PROVE  \/ \E t \in Threads : Passes(t) \/ Works(t)
           \/ \E t \in All : Leaves(t)
           \/ CloseBegins \/ CloseLocks \/ CloseEnds
           \/ UNCHANGED vars
  BY Zenon DEF Next, TakesLock, Goes, Close, Done, Passes, Works

-----------------------------------------------------------------------------
LEMMA MoveFacts ==
    ASSUME PlacesOK, NEW t \in All, NEW p \in ThreadPlaces \cup CloserPlaces, Goto(t, p),
           t \in Threads => p \in ThreadPlaces, t = Closer => p \in CloserPlaces
    PROVE  /\ PlacesOK'
           /\ pc'[t] = p
           /\ \A u \in All \ {t} : pc'[u] = pc[u]
  BY ConstantsAssumption DEF PlacesOK, Goto, All

LEMMA PlacesStep == ASSUME TypeInv, [Next]_vars PROVE PlacesOK'
  <1> USE DEF ThreadPlaces, CloserPlaces
  <1>0. PlacesOK /\ CallsOK
    BY DEF TypeInv, DataOK
  <1>1. ASSUME NEW t \in Threads, Passes(t) PROVE PlacesOK'
    <2>1. ret[t] \in {"loop", "reap", "unlock"}
      BY <1>0 DEF CallsOK
    <2>2. \E p \in ThreadPlaces : Goto(t, p)
      BY <1>1, <2>1 DEF Passes, Move, Loop, LockWaiters, LockFlying, Try, TryLock, Activate, Wait,
            UnlockFlying, PollReturns, WaitTimesOut, PollTimesOut
    <2> QED BY <1>0, <2>2, MoveFacts, ConstantsAssumption DEF All
  <1>2. ASSUME NEW t \in Threads, Works(t) PROVE PlacesOK'
    <2>1. UNCHANGED pc \/ \E p \in ThreadPlaces : Goto(t, p)
      BY <1>2 DEF Works, Move, Submit, Submitted, KernelCompletes, Expire, Return, HandleTimeout,
            MarkTimedOut, Reap, Retire, Complete
    <2>2. CASE UNCHANGED pc
      BY <1>0, <2>2 DEF PlacesOK
    <2> QED BY <1>0, <2>1, <2>2, MoveFacts, ConstantsAssumption DEF All
  <1>3. ASSUME NEW t \in All, Leaves(t) PROVE PlacesOK'
    <2>1. CASE Broadcast(t)
      BY <1>0, <2>1, ConstantsAssumption DEF Broadcast, PlacesOK, All
    <2>2. CASE Deactivate(t) \/ Release(t)
      <3>1. \E p \in ThreadPlaces \cap CloserPlaces : Goto(t, p)
        BY <2>2 DEF Deactivate, Release, Move
      <3> QED BY <1>0, <3>1, MoveFacts
    <2> QED BY <1>3, <2>1, <2>2 DEF Leaves
  <1>4. CASE CloseBegins \/ CloseLocks \/ CloseEnds
    <2>1. \E p \in CloserPlaces : Goto(Closer, p)
      BY <1>4 DEF CloseBegins, CloseLocks, CloseEnds, Move
    <2> QED BY <1>0, <2>1, MoveFacts, ConstantsAssumption DEF All
  <1>5. CASE UNCHANGED vars
    BY <1>0, <1>5 DEF vars, PlacesOK
  <1> QED BY <1>1, <1>2, <1>3, <1>4, <1>5, NextCases

\* The steps that touch no transfer, no call and no count.
LEMMA PassesFrame ==
    ASSUME NEW t, Passes(t)
    PROVE  /\ UNCHANGED <<kernelVars, timeVars, resultVars, flying, cur, device_close, boundVars>>
           /\ ret' = ret \/ \E r \in {"loop", "reap", "unlock"} : ret' = [ret EXCEPT ![t] = r]
  BY DEF Passes, Loop, LockWaiters, LockFlying, Try, TryLock, Activate, Wait, UnlockFlying,
         PollReturns, WaitTimesOut, PollTimesOut

LEMMA LeavesFrame ==
    ASSUME NEW t, Leaves(t)
    PROVE  UNCHANGED <<kernelVars, timeVars, resultVars, flying, callVars, device_close, boundVars>>
  BY DEF Leaves, Deactivate, Release, Broadcast

LEMMA CloseFrame ==
    ASSUME CloseBegins \/ CloseLocks \/ CloseEnds
    PROVE  UNCHANGED <<kernelVars, timeVars, resultVars, flying, callVars, timerfd, transfers>>
  BY DEF CloseBegins, CloseLocks, CloseEnds

\* Who works on a transfer works on one of a thread.
LEMMA CurIsThread ==
    ASSUME PlacesOK, CallsOK, NEW t \in Threads
    PROVE  cur[t] \in Threads \cup {NoOne} /\ ret[t] \in {"loop", "reap", "unlock"}
  BY DEF CallsOK

LEMMA BooleanUpdate ==
    ASSUME NEW S, NEW f \in [S -> BOOLEAN], NEW x, NEW b \in BOOLEAN
    PROVE  [f EXCEPT ![x] = b] \in [S -> BOOLEAN]
  OBVIOUS

LEMMA WorksData == ASSUME TypeInv, NEW t \in Threads, Works(t) PROVE DataOK'
  <1>0. CallsOK /\ KernelOK /\ TimesOK /\ ResultsOK /\ BoundsOK
    BY DEF TypeInv, DataOK
  <1>1. CASE Submit(t)
    <2>1. BoundsOK'
      <3>1. transfers' \in [Threads -> 0 .. MaxTransfers]
        BY <1>0, <1>1, ConstantsAssumption DEF BoundsOK, Submit
      <3>2. timerfd' \in BOOLEAN
        BY <1>0, <1>1, Zenon DEF BoundsOK, Submit
      <3> QED BY <1>0, <1>1, <3>1, <3>2 DEF BoundsOK, Submit
    <2>2. TimesOK' /\ CallsOK' /\ KernelOK' /\ ResultsOK'
      BY <1>0, <1>1 DEF Submit, TimesOK, CallsOK, KernelOK, ResultsOK
    <2> QED BY <2>1, <2>2 DEF DataOK
  <1>2. CASE Submitted(t)
    <2>1. in_flight' \in [Threads -> BOOLEAN] /\ reap_action' \in [Threads -> BOOLEAN]
      BY <1>0, <1>2, BooleanUpdate, Zenon DEF Submitted, KernelOK
    <2> QED BY <1>0, <1>2, <2>1 DEF Submitted, CallsOK, KernelOK, TimesOK, ResultsOK, BoundsOK, DataOK
  <1>3. CASE KernelCompletes(t) \/ Expire(t)
    BY <1>0, <1>3 DEF KernelCompletes, Expire, CallsOK, KernelOK, TimesOK, ResultsOK, BoundsOK, DataOK
  <1>4. CASE Return(t)
    <2>1. completed' \in [Threads -> BOOLEAN] /\ handled' \in [Threads -> BOOLEAN]
      BY <1>0, <1>4, BooleanUpdate, Zenon DEF Return, ResultsOK, TimesOK
    <2>2. timed_out' \in [Threads -> BOOLEAN]
      BY <1>0, <1>4, BooleanUpdate, Zenon DEF Return, TimesOK
    <2> QED BY <1>0, <1>4, <2>1, <2>2 DEF Return, CallsOK, KernelOK, TimesOK, ResultsOK, BoundsOK, DataOK
  <1>5. CASE HandleTimeout(t)
    <2> PICK x \in Overdue : HandleTimeout(t)!2!(x)
      BY <1>5 DEF HandleTimeout
    <2>1. handled' \in [Threads -> BOOLEAN]
      BY <1>0, BooleanUpdate, Zenon DEF TimesOK
    <2>2. reap_action' \in [Threads -> BOOLEAN]
      BY <1>0, BooleanUpdate, Zenon DEF KernelOK
    <2>3. x \in Threads
      BY <1>0 DEF Overdue, ResultsOK
    <2> QED BY <1>0, <1>5, <2>1, <2>2, <2>3
              DEF HandleTimeout, CallsOK, KernelOK, TimesOK, ResultsOK, BoundsOK, DataOK
  <1>6. CASE MarkTimedOut(t)
    <2>1. timed_out' \in [Threads -> BOOLEAN]
      BY <1>0, <1>6, BooleanUpdate, Zenon DEF MarkTimedOut, TimesOK
    <2> QED BY <1>0, <1>6, <2>1
              DEF MarkTimedOut, CallsOK, KernelOK, TimesOK, ResultsOK, BoundsOK, DataOK
  <1>7. CASE Reap(t)
    BY <1>0, <1>7 DEF Reap, Reapable, CallsOK, KernelOK, TimesOK, ResultsOK, BoundsOK, DataOK
  <1>8. CASE Retire(t)
    BY <1>0, <1>8 DEF Retire, CallsOK, KernelOK, TimesOK, ResultsOK, BoundsOK, DataOK
  <1>9. CASE Complete(t)
    <2>1. completed' \in [Threads -> BOOLEAN] /\ in_flight' \in [Threads -> BOOLEAN]
      BY <1>0, <1>9, BooleanUpdate, Zenon DEF Complete, ResultsOK, KernelOK
    <2> QED BY <1>0, <1>9, <2>1 DEF Complete, CallsOK, KernelOK, TimesOK, ResultsOK, BoundsOK, DataOK
  <1> QED BY <1>1, <1>2, <1>3, <1>4, <1>5, <1>6, <1>7, <1>8, <1>9, Zenon DEF Works

LEMMA DataStep == ASSUME TypeInv, [Next]_vars PROVE DataOK'
  <1> USE DEF DataOK, CallsOK, KernelOK, TimesOK, ResultsOK, BoundsOK
  <1>0. DataOK
    BY DEF TypeInv
  <1>1. ASSUME NEW t \in Threads, Passes(t) PROVE DataOK'
    BY <1>0, <1>1, PassesFrame
  <1>2. ASSUME NEW t \in Threads, Works(t) PROVE DataOK'
    BY <1>2, WorksData
  <1>3. ASSUME NEW t \in All, Leaves(t) PROVE DataOK'
    BY <1>0, <1>3, LeavesFrame
  <1>4. CASE CloseBegins \/ CloseLocks \/ CloseEnds
    <2>1. closes' \in 0 .. MaxCloses
      BY <1>0, <1>4, ConstantsAssumption DEF CloseBegins, CloseLocks, CloseEnds
    <2> QED BY <1>0, <1>4, <2>1, CloseFrame
  <1>5. CASE UNCHANGED vars
    BY <1>0, <1>5 DEF vars
  <1> QED BY <1>1, <1>2, <1>3, <1>4, <1>5, NextCases

(***************************************************************************)
(* The events lock.  A step of t that leaves the other threads where they  *)
(* are keeps EventsOK if it keeps it for t.                                *)
(***************************************************************************)
Sweeping == {"timeouts", "sweep", "mark"}

LEMMA OwnerKept ==
    ASSUME TypeInv, NEW t \in All,
           \A u \in All \ {t} : pc'[u] = pc[u],
           \A u \in Threads \ {t} : ret'[u] = ret[u],
           eventsOwner' = t <=> Handling(t)',
           eventsOwner' # eventsOwner => {eventsOwner, eventsOwner'} \subseteq {t, NoOne},
           t \in Threads /\ pc'[t] \notin Sweeping => ret'[t] = "loop"
    PROVE  /\ \A u \in All : eventsOwner' = u <=> Handling(u)'
           /\ eventsOwner' \in All \cup {NoOne}
           /\ \A u \in Threads : pc'[u] \notin Sweeping => ret'[u] = "loop"
  <1>1. ASSUME NEW u \in All \ {t} PROVE eventsOwner' = u <=> Handling(u)'
    <2>1. Handling(u)' <=> Handling(u)
      BY ConstantsAssumption DEF Handling, All, TypeInv, PlacesOK, CloserPlaces
    <2>2. eventsOwner' = u <=> eventsOwner = u
      BY ConstantsAssumption DEF All
    <2> QED BY <2>1, <2>2 DEF TypeInv, EventsOK
  <1>2. eventsOwner' \in All \cup {NoOne}
    BY DEF TypeInv, EventsOK
  <1>3. ASSUME NEW u \in Threads, pc'[u] \notin Sweeping PROVE ret'[u] = "loop"
    BY <1>3 DEF TypeInv, EventsOK, All, Sweeping
  <1> QED BY <1>1, <1>2, <1>3

LEMMA ThreadEvents ==
    ASSUME TypeInv, NEW t \in Threads, Passes(t) \/ Works(t)
    PROVE  EventsOK'
  <1>0. PlacesOK /\ EventsOK /\ CallsOK
    BY DEF TypeInv, DataOK
  <1>1. t # Closer /\ t \in All /\ t # NoOne
    BY ConstantsAssumption DEF All
  <1>2. /\ eventsOwner = t <=> Handling(t)
        /\ pc[t] \notin Sweeping => ret[t] = "loop"
        /\ ret[t] \in {"loop", "reap", "unlock"}
        /\ event_handler_active \in BOOLEAN
    BY <1>0, <1>1 DEF EventsOK, CallsOK, Sweeping
  <1>3. /\ \A u \in All \ {t} : pc'[u] = pc[u]
        /\ \A u \in Threads \ {t} : ret'[u] = ret[u]
        /\ device_close' = device_close
    <2>1. CASE Passes(t)
      BY <1>0, <2>1, PassesFrame DEF Passes, Move, Goto, Loop, LockWaiters, LockFlying, Try, TryLock,
            Activate, Wait, UnlockFlying, PollReturns, WaitTimesOut, PollTimesOut, PlacesOK, CallsOK
    <2>2. CASE Works(t)
      BY <1>0, <2>2 DEF Works, Move, Goto, Submit, Submitted, KernelCompletes, Expire, Return,
            HandleTimeout, MarkTimedOut, Reap, Retire, Complete, PlacesOK, CallsOK
    <2> QED BY <2>1, <2>2
  <1>4. pc'[Closer] = pc[Closer]
    BY <1>1, <1>3 DEF All
  <1>5. event_handler_active' \in BOOLEAN
    BY <1>2, Zenon DEF Passes, Loop, LockWaiters, LockFlying, Try, TryLock,
            Activate, Wait, UnlockFlying, PollReturns, WaitTimesOut, PollTimesOut, Works, Submit,
            Submitted, KernelCompletes, Expire, Return, HandleTimeout, MarkTimedOut, Reap, Retire, Complete
  <1>6. /\ eventsOwner' = t <=> Handling(t)'
        /\ eventsOwner' # eventsOwner => {eventsOwner, eventsOwner'} \subseteq {t, NoOne}
        /\ pc'[t] \notin Sweeping => ret'[t] = "loop"
    <2> USE <1>0, <1>1, <1>2 DEF Handling, Sweeping, PlacesOK, CallsOK, Move, Goto
    <2>1. CASE Loop(t) \/ LockWaiters(t) \/ LockFlying(t) \/ Try(t) \/ Wait(t) \/ WaitTimesOut(t)
      BY <2>1 DEF Loop, LockWaiters, LockFlying, Try, Wait, WaitTimesOut
    <2>2. CASE TryLock(t) \/ Activate(t)
      BY <2>2 DEF TryLock, Activate
    <2>3. CASE UnlockFlying(t) \/ PollReturns(t) \/ PollTimesOut(t)
      BY <2>3 DEF UnlockFlying, PollReturns, PollTimesOut
    <2>4. CASE Submit(t) \/ Submitted(t) \/ KernelCompletes(t) \/ Expire(t) \/ Return(t)
      BY <2>4 DEF Submit, Submitted, KernelCompletes, Expire, Return
    <2>5. CASE HandleTimeout(t) \/ MarkTimedOut(t)
      BY <2>5 DEF HandleTimeout, MarkTimedOut
    <2>6. CASE Reap(t) \/ Retire(t) \/ Complete(t)
      BY <2>6 DEF Reap, Retire, Complete
    <2> QED BY <2>1, <2>2, <2>3, <2>4, <2>5, <2>6, Zenon DEF Passes, Works
  <1>7. /\ \A u \in All : eventsOwner' = u <=> Handling(u)'
        /\ eventsOwner' \in All \cup {NoOne}
        /\ \A u \in Threads : pc'[u] \notin Sweeping => ret'[u] = "loop"
    BY <1>1, <1>3, <1>6, OwnerKept
  <1>8. device_close' = IF pc'[Closer] \in {"lock", "close"} THEN 1 ELSE 0
    BY <1>0, <1>3, <1>4 DEF EventsOK
  <1> QED BY <1>5, <1>7, <1>8, Zenon DEF EventsOK, Sweeping

LEMMA LeavesEvents ==
    ASSUME TypeInv, NEW t \in All, Leaves(t)
    PROVE  EventsOK'
  <1>0. PlacesOK /\ EventsOK
    BY DEF TypeInv
  <1>1. t # NoOne /\ Closer \in All /\ Closer # NoOne /\ Closer \notin Threads
    BY ConstantsAssumption DEF All
  <1>2. /\ eventsOwner = t <=> Handling(t)
        /\ t \in Threads /\ pc[t] \notin Sweeping => ret[t] = "loop"
        /\ event_handler_active \in BOOLEAN
    BY <1>0 DEF EventsOK, Sweeping
  <1>3. CASE Deactivate(t) \/ Release(t)
    <2>1. /\ \A u \in All \ {t} : pc'[u] = pc[u]
          /\ ret' = ret /\ device_close' = device_close
          /\ pc[t] \in {"unlock", "release"} /\ pc'[t] \in {"release", "broadcast"}
      BY <1>0, <1>3 DEF Deactivate, Release, Move, Goto, PlacesOK
    <2>2. event_handler_active' \in BOOLEAN
      BY <1>2, <1>3, Zenon DEF Deactivate, Release
    <2>3. /\ eventsOwner' = t <=> Handling(t)'
          /\ eventsOwner' # eventsOwner => {eventsOwner, eventsOwner'} \subseteq {t, NoOne}
          /\ t \in Threads /\ pc'[t] \notin Sweeping => ret'[t] = "loop"
      BY <1>0, <1>1, <1>2, <1>3 DEF Deactivate, Release, Move, Goto, PlacesOK, Handling, Sweeping
    <2>4. /\ \A u \in All : eventsOwner' = u <=> Handling(u)'
          /\ eventsOwner' \in All \cup {NoOne}
          /\ \A u \in Threads : pc'[u] \notin Sweeping => ret'[u] = "loop"
      BY <2>1, <2>3, OwnerKept
    <2>5. device_close' = IF pc'[Closer] \in {"lock", "close"} THEN 1 ELSE 0
      BY <1>0, <1>1, <2>1 DEF EventsOK
    <2> QED BY <2>2, <2>4, <2>5, Zenon DEF EventsOK, Sweeping
  <1>4. CASE Broadcast(t)
    <2>1. /\ pc' = [u \in All |-> IF u = t /\ t = Closer THEN "idle"
                                 ELSE IF u = t \/ pc[u] = "wait" THEN "loop" ELSE pc[u]]
          /\ pc[t] = "broadcast"
          /\ UNCHANGED <<ret, eventsOwner, event_handler_active, device_close>>
      BY <1>4 DEF Broadcast
    <2>2. ASSUME NEW u \in All PROVE Handling(u)' <=> Handling(u)
      BY <1>0, <1>1, <2>1 DEF Handling, PlacesOK, CloserPlaces
    <2>3. device_close' = IF pc'[Closer] \in {"lock", "close"} THEN 1 ELSE 0
      BY <1>0, <1>1, <2>1 DEF EventsOK, PlacesOK, CloserPlaces
    <2>4. \A u \in Threads : pc'[u] \notin {"timeouts", "sweep", "mark"} => ret'[u] = "loop"
      BY <1>0, <1>1, <2>1 DEF EventsOK, All
    <2>5. event_handler_active' \in BOOLEAN /\ eventsOwner' \in All \cup {NoOne}
      BY <1>2, <1>0, <2>1, Zenon DEF EventsOK
    <2>6. \A u \in All : eventsOwner' = u <=> Handling(u)'
      BY <1>0, <2>1, <2>2 DEF EventsOK
    <2> QED BY <2>3, <2>4, <2>5, <2>6, Zenon DEF EventsOK
  <1> QED BY <1>3, <1>4 DEF Leaves

LEMMA CloseEvents ==
    ASSUME TypeInv, CloseBegins \/ CloseLocks \/ CloseEnds
    PROVE  EventsOK'
  <1>0. PlacesOK /\ EventsOK
    BY DEF TypeInv
  <1>1. Closer \in All /\ Closer # NoOne /\ Closer \notin Threads
    BY ConstantsAssumption DEF All
  <1>2. eventsOwner = Closer <=> Handling(Closer)
    BY <1>0, <1>1 DEF EventsOK
  <1>3. /\ \A u \in All \ {Closer} : pc'[u] = pc[u]
        /\ ret' = ret
    BY <1>0 DEF CloseBegins, CloseLocks, CloseEnds, Move, Goto, PlacesOK
  <1>4. /\ eventsOwner' = Closer <=> Handling(Closer)'
        /\ eventsOwner' # eventsOwner => {eventsOwner, eventsOwner'} \subseteq {Closer, NoOne}
    BY <1>0, <1>1, <1>2 DEF CloseBegins, CloseLocks, CloseEnds, Move, Goto, PlacesOK, Handling
  <1>5. /\ \A u \in All : eventsOwner' = u <=> Handling(u)'
        /\ eventsOwner' \in All \cup {NoOne}
        /\ \A u \in Threads : pc'[u] \notin Sweeping => ret'[u] = "loop"
    BY <1>1, <1>3, <1>4, OwnerKept
  <1>6. device_close' = IF pc'[Closer] \in {"lock", "close"} THEN 1 ELSE 0
    BY <1>0, <1>1 DEF CloseBegins, CloseLocks, CloseEnds, Move, Goto, PlacesOK, EventsOK
  <1>7. event_handler_active' \in BOOLEAN
    BY <1>0, Zenon DEF CloseBegins, CloseLocks, CloseEnds, EventsOK
  <1> QED BY <1>5, <1>6, <1>7, Zenon DEF EventsOK, Sweeping

LEMMA TypeStep == ASSUME TypeInv, [Next]_vars PROVE TypeInv'
  <1>1. EventsOK'
    <2>1. CASE UNCHANGED vars
      BY <2>1 DEF TypeInv, EventsOK, Handling, vars
    <2> QED BY <2>1, NextCases, ThreadEvents, LeavesEvents, CloseEvents
  <1> QED BY <1>1, PlacesStep, DataStep DEF TypeInv

\* Every variable has its type, device_close counts the devices that are being closed, and
\* the events lock of io.c is held by exactly the thread that handles events, whatever the
\* number of threads.
THEOREM TypeCorrect == Spec => []TypeOK
  <1>1. Init => TypeInv
    BY InitTypeInv
  <1>2. TypeInv /\ [Next]_vars => TypeInv'
    BY TypeStep
  <1>3. TypeInv => TypeOK
    BY TypeInvTypeOK
  <1> QED BY <1>1, <1>2, <1>3, PTL DEF Spec

-----------------------------------------------------------------------------
(***************************************************************************)
(* Who waits.  The event handler's flag is up only while its lock is held; *)
(* a thread begins to wait only after it saw the flag, or somebody who     *)
(* closes a device.                                                        *)
(***************************************************************************)
ActiveInv == event_handler_active => eventsOwner # NoOne /\ pc[eventsOwner] # "release"

WaitInv == TypeInv /\ ActiveInv /\ NoneWaitsInVain

Waiting == {"towait", "wait"}

LEMMA InitWaitInv == Init => WaitInv
  <1> SUFFICES ASSUME Init PROVE WaitInv
    OBVIOUS
  <1>1. ActiveInv
    BY Zenon DEF Init, ActiveInv
  <1>2. NoneWaitsInVain
    BY DEF Init, NoneWaitsInVain, All
  <1> QED BY <1>1, <1>2, InitTypeInv DEF WaitInv

\* The events lock is held by somebody who is in one of the places of its owner.
LEMMA OwnerHandles ==
    ASSUME TypeInv, eventsOwner # NoOne
    PROVE  eventsOwner \in All /\ Handling(eventsOwner)
  BY DEF TypeInv, EventsOK

LEMMA ActiveStep == ASSUME TypeInv, ActiveInv, [Next]_vars PROVE ActiveInv'
  <1>0. PlacesOK /\ EventsOK /\ TypeInv'
    BY TypeStep DEF TypeInv
  <1>1. NoOne \notin All
    BY ConstantsAssumption DEF All
  <1>2. ASSUME NEW t \in Threads, Passes(t) \/ Works(t) PROVE ActiveInv'
    <2>0. t \in All /\ t # Closer
      BY ConstantsAssumption DEF All
    <2>1. CASE TryLock(t) \/ Activate(t)
      <3>1. pc[t] = "activate" => eventsOwner = t
        BY <1>0, <2>0 DEF EventsOK, Handling
      <3>2. pc'[t] # "release" /\ \A u \in All : pc'[u] = "release" => pc[u] = "release"
        BY <1>0, <2>0, <2>1 DEF TryLock, Activate, Move, Goto, PlacesOK
      <3>3. CASE TryLock(t)
        <4>1. event_handler_active' = event_handler_active
          BY <3>3 DEF TryLock
        <4>2. eventsOwner # NoOne => eventsOwner' = eventsOwner
          BY <3>3 DEF TryLock
        <4> QED BY <1>0, <3>2, <4>1, <4>2 DEF ActiveInv, EventsOK
      <3>4. CASE Activate(t)
        <4>1. eventsOwner' = t
          BY <3>1, <3>4 DEF Activate, Move
        <4> QED BY <1>1, <2>0, <3>2, <4>1 DEF ActiveInv
      <3> QED BY <2>1, <3>3, <3>4
    <2>2. CASE ~(TryLock(t) \/ Activate(t))
      <3>1. UNCHANGED <<eventsOwner, event_handler_active>>
        BY <1>2, <2>2 DEF Passes, Loop, LockWaiters, LockFlying, Try, Wait, UnlockFlying, PollReturns,
              WaitTimesOut, PollTimesOut, Works, Submit, Submitted, KernelCompletes, Expire, Return,
              HandleTimeout, MarkTimedOut, Reap, Retire, Complete
      <3>2. \A u \in All : pc'[u] = "release" => pc[u] = "release"
        BY <1>0, <1>2, <2>0, <2>2 DEF Passes, Move, Goto, Loop, LockWaiters, LockFlying, Try, Wait,
              UnlockFlying, PollReturns, WaitTimesOut, PollTimesOut, Works, Submit, Submitted,
              KernelCompletes, Expire, Return, HandleTimeout, MarkTimedOut, Reap, Retire, Complete,
              PlacesOK, TypeInv, DataOK, CallsOK
      <3> QED BY <3>1, <3>2, <1>0 DEF ActiveInv, EventsOK
    <2> QED BY <2>1, <2>2
  <1>3. ASSUME NEW t \in All, Leaves(t) PROVE ActiveInv'
    <2>1. CASE Deactivate(t)
      BY <2>1 DEF Deactivate, ActiveInv
    <2>2. CASE Release(t)
      <3>1. eventsOwner = t
        BY <1>0, <2>2 DEF Release, Move, EventsOK, Handling
      <3> QED BY <2>2, <3>1 DEF Release, Move, ActiveInv
    <2>3. CASE Broadcast(t)
      BY <1>0, <2>3 DEF Broadcast, ActiveInv, EventsOK
    <2> QED BY <1>3, <2>1, <2>2, <2>3 DEF Leaves
  <1>4. CASE CloseBegins \/ CloseLocks \/ CloseEnds
    <2>1. Closer \in All /\ Closer # NoOne
      BY ConstantsAssumption DEF All
    <2>2. /\ \A u \in All : pc'[u] = "release" => pc[u] = "release"
          /\ pc'[Closer] # "release"
      BY <1>0, <1>4, <2>1 DEF CloseBegins, CloseLocks, CloseEnds, Move, Goto, PlacesOK
    <2>3. CASE CloseLocks
      BY <2>1, <2>2, <2>3 DEF CloseLocks, ActiveInv
    <2>4. CASE CloseBegins \/ CloseEnds
      <3>1. UNCHANGED <<eventsOwner, event_handler_active>>
        BY <2>4 DEF CloseBegins, CloseEnds
      <3> QED BY <1>0, <2>2, <3>1 DEF ActiveInv, EventsOK
    <2> QED BY <1>4, <2>3, <2>4
  <1>5. CASE UNCHANGED vars
    BY <1>5 DEF vars, ActiveInv
  <1> QED BY <1>2, <1>3, <1>4, <1>5, NextCases

\* Somebody will wake the waiters.
Waker ==
    \/ eventsOwner # NoOne
    \/ pc[Closer] = "lock"
    \/ \E t \in All : pc[t] = "broadcast"

LEMMA WaiterStep == ASSUME WaitInv, [Next]_vars PROVE NoneWaitsInVain'
  <1> SUFFICES ASSUME NEW w \in Threads, pc'[w] \in Waiting PROVE Waker'
    BY DEF NoneWaitsInVain, Waker, Waiting
  <1>0. PlacesOK /\ EventsOK /\ CallsOK /\ ActiveInv
    BY DEF WaitInv, TypeInv, DataOK
  <1>1. NoOne \notin All /\ Closer \in All /\ Closer \notin Threads /\ w \in All
    BY ConstantsAssumption DEF All
  <1>2. pc[w] \in Waiting => Waker
    BY DEF WaitInv, NoneWaitsInVain, Waker, Waiting
  <1>3. ASSUME NEW t \in Threads, Passes(t) \/ Works(t) PROVE Waker'
    <2>0. t \in All /\ t # Closer
      BY <1>1 DEF All
    <2>1. CASE LockWaiters(t) /\ t = w
      <3>1. pc'[t] = "towait" => SomebodyHandles
        BY <1>0, <2>1 DEF LockWaiters, Move, Goto, PlacesOK, Waiting
      <3>2. SomebodyHandles => eventsOwner # NoOne \/ pc[Closer] = "lock"
        <4>1. pc[Closer] = "close" => eventsOwner = Closer
          BY <1>0, <1>1 DEF EventsOK, Handling
        <4> QED BY <1>0, <1>1, <4>1 DEF SomebodyHandles, EventsOK, ActiveInv
      <3>3. UNCHANGED eventsOwner /\ pc'[Closer] = pc[Closer]
        BY <1>0, <1>1, <2>0, <2>1 DEF LockWaiters, Move, Goto, PlacesOK
      <3>4. pc'[t] = "towait"
        BY <1>0, <2>1 DEF LockWaiters, Move, Goto, PlacesOK, Waiting
      <3> QED BY <3>1, <3>2, <3>3, <3>4 DEF Waker
    <2>2. CASE ~(LockWaiters(t) /\ t = w)
      <3>1. pc[w] \in Waiting
        BY <1>0, <1>1, <1>3, <2>0, <2>2 DEF Waiting, Passes, Move, Goto, Loop, LockWaiters, LockFlying,
              Try, TryLock, Activate, Wait, UnlockFlying, PollReturns, WaitTimesOut, PollTimesOut, Works,
              Submit, Submitted, KernelCompletes, Expire, Return, HandleTimeout, MarkTimedOut, Reap,
              Retire, Complete, PlacesOK, CallsOK
      <3>2. /\ eventsOwner # NoOne => eventsOwner' # NoOne
            /\ \A u \in All : pc[u] \in {"lock", "broadcast"} => pc'[u] = pc[u]
        <4>1. eventsOwner' = eventsOwner \/ (eventsOwner = NoOne /\ eventsOwner' = t)
          BY <1>3 DEF Passes, Loop, LockWaiters, LockFlying, Try, TryLock, Activate, Wait, UnlockFlying,
              PollReturns, WaitTimesOut, PollTimesOut, Works, Submit, Submitted, KernelCompletes, Expire,
              Return, HandleTimeout, MarkTimedOut, Reap, Retire, Complete
        <4>2. pc' = pc \/ (pc[t] \notin {"lock", "broadcast"} /\ \A u \in All \ {t} : pc'[u] = pc[u])
          BY <1>0, <1>3, <2>0 DEF Passes, Move, Goto, Loop, LockWaiters, LockFlying, Try, TryLock,
              Activate, Wait, UnlockFlying, PollReturns, WaitTimesOut, PollTimesOut, Works, Submit,
              Submitted, KernelCompletes, Expire, Return, HandleTimeout, MarkTimedOut, Reap, Retire,
              Complete, PlacesOK
        <4> QED BY <1>1, <4>1, <4>2
      <3> QED BY <1>1, <1>2, <3>1, <3>2 DEF Waker
    <2> QED BY <2>1, <2>2
  <1>4. ASSUME NEW t \in All, Leaves(t) PROVE Waker'
    <2>1. CASE Broadcast(t)
      <3>1. pc[w] # "towait" /\ pc'[w] \in {"idle", "loop", pc[w]} /\ pc'[w] # "wait"
        BY <1>1, <2>1, Zenon DEF Broadcast, MayBroadcast, WaitersFree
      <3> QED BY <3>1 DEF Waiting
    <2>2. CASE Release(t)
      <3>1. pc'[t] = "broadcast"
        BY <1>0, <2>2 DEF Release, Move, Goto, PlacesOK
      <3> QED BY <3>1 DEF Waker
    <2>3. CASE Deactivate(t)
      <3>1. eventsOwner = t /\ UNCHANGED eventsOwner
        BY <1>0, <2>3 DEF Deactivate, Move, EventsOK, Handling
      <3> QED BY <1>1, <3>1 DEF Waker
    <2> QED BY <1>4, <2>1, <2>2, <2>3 DEF Leaves
  <1>5. CASE CloseBegins
    BY <1>0, <1>1, <1>5 DEF CloseBegins, Move, Goto, PlacesOK, Waker
  <1>6. CASE CloseLocks
    BY <1>1, <1>6 DEF CloseLocks, Waker
  <1>7. CASE CloseEnds
    <2>1. eventsOwner = Closer /\ UNCHANGED eventsOwner
      BY <1>0, <1>1, <1>7 DEF CloseEnds, Move, EventsOK, Handling
    <2> QED BY <1>1, <2>1 DEF Waker
  <1>8. CASE UNCHANGED vars
    BY <1>2, <1>8 DEF vars, Waker
  <1> QED BY <1>3, <1>4, <1>5, <1>6, <1>7, <1>8, NextCases

\* No thread of io.c waits for an event handler that has gone: while one waits, or is about
\* to, somebody holds the events lock, is about to take it to close a device, or has still
\* to wake the waiters.
THEOREM WaitersAreWoken == Spec => []NoneWaitsInVain
  <1>1. Init => WaitInv
    BY InitWaitInv
  <1>2. WaitInv /\ [Next]_vars => WaitInv'
    BY TypeStep, ActiveStep, WaiterStep DEF WaitInv
  <1>3. WaitInv => NoneWaitsInVain
    BY DEF WaitInv
  <1> QED BY <1>1, <1>2, <1>3, PTL DEF Spec

-----------------------------------------------------------------------------
(***************************************************************************)
(* The transfers.  A transfer flies from its submission to its callback,   *)
(* and the kernel has no request of it before and after.                   *)
(***************************************************************************)
Returned(x) == pc[x] \in {"idle", "submit"}

Life ==
    \A x \in Threads :
      /\ Returned(x) => urb[x] = "none" /\ ~completed[x] /\ (x \in flying <=> pc[x] = "submit")
      /\ ~Returned(x) => (x \in flying <=> ~completed[x]) /\ (completed[x] => urb[x] = "none")

\* Who works on a transfer finds it before its callback, and the event handler has reaped it.
Work ==
    \A t \in Threads :
      IF pc[t] \in {"mark", "retire", "complete"}
        THEN /\ cur[t] \in Threads /\ ~completed[cur[t]] /\ ~Returned(cur[t])
             /\ pc[t] # "mark" => urb[cur[t]] = "none"
        ELSE cur[t] = NoOne

\* What a transfer reports, from the moment when its request is retired.
Reports(x) == status[x] = "COMPLETED" \/ (status[x] = "TIMED_OUT" /\ timeout[x] = "expired")

Reported ==
    /\ \A x \in Threads : completed[x] => Reports(x)
    /\ \A t \in Threads : pc[t] = "complete" => Reports(cur[t])

\* A cancelled transfer is marked as timed out, or whoever cancelled it is about to do so
\* and holds flying_transfers_lock.
Marked ==
    \A x \in Threads : ~Returned(x) /\ reap_action[x] =>
        /\ timeout[x] = "expired"
        /\ timed_out[x] \/ \E t \in Threads : pc[t] = "mark" /\ cur[t] = x

XferInv == Life /\ Work /\ Reported /\ Marked

LEMMA InitXferInv == Init => XferInv
  <1> SUFFICES ASSUME Init PROVE XferInv
    OBVIOUS
  <1>1. \A t \in Threads : pc[t] = "idle" /\ cur[t] = NoOne /\ urb[t] = "none" /\ t \notin flying
    BY DEF Init, All
  <1>2. \A t \in Threads : completed[t] = FALSE
    BY Zenon DEF Init
  <1> QED BY <1>1, <1>2 DEF XferInv, Life, Work, Reported, Marked, Returned

\* Only one thread reaps.
LEMMA OneReaper ==
    ASSUME TypeInv, NEW t \in Threads, NEW u \in Threads,
           {pc[t], pc[u]} \subseteq {"reap", "retire", "complete"}
    PROVE  t = u
  BY DEF TypeInv, EventsOK, Handling, All

\* The steps of a thread that works on no transfer keep every transfer, and keep the
\* threads that do.
WorkPlaces == {"idle", "submit", "mark", "retire", "complete"}

Kept ==
    /\ UNCHANGED <<urb, reap_action, timeVars, resultVars, flying, cur>>
    /\ \A x \in Threads : pc'[x] = pc[x] \/ {pc[x], pc'[x]} \cap WorkPlaces = {}

LEMMA OthersKeep ==
    ASSUME TypeInv, [Next]_vars
    PROVE  Kept \/ \E t \in Threads : Works(t)
  <1>0. PlacesOK /\ CallsOK
    BY DEF TypeInv, DataOK
  <1>1. Closer \notin Threads
    BY ConstantsAssumption
  <1>2. ASSUME NEW t \in Threads, Passes(t) PROVE Kept
    <2>1. \A x \in Threads : pc'[x] = pc[x] \/ {pc[x], pc'[x]} \cap WorkPlaces = {}
      BY <1>0, <1>2 DEF Passes, Move, Goto, Loop, LockWaiters, LockFlying, Try, TryLock, Activate, Wait,
            UnlockFlying, PollReturns, WaitTimesOut, PollTimesOut, PlacesOK, CallsOK, WorkPlaces, All
    <2> QED BY <1>2, <2>1, PassesFrame DEF Kept
  <1>3. ASSUME NEW t \in All, Leaves(t) PROVE Kept
    <2>1. \A x \in Threads : pc'[x] = pc[x] \/ {pc[x], pc'[x]} \cap WorkPlaces = {}
      <3>1. CASE Deactivate(t) \/ Release(t)
        BY <1>0, <3>1 DEF Deactivate, Release, Move, Goto, PlacesOK, WorkPlaces, All
      <3>2. CASE Broadcast(t)
        BY <1>0, <1>1, <3>2 DEF Broadcast, WorkPlaces, All
      <3> QED BY <1>3, <3>1, <3>2 DEF Leaves
    <2> QED BY <1>3, <2>1, LeavesFrame DEF Kept
  <1>4. CASE CloseBegins \/ CloseLocks \/ CloseEnds
    <2>1. \A x \in Threads : pc'[x] = pc[x]
      BY <1>0, <1>1, <1>4 DEF CloseBegins, CloseLocks, CloseEnds, Move, Goto, PlacesOK, All
    <2> QED BY <1>4, <2>1, CloseFrame DEF Kept
  <1>5. CASE UNCHANGED vars
    BY <1>5 DEF vars, Kept
  <1> QED BY <1>2, <1>3, <1>4, <1>5, NextCases

LEMMA KeptStep == ASSUME XferInv, Kept PROVE XferInv'
  <1>1. \A x \in Threads : /\ Returned(x)' <=> Returned(x)
                           /\ \A p \in WorkPlaces : pc'[x] = p <=> pc[x] = p
    BY DEF Kept, WorkPlaces, Returned
  <1> USE <1>1 DEF Kept, WorkPlaces, XferInv
  <1>2. Life'
    BY DEF Life
  <1>3. Work'
    BY DEF Work
  <1>4. Reported'
    BY DEF Reported, Reports, Work
  <1>5. Marked'
    BY DEF Marked
  <1> QED BY <1>2, <1>3, <1>4, <1>5

-----------------------------------------------------------------------------
(***************************************************************************)
(* The steps that work on a transfer, one lemma for each.                  *)
(***************************************************************************)
Inv == TypeInv /\ XferInv

LEMMA InvParts ==
    ASSUME Inv
    PROVE  /\ pc \in [All -> ThreadPlaces \cup CloserPlaces] /\ Threads \subseteq All
           /\ CallsOK /\ KernelOK /\ TimesOK /\ ResultsOK /\ NoOne \notin Threads
           /\ Life /\ Work /\ Reported /\ Marked
  BY ConstantsAssumption DEF Inv, TypeInv, PlacesOK, DataOK, XferInv, All

LEMMA OwnSteps ==
    ASSUME Inv, NEW t \in Threads, Submit(t) \/ Submitted(t) \/ Return(t)
    PROVE  XferInv'
  <1> USE InvParts
  <1>1. /\ \A x \in Threads \ {t} : pc'[x] = pc[x]
        /\ pc[t] \notin {"mark", "retire", "complete"} /\ pc'[t] \notin {"mark", "retire", "complete"}
        /\ cur' = cur
    BY DEF Submit, Submitted, Return, Move, Goto
  <1>2. /\ \A x \in Threads \ {t} : Returned(x)' <=> Returned(x)
        /\ \A u \in Threads : /\ pc'[u] \in {"mark", "retire", "complete"} => u # t
                              /\ \A p \in {"mark", "retire", "complete"} : pc'[u] = p <=> pc[u] = p
    BY <1>1 DEF Returned
  <1>6. \A u \in Threads : pc[u] \in {"mark", "retire", "complete"} =>
            cur[u] \in Threads /\ ~completed[cur[u]] /\ ~Returned(cur[u])
    BY DEF Work
  <1>3. CASE Submit(t)
    <2>1. /\ pc[t] = "idle" /\ pc'[t] = "submit" /\ flying' = flying \cup {t}
          /\ UNCHANGED <<urb, reap_action, timed_out, completed, status>>
          /\ \A x \in Threads \ {t} : timeout'[x] = timeout[x]
      BY <1>3 DEF Submit, Move, Goto
    <2>2. Returned(t) /\ Returned(t)'
      BY <2>1 DEF Returned
    <2>3. \A u \in Threads : pc[u] \in {"mark", "retire", "complete"} => cur[u] # t
      BY <1>6, <2>1, <2>2
    <2>4. Life'
      <3>1. ASSUME NEW x \in Threads \ {t}
            PROVE  /\ pc'[x] = pc[x] /\ urb'[x] = urb[x] /\ completed'[x] = completed[x]
                   /\ x \in flying' <=> x \in flying
        BY <1>1, <2>1
      <3>2. /\ Returned(t)' => urb'[t] = "none" /\ ~completed'[t] /\ (t \in flying' <=> pc'[t] = "submit")
            /\ ~Returned(t)' => (t \in flying' <=> ~completed'[t]) /\ (completed'[t] => urb'[t] = "none")
        BY <2>1, <2>2 DEF Life
      <3> QED BY <1>2, <3>1, <3>2 DEF Life
    <2>5. Work'
      BY <1>1, <1>2, <1>6, <2>1, <2>2, <2>3 DEF Work
    <2>6. Reported'
      BY <1>1, <1>2, <1>6, <2>1, <2>2, <2>3 DEF Reported, Reports, Life
    <2>7. Marked'
      BY <1>1, <1>2, <1>6, <2>1, <2>2, <2>3 DEF Marked
    <2> QED BY <2>4, <2>5, <2>6, <2>7 DEF XferInv
  <1>4. CASE Submitted(t)
    <2>1. /\ pc[t] = "submit" /\ pc'[t] = "loop" /\ urb'[t] = "queued" /\ ~reap_action'[t]
          /\ \A x \in Threads \ {t} : urb'[x] = urb[x] /\ reap_action'[x] = reap_action[x]
          /\ UNCHANGED <<timeout, timed_out, completed, status, flying>>
      BY <1>4 DEF Submitted, Move, Goto, KernelOK
    <2>2. Returned(t) /\ ~Returned(t)'
      BY <2>1 DEF Returned
    <2>3. \A u \in Threads : pc[u] \in {"mark", "retire", "complete"} => cur[u] # t
      BY <1>6, <2>1, <2>2
    <2>4. Life'
      <3>1. ASSUME NEW x \in Threads \ {t}
            PROVE  /\ pc'[x] = pc[x] /\ urb'[x] = urb[x] /\ completed'[x] = completed[x]
                   /\ x \in flying' <=> x \in flying
        BY <1>1, <2>1
      <3>2. /\ Returned(t)' => urb'[t] = "none" /\ ~completed'[t] /\ (t \in flying' <=> pc'[t] = "submit")
            /\ ~Returned(t)' => (t \in flying' <=> ~completed'[t]) /\ (completed'[t] => urb'[t] = "none")
        <4>1. ~completed[t] /\ t \in flying
          BY <2>1, <2>2, Zenon DEF Life
        <4>2. completed'[t] = completed[t] /\ flying' = flying
          BY <2>1
        <4> QED BY <2>2, <4>1, <4>2, Zenon
      <3> QED BY <1>2, <3>1, <3>2 DEF Life
    <2>5. Work'
      BY <1>1, <1>2, <1>6, <2>1, <2>2, <2>3 DEF Work
    <2>6. Reported'
      BY <1>1, <1>2, <2>1 DEF Reported, Reports
    <2>7. Marked'
      BY <1>1, <1>2, <1>6, <2>1, <2>2, <2>3 DEF Marked
    <2> QED BY <2>4, <2>5, <2>6, <2>7 DEF XferInv
  <1>5. CASE Return(t)
    <2>1. /\ pc[t] = "loop" /\ pc'[t] = "idle" /\ completed[t] /\ ~completed'[t]
          /\ \A x \in Threads \ {t} : /\ completed'[x] = completed[x] /\ status'[x] = status[x]
                                      /\ timeout'[x] = timeout[x] /\ timed_out'[x] = timed_out[x]
          /\ UNCHANGED <<urb, reap_action, flying>>
      BY <1>5 DEF Return, Move, Goto, ResultsOK, TimesOK
    <2>2. ~Returned(t) /\ Returned(t)'
      BY <2>1 DEF Returned
    <2>3. \A u \in Threads : pc[u] \in {"mark", "retire", "complete"} => cur[u] # t
      BY <1>6, <2>1, <2>2
    <2>4. Life'
      <3>1. ASSUME NEW x \in Threads \ {t}
            PROVE  /\ pc'[x] = pc[x] /\ urb'[x] = urb[x] /\ completed'[x] = completed[x]
                   /\ x \in flying' <=> x \in flying
        BY <1>1, <2>1
      <3>2. /\ Returned(t)' => urb'[t] = "none" /\ ~completed'[t] /\ (t \in flying' <=> pc'[t] = "submit")
            /\ ~Returned(t)' => (t \in flying' <=> ~completed'[t]) /\ (completed'[t] => urb'[t] = "none")
        <4>1. completed[t] /\ t \notin flying /\ urb[t] = "none"
          BY <2>1, <2>2, Zenon DEF Life
        <4>2. t \notin flying' /\ urb'[t] = "none" /\ pc'[t] # "submit"
          BY <2>1, <4>1
        <4> QED BY <2>1, <2>2, <4>2, Zenon
      <3> QED BY <1>2, <3>1, <3>2 DEF Life
    <2>5. Work'
      BY <1>1, <1>2, <1>6, <2>1, <2>2, <2>3 DEF Work
    <2>6. Reported'
      BY <1>1, <1>2, <1>6, <2>1, <2>2, <2>3 DEF Reported, Reports, Life
    <2>7. Marked'
      BY <1>1, <1>2, <1>6, <2>1, <2>2, <2>3 DEF Marked
    <2> QED BY <2>4, <2>5, <2>6, <2>7 DEF XferInv
  <1> QED BY <1>3, <1>4, <1>5

\* The steps of the kernel and of the clock move no thread.
LEMMA KernelSteps ==
    ASSUME Inv, NEW x \in Threads, KernelCompletes(x) \/ Expire(x)
    PROVE  XferInv'
  <1> USE InvParts
  <1>0. UNCHANGED <<pc, cur, reap_action, timed_out, completed, status, flying>>
    BY DEF KernelCompletes, Expire
  <1>1. \A y \in Threads : Returned(y)' <=> Returned(y)
    BY <1>0 DEF Returned
  <1>2. \A y \in Threads : urb'[y] = "none" <=> urb[y] = "none"
    BY DEF KernelCompletes, Expire, KernelOK
  <1>3. \A y \in Threads : timeout[y] = "expired" => timeout'[y] = "expired"
    BY DEF KernelCompletes, Expire, TimesOK
  <1>4. Life'
    BY <1>0, <1>1, <1>2, Zenon DEF Life
  <1>5. Work'
    <2>1. \A t \in Threads : pc[t] \in {"mark", "retire", "complete"} =>
              cur[t] \in Threads /\ ~completed[cur[t]] /\ ~Returned(cur[t])
      BY DEF Work
    <2>2. \A t \in Threads : pc[t] \in {"retire", "complete"} => urb'[cur[t]] = "none"
      BY <1>2 DEF Work
    <2>3. \A t \in Threads : pc[t] \notin {"mark", "retire", "complete"} => cur[t] = NoOne
      BY DEF Work
    <2> QED BY <1>0, <1>1, <2>1, <2>2, <2>3 DEF Work
  <1>6. Reported'
    <2>1. \A y \in Threads : Reports(y) => Reports(y)'
      BY <1>0, <1>3 DEF Reports
    <2>2. \A t \in Threads : pc[t] = "complete" => cur[t] \in Threads
      BY DEF Work
    <2> QED BY <1>0, <2>1, <2>2 DEF Reported, Reports
  <1>7. Marked'
    BY <1>0, <1>1, <1>3 DEF Marked
  <1> QED BY <1>4, <1>5, <1>6, <1>7 DEF XferInv

\* A transfer that is overdue and whose lock is free has not had its callback.
LEMMA TimeoutSteps ==
    ASSUME Inv, NEW t \in Threads, HandleTimeout(t) \/ MarkTimedOut(t)
    PROVE  XferInv'
  <1> USE InvParts
  <1>1. CASE HandleTimeout(t)
    <2> PICK x \in Overdue : HandleTimeout(t)!2!(x)
      BY <1>1 DEF HandleTimeout
    <2>1. /\ pc[t] = "sweep"
          /\ x \in Threads /\ x \in flying /\ timeout[x] = "expired" /\ pc[x] # "submit"
          /\ UNCHANGED <<timeout, timed_out, completed, status, flying>>
      BY <1>1 DEF HandleTimeout, Overdue, XferFree, ResultsOK
    <2>2. ~Returned(x) /\ ~completed[x]
      BY <2>1 DEF Life, Returned
    <2>3. CASE UNCHANGED <<pc, cur, urb, reap_action>>
      BY <2>1, <2>3 DEF XferInv, Life, Work, Reported, Reports, Marked, Returned
    <2>4. CASE /\ urb[x] = "queued" /\ urb' = [urb EXCEPT ![x] = "discarded"]
               /\ reap_action' = [reap_action EXCEPT ![x] = TRUE]
               /\ cur' = [cur EXCEPT ![t] = x]
               /\ Goto(t, "mark")
      <3>1. /\ pc'[t] = "mark" /\ \A u \in Threads \ {t} : pc'[u] = pc[u]
            /\ cur'[t] = x /\ \A u \in Threads \ {t} : cur'[u] = cur[u]
            /\ urb'[x] = "discarded"
            /\ \A y \in Threads \ {x} : urb'[y] = urb[y] /\ reap_action'[y] = reap_action[y]
        BY <2>1, <2>4 DEF Goto, CallsOK, KernelOK
      <3>2. \A y \in Threads : Returned(y)' <=> Returned(y)
        BY <2>1, <3>1 DEF Returned
      <3>3. Life'
        BY <2>1, <2>2, <3>1, <3>2 DEF Life, Returned
      <3>4. Work'
        BY <2>1, <2>2, <2>4, <3>1, <3>2 DEF Work
      <3>5. Reported'
        BY <2>1, <3>1 DEF Reported, Reports
      <3>6. Marked'
        BY <2>1, <3>1, <3>2 DEF Marked
      <3> QED BY <3>3, <3>4, <3>5, <3>6 DEF XferInv
    <2> QED BY <2>3, <2>4
  <1>2. CASE MarkTimedOut(t)
    <2>1. /\ pc[t] = "mark" /\ pc'[t] = "sweep" /\ \A u \in Threads \ {t} : pc'[u] = pc[u]
          /\ cur'[t] = NoOne /\ \A u \in Threads \ {t} : cur'[u] = cur[u]
          /\ cur[t] \in Threads /\ timed_out'[cur[t]]
          /\ \A y \in Threads \ {cur[t]} : timed_out'[y] = timed_out[y]
          /\ UNCHANGED <<urb, reap_action, timeout, completed, status, flying>>
      BY <1>2 DEF MarkTimedOut, Move, Goto, CallsOK, TimesOK, Work
    <2>2. \A y \in Threads : Returned(y)' <=> Returned(y)
      BY <2>1 DEF Returned
    <2>3. Life'
      BY <2>1, <2>2 DEF Life, Returned
    <2>4. Work'
      BY <2>1, <2>2 DEF Work
    <2>5. Reported'
      BY <2>1 DEF Reported, Reports
    <2>6. Marked'
      BY <2>1, <2>2 DEF Marked
    <2> QED BY <2>3, <2>4, <2>5, <2>6 DEF XferInv
  <1> QED BY <1>1, <1>2

LEMMA ReapStep == ASSUME Inv, NEW t \in Threads, Reap(t) PROVE XferInv'
  <1> USE InvParts
  <1>1. pc[t] = "reap" /\ UNCHANGED <<reap_action, timeout, timed_out, completed, status, flying>>
    BY DEF Reap
  <1>2. CASE Goto(t, "unlock") /\ UNCHANGED <<cur, urb>>
    <2>1. Kept
      BY <1>1, <1>2 DEF Reap, Kept, Goto, WorkPlaces
    <2> QED BY <2>1, KeptStep DEF XferInv
  <1>3. ASSUME NEW x \in Reapable, urb' = [urb EXCEPT ![x] = "none"], cur' = [cur EXCEPT ![t] = x],
               Goto(t, "retire")
        PROVE  XferInv'
    <2>1. /\ x \in Threads /\ urb[x] # "none"
          /\ pc'[t] = "retire" /\ \A u \in Threads \ {t} : pc'[u] = pc[u]
          /\ cur'[t] = x /\ \A u \in Threads \ {t} : cur'[u] = cur[u]
          /\ urb'[x] = "none" /\ \A y \in Threads \ {x} : urb'[y] = urb[y]
      BY <1>3 DEF Reapable, Goto, CallsOK, KernelOK
    <2>2. \A y \in Threads : Returned(y)' <=> Returned(y)
      BY <1>1, <2>1 DEF Returned
    <2>3. ~Returned(x) /\ ~completed[x]
      BY <2>1 DEF Life
    <2>4. Life'
      BY <1>1, <2>1, <2>2, <2>3 DEF Life, Returned
    <2>5. Work'
      BY <1>1, <2>1, <2>2, <2>3 DEF Work
    <2>6. Reported'
      BY <1>1, <2>1 DEF Reported, Reports
    <2>7. Marked'
      BY <1>1, <2>1, <2>2 DEF Marked
    <2> QED BY <2>4, <2>5, <2>6, <2>7 DEF XferInv
  <1> QED BY <1>2, <1>3 DEF Reap

\* A cancelled transfer is retired under flying_transfers_lock: it has been marked.
LEMMA RetireStep == ASSUME Inv, NEW t \in Threads, Retire(t) PROVE XferInv'
  <1> USE InvParts
  <1> DEFINE x == cur[t]
  <1>1. /\ pc[t] = "retire" /\ pc'[t] = "complete" /\ \A u \in Threads \ {t} : pc'[u] = pc[u]
        /\ UNCHANGED <<urb, reap_action, timeout, timed_out, completed, flying, cur>>
    BY DEF Retire, Move, Goto
  <1>2. x \in Threads /\ ~completed[x] /\ ~Returned(x) /\ urb[x] = "none"
    BY <1>1 DEF Work
  <1>3. \A y \in Threads \ {x} : status'[y] = status[y]
    BY <1>2 DEF Retire, ResultsOK
  <1>4. \A y \in Threads : Returned(y)' <=> Returned(y)
    BY <1>1 DEF Returned
  <1>5. Reports(x)'
    <2>1. CASE ~reap_action[x]
      BY <1>2, <2>1 DEF Retire, ResultsOK, Reports
    <2>2. CASE reap_action[x]
      <3>1. \A u \in Threads : pc[u] # "mark"
        BY <2>2 DEF Retire, FlyingFree
      <3>2. timed_out[x] /\ timeout[x] = "expired"
        BY <1>2, <2>2, <3>1 DEF Marked
      <3> QED BY <1>1, <1>2, <2>2, <3>2 DEF Retire, ResultsOK, Reports
    <2> QED BY <2>1, <2>2
  <1>6. Life'
    BY <1>1, <1>4 DEF Life, Returned
  <1>7. Work'
    BY <1>1, <1>2, <1>4 DEF Work
  <1>8. Reported'
    <2>1. \A y \in Threads : completed'[y] => Reports(y)'
      BY <1>1, <1>2, <1>3 DEF Reported, Reports
    <2>2. ASSUME NEW u \in Threads, pc'[u] = "complete" PROVE u = t
      BY <1>1, <2>2, OneReaper DEF Inv
    <2>3. cur'[t] = x
      BY <1>1
    <2> QED BY <1>5, <2>1, <2>2, <2>3 DEF Reported, Reports
  <1>9. Marked'
    BY <1>1, <1>4 DEF Marked
  <1> QED BY <1>6, <1>7, <1>8, <1>9 DEF XferInv

\* Nobody else works on a transfer when its callback runs: its event handler is the only
\* one, and who cancels it holds flying_transfers_lock.
LEMMA CompleteStep == ASSUME Inv, NEW t \in Threads, Complete(t) PROVE XferInv'
  <1> USE InvParts
  <1> DEFINE x == cur[t]
  <1>1. /\ pc[t] = "complete" /\ pc'[t] = "reap" /\ \A u \in Threads \ {t} : pc'[u] = pc[u]
        /\ cur'[t] = NoOne /\ \A u \in Threads \ {t} : cur'[u] = cur[u]
        /\ flying' = flying \ {x}
        /\ UNCHANGED <<urb, reap_action, timeout, timed_out, status>>
    BY DEF Complete, Move, Goto, CallsOK
  <1>2. x \in Threads /\ ~completed[x] /\ ~Returned(x) /\ urb[x] = "none" /\ Reports(x)
    BY <1>1 DEF Work, Reported
  <1>3. completed'[x] /\ \A y \in Threads \ {x} : completed'[y] = completed[y]
    BY <1>2 DEF Complete, ResultsOK
  <1>4. \A y \in Threads : Returned(y)' <=> Returned(y)
    BY <1>1 DEF Returned
  <1>5. \A u \in Threads \ {t} : pc[u] \notin {"mark", "retire", "complete"}
    BY <1>1, OneReaper DEF Complete, FlyingFree, Inv
  <1>6. Life'
    BY <1>1, <1>2, <1>3, <1>4 DEF Life, Returned
  <1>7. Work'
    BY <1>1, <1>5 DEF Work
  <1>8. Reported'
    BY <1>1, <1>2, <1>3, <1>5 DEF Reported, Reports
  <1>9. Marked'
    BY <1>1, <1>4 DEF Marked
  <1> QED BY <1>6, <1>7, <1>8, <1>9 DEF XferInv

LEMMA InvStep == ASSUME Inv, [Next]_vars PROVE Inv'
  <1>1. TypeInv'
    BY TypeStep DEF Inv
  <1>2. XferInv'
    <2>1. CASE Kept
      BY <2>1, KeptStep DEF Inv
    <2>2. ASSUME NEW t \in Threads, Works(t) PROVE XferInv'
      BY <2>2, OwnSteps, KernelSteps, TimeoutSteps, ReapStep, RetireStep, CompleteStep DEF Works
    <2> QED BY <2>1, <2>2, OthersKeep DEF Inv
  <1> QED BY <1>1, <1>2 DEF Inv

LEMMA XferInvHolds == Spec => []Inv
  <1>1. Init => Inv
    BY InitTypeInv, InitXferInv DEF Inv
  <1>2. Inv /\ [Next]_vars => Inv'
    BY InvStep
  <1> QED BY <1>1, <1>2, PTL DEF Spec

\* A transfer that nobody cancels is reported as completed, or, if its timeout has expired,
\* as timed out, whichever thread of io.c found the timeout and whichever one reaps: a
\* transfer cancelled because of its timeout is never retired before it has been marked.
THEOREM TimeoutsAreReported == Spec => []TimeoutReported
  <1>1. Inv => TimeoutReported
    BY DEF Inv, XferInv, Reported, Reports, TimeoutReported
  <1> QED BY <1>1, XferInvHolds, PTL

\* Whoever works on a transfer, the event handler or a thread that cancels it because of
\* its timeout, finds it before its callback and before its owner frees it.
THEOREM TransfersAlive == Spec => []TransferAlive
  <1>1. Inv => TransferAlive
    BY DEF Inv, XferInv, Work, Returned, TransferAlive
  <1> QED BY <1>1, XferInvHolds, PTL
=============================================================================
