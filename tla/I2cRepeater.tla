----------------------------- MODULE I2cRepeater -----------------------------
(***************************************************************************)
(* The way to the tuner (librtlsdr.c): its I2C bus is reached through the  *)
(* demodulator's repeater, which rtlsdr_set_i2c_repeater() opens before a  *)
(* tuner operation and closes after it, under the device's recursive       *)
(* mutex.  A tuner operation may call another one before it ends.  In      *)
(* rtl_tcp the command thread sets up the tuner while the control thread   *)
(* reads its registers every second.                                       *)
(*                                                                         *)
(* rtlsdr_set_sample_rate() resets the demodulator by two writes to the    *)
(* very register that holds the repeater's bit, without the mutex.         *)
(***************************************************************************)
EXTENDS Integers

CONSTANTS
    Threads,
    Setters,        \* the threads that call setters; the others only read registers
    MaxTransfers,   \* bound: I2C transfers of one tuner operation
    NoThread

ASSUME ConstantsAssumption ==
    /\ Setters \subseteq Threads
    /\ MaxTransfers \in Nat \ {0}
    /\ NoThread \notin Threads

VARIABLES
    pc,             \* per thread: where it is
    level,          \* per thread: tuner operations it is inside of
    transfers,      \* per thread: I2C transfers still to be made
    owner, depth,   \* the mutex dev->cs_mutex
    repeater,       \* bit 3 of the demodulator's register 1:0x01
    undone          \* a reset of the demodulator has closed the repeater

vars == <<pc, level, transfers, owner, depth, repeater, undone>>

Init ==
    /\ pc = [t \in Threads |-> "out"]
    /\ level = [t \in Threads |-> 0]
    /\ transfers = [t \in Threads |-> 0]
    /\ owner = NoThread /\ depth = 0
    /\ repeater = FALSE /\ undone = FALSE

Goto(t, place) == pc' = [pc EXCEPT ![t] = place]

\* A tuner operation begins: a setter's or a read of the registers, or one that a
\* setter's tuner operation calls when its own transfers are done.
Begin(t) ==
    /\ pc[t] = "out" \/ (pc[t] = "transfer" /\ transfers[t] = 0 /\ level[t] = 1 /\ t \in Setters)
    /\ Goto(t, "lock")
    /\ UNCHANGED <<level, transfers, owner, depth, repeater, undone>>

\* Mutant of MayLock: there is no mutex.
MayLockAlways(t) == t \in Threads

\* Mutant of MayLock: the threads that set up the tuner go first.
MayLockLast(t) ==
    /\ owner \in {NoThread, t}
    /\ t \in Setters \/ \A u \in Setters : pc[u] # "lock"

MayLock(t) == owner \in {NoThread, t}

\* rtlsdr_set_i2c_repeater(dev, 1).
Lock(t) ==
    /\ pc[t] = "lock"
    /\ MayLock(t)
    /\ owner' = t
    /\ depth' = depth + 1                  \* the mutex is recursive
    /\ Goto(t, "open")
    /\ UNCHANGED <<level, transfers, repeater, undone>>

Open(t) ==
    /\ pc[t] = "open"
    /\ repeater' = TRUE /\ undone' = FALSE
    /\ level' = [level EXCEPT ![t] = @ + 1]
    /\ \E n \in 1 .. MaxTransfers : transfers' = [transfers EXCEPT ![t] = n]
    /\ Goto(t, "transfer")
    /\ UNCHANGED <<owner, depth>>

Transfer(t) ==
    /\ pc[t] = "transfer"
    /\ transfers[t] > 0
    /\ transfers' = [transfers EXCEPT ![t] = @ - 1]
    /\ UNCHANGED <<pc, level, owner, depth, repeater, undone>>

\* Mutant of CloseRepeater: the register is written as it was.
KeepRepeater == UNCHANGED <<repeater, undone>>

CloseRepeater == repeater' = FALSE /\ undone' = FALSE

\* rtlsdr_set_i2c_repeater(dev, 0).
Close(t) ==
    /\ pc[t] = "transfer"
    /\ transfers[t] = 0
    /\ CloseRepeater
    /\ Goto(t, "unlock")
    /\ UNCHANGED <<level, transfers, owner, depth>>

Release ==
    /\ depth' = depth - 1
    /\ owner' = IF depth = 1 THEN NoThread ELSE owner

Unlock(t) ==            \* out, or back in the calling operation, which has no transfers left
    /\ pc[t] = "unlock"
    /\ Release
    /\ level' = [level EXCEPT ![t] = @ - 1]
    /\ Goto(t, IF level[t] = 1 THEN "out" ELSE "transfer")
    /\ UNCHANGED <<transfers, repeater, undone>>

\* rtlsdr_set_sample_rate(): writes 0x14, then 0x10, both with the repeater's bit clear.
SampleRateReset(t) ==
    /\ t \in Setters
    /\ pc[t] \in {"out", "reset"}
    /\ repeater' = FALSE
    /\ undone' = (repeater \/ undone)
    /\ Goto(t, IF pc[t] = "out" THEN "reset" ELSE "out")
    /\ UNCHANGED <<level, transfers, owner, depth>>

Step(t) == Lock(t) \/ Open(t) \/ Transfer(t) \/ Close(t) \/ Unlock(t)

Next == \E t \in Threads : Begin(t) \/ Step(t) \/ SampleRateReset(t)

Spec == Init /\ [][Next]_vars

\* A thread that is inside an operation is scheduled and calls others finitely often;
\* nobody has to begin one.
FairSpec ==
    /\ Spec
    /\ \A t \in Threads : WF_vars(Step(t)) /\ SF_vars(level[t] = 1 /\ Close(t))

-----------------------------------------------------------------------------
(***************************************************************************)
(* Properties.                                                             *)
(***************************************************************************)

\* Every variable has its type.
TypeOK ==
    /\ pc \in [Threads -> {"out", "lock", "open", "transfer", "unlock", "reset"}]
    /\ level \in [Threads -> 0 .. 2]
    /\ transfers \in [Threads -> 0 .. MaxTransfers]
    /\ owner \in Threads \cup {NoThread}
    /\ depth \in 0 .. 2
    /\ repeater \in BOOLEAN /\ undone \in BOOLEAN

\* A thread inside a tuner operation, at any level, owns the mutex: no transfer of
\* another thread comes between two of its own, not even after a nested operation.
Exclusive == \A t \in Threads : level[t] > 0 => owner = t

\* The tuner hears every transfer, whatever other tuner operations are under way: the
\* repeater is open when one is made, unless a reset of the demodulator has closed it.
HeardByTuner ==
    \A t \in Threads : pc[t] = "transfer" /\ transfers[t] > 0 => repeater \/ undone

\* The I2C bus is not left connected: when nobody owns the mutex the repeater is closed.
ClosedAtRest == owner = NoThread => ~repeater
=============================================================================
