------------------------------ MODULE UsbfsUrbs -------------------------------
(***************************************************************************)
(* One bulk IN transfer on usbfs (linux_usbfs.c): libusb splits it into    *)
(* URBs, submits them all, and reaps what the kernel gives back, in        *)
(* order, short, stalled, failed or discarded.  It has to report the       *)
(* transfer once, when no URB of it is left in the kernel, with all the    *)
(* data the device sent in one piece, and with the reason why it ended.    *)
(*                                                                         *)
(* The data are numbered in the order the device sends them, so that the   *)
(* buffer of the transfer shows what is where.  The transfer's lock is     *)
(* held by one job at a time, "submit" or "discard"; the kernel works on   *)
(* meanwhile.  Removal of the device, overflow and zero packets are left   *)
(* out.                                                                    *)
(***************************************************************************)
EXTENDS Integers, Sequences, FiniteSetsExt

CONSTANTS
    NumUrbs,        \* URBs of the transfer
    UrbLength,      \* what one of them can hold
    StallModes      \* the modes in which the device may stall the endpoint

Modes == {"continuation", "plain"}  \* with or without USBFS_CAP_BULK_CONTINUATION
Urbs == 0 .. NumUrbs - 1
LastUrb == NumUrbs - 1
Length == NumUrbs * UrbLength

ASSUME ConstantsAssumption ==
    /\ NumUrbs \in Nat \ {0} /\ UrbLength \in Nat \ {0}
    /\ StallModes \subseteq Modes

VARIABLES
    mode,
    \* the kernel
    urb_status,     \* of each URB: "new", "queued", or how it ended
    actual_length,  \* of each URB
    ready,          \* the URBs that can be reaped, in that order
    sent,           \* what the device has sent
    halted,         \* the device has stalled the endpoint
    \* the transfer
    buffer,         \* what is at each place, 0 for nothing
    transferred,
    num_retired, reap_action, reap_status,
    job,            \* "submit", "discard" or "none"
    next,           \* the URB to submit next
    todo,           \* the URBs to discard
    last,           \* the URB whose discard decides the result
    found,          \* that result
    cancelling,     \* "no", "asked" or "yes": libusb_cancel_transfer() has been called
    reported        \* the status given to the callback, or "no"

kernelVars == <<urb_status, actual_length, ready, sent, halted>>
reapVars == <<transferred, num_retired, reap_action, reap_status>>
jobVars == <<job, next, todo, last, found>>
vars == <<mode, kernelVars, buffer, reapVars, jobVars, cancelling, reported>>

Init ==
    /\ mode \in Modes
    /\ urb_status = [i \in Urbs |-> "new"]
    /\ actual_length = [i \in Urbs |-> 0]
    /\ ready = <<>> /\ sent = 0 /\ halted = FALSE
    /\ buffer = [k \in 1 .. Length |-> 0]
    /\ transferred = 0 /\ num_retired = 0
    /\ reap_action = "NORMAL" /\ reap_status = "COMPLETED"
    /\ job = "submit" /\ next = 0
    /\ todo = {} /\ last = 0 /\ found = TRUE
    /\ cancelling = "no"
    /\ reported = "no"

(***************************************************************************)
(* The kernel.  It serves the URBs of an endpoint in order; with           *)
(* continuation an URB that does not end well takes the queued ones with   *)
(* it, and those not yet submitted are refused.                            *)
(***************************************************************************)
Queued == {i \in Urbs : urb_status[i] = "queued"}
Broken == \E i \in Urbs : urb_status[i] \in {"short", "stall", "error"}

Receive(i, status) ==   \* the URB at the head ends
    LET dropped == IF mode = "continuation" /\ status # "ok" THEN Queued \ {i} ELSE {}
    IN /\ urb_status' = [j \in Urbs |-> IF j = i THEN status
                                        ELSE IF j \in dropped THEN "discarded" ELSE urb_status[j]]
       /\ ready' = ready \o <<i>> \o [k \in 1 .. Cardinality(dropped) |-> i + k]

KernelReceives ==       \* one more packet
    /\ Queued # {} /\ ~halted
    /\ LET i == Min(Queued)
           place == i * UrbLength + actual_length[i] + 1
       IN /\ sent' = sent + 1
          /\ buffer' = [buffer EXCEPT ![place] = sent + 1]
          /\ actual_length' = [actual_length EXCEPT ![i] = @ + 1]
          /\ IF actual_length[i] + 1 = UrbLength
               THEN Receive(i, "ok")
               ELSE UNCHANGED <<urb_status, ready>>
    /\ UNCHANGED <<mode, halted, reapVars, jobVars, cancelling, reported>>

KernelEnds ==           \* before the URB is full
    /\ Queued # {}
    /\ \E status \in {"short", "stall", "error"} :
         /\ IF halted THEN status = "stall" ELSE status = "stall" => mode \in StallModes
         /\ Receive(Min(Queued), status)
         /\ halted' = (halted \/ status = "stall")
    /\ UNCHANGED <<mode, actual_length, sent, buffer, reapVars, jobVars, cancelling, reported>>

(***************************************************************************)
(* submit_bulk_transfer().                                                 *)
(***************************************************************************)
SubmitUrb ==
    /\ job = "submit"
    /\ ~(mode = "continuation" /\ Broken)
    /\ urb_status' = [urb_status EXCEPT ![next] = "queued"]
    /\ next' = next + 1
    /\ job' = IF next = LastUrb THEN "none" ELSE "submit"
    /\ UNCHANGED <<mode, actual_length, ready, sent, halted, buffer, reapVars, todo, last, found,
                   cancelling, reported>>

\* Mutant of CountRest: the URBs that were not submitted are waited for.
CountNothing == UNCHANGED num_retired

CountRest == num_retired' = num_retired + NumUrbs - next

SubmitEndsEarly ==      \* EREMOTEIO
    /\ job = "submit"
    /\ mode = "continuation" /\ Broken
    /\ job' = "none"
    /\ reap_action' = "COMPLETED_EARLY"
    /\ CountRest
    /\ UNCHANGED <<mode, kernelVars, buffer, transferred, reap_status, next, todo, last, found,
                   cancelling, reported>>

SubmitFails ==          \* when it is not the first URB
    /\ job = "submit" /\ next > 0
    /\ job' = "discard"
    /\ reap_action' = "SUBMIT_FAILED"
    /\ CountRest
    /\ todo' = 0 .. next - 1 /\ last' = next - 1 /\ found' = TRUE
    /\ UNCHANGED <<mode, kernelVars, buffer, transferred, reap_status, next, cancelling, reported>>

(***************************************************************************)
(* discard_urbs(), in reverse order of submission, and op_cancel_transfer. *)
(***************************************************************************)
\* Mutant of DiscardOrder: in the order of submission.
DiscardForward(S) == Min(S)

DiscardOrder(S) == Max(S)

DiscardUrb ==
    /\ job = "discard" /\ todo # {}
    /\ LET i == DiscardOrder(todo)
       IN /\ todo' = todo \ {i}
          /\ IF i \in Queued
               THEN /\ urb_status' = [urb_status EXCEPT ![i] = "discarded"]
                    /\ ready' = Append(ready, i)
                    /\ UNCHANGED found
               ELSE /\ found' = (found /\ i # last)
                    /\ UNCHANGED <<urb_status, ready>>
    /\ UNCHANGED <<mode, actual_length, sent, halted, buffer, reapVars, job, next, last, cancelling,
                   reported>>

DiscardEnds ==
    /\ job = "discard" /\ todo = {}
    /\ job' = "none"
    /\ IF cancelling = "asked"
         THEN /\ cancelling' = "yes"
              /\ reap_action' = IF found /\ reap_action # "ERROR" THEN "CANCELLED" ELSE reap_action
         ELSE UNCHANGED <<cancelling, reap_action>>
    /\ UNCHANGED <<mode, kernelVars, buffer, transferred, num_retired, reap_status, next, todo, last,
                   found, reported>>

Cancel ==
    /\ job = "none" /\ reported = "no" /\ cancelling = "no"
    /\ cancelling' = "asked"
    /\ job' = "discard"
    /\ todo' = Urbs /\ last' = LastUrb /\ found' = TRUE
    /\ UNCHANGED <<mode, kernelVars, buffer, reapVars, next, reported>>

(***************************************************************************)
(* reap_for_handle() and handle_bulk_completion().                         *)
(***************************************************************************)
\* Mutant of Surplus: what comes after the end stays where it is.
SurplusStays(i) == buffer

Surplus(i) ==
    [k \in 1 .. Length |->
        IF k - transferred \in 1 .. actual_length[i]
          THEN buffer[i * UrbLength + k - transferred] ELSE buffer[k]]

Report(action, status) == reported' = IF action = "CANCELLED" THEN "CANCELLED" ELSE status

Retire(i) ==
    /\ job = "none" /\ reported = "no"
    /\ ready # <<>> /\ i = Head(ready)
    /\ ready' = Tail(ready)
    /\ num_retired' = num_retired + 1
    /\ transferred' = transferred + actual_length[i]
    /\ UNCHANGED <<mode, urb_status, actual_length, sent, halted, next, cancelling>>

AllRetired == num_retired' = NumUrbs

ReapAbnormal(i) ==
    /\ reap_action # "NORMAL"
    /\ Retire(i)
    /\ buffer' = Surplus(i)
    /\ IF AllRetired
         THEN /\ reap_status' = IF reap_action # "COMPLETED_EARLY" /\ reap_status = "COMPLETED"
                                  THEN "ERROR" ELSE reap_status
              /\ Report(reap_action, reap_status')
         ELSE UNCHANGED <<reap_status, reported>>
    /\ UNCHANGED <<reap_action, job, todo, last, found>>

\* The URB is full, or the last one: that one ends the transfer.
ReapNormal(i) ==
    /\ reap_action = "NORMAL"
    /\ urb_status[i] \notin {"stall", "error"}
    /\ i = LastUrb \/ actual_length[i] = UrbLength
    /\ Retire(i)
    /\ IF i = LastUrb THEN Report(reap_action, reap_status) ELSE UNCHANGED reported
    /\ UNCHANGED <<buffer, reap_action, reap_status, job, todo, last, found>>

\* Mutant of WaitForRest: it reports at once.
WaitForNone(i) == Report(reap_action', reap_status') /\ UNCHANGED <<job, todo, last, found>>

WaitForRest(i) ==       \* cancel_remaining
    IF AllRetired
      THEN Report(reap_action', reap_status') /\ UNCHANGED <<job, todo, last, found>>
      ELSE /\ job' = "discard"
           /\ todo' = i + 1 .. LastUrb /\ last' = LastUrb /\ found' = TRUE
           /\ UNCHANGED reported

ReapShort(i) ==
    /\ reap_action = "NORMAL"
    /\ urb_status[i] \notin {"stall", "error"}
    /\ i # LastUrb /\ actual_length[i] < UrbLength
    /\ Retire(i)
    /\ reap_action' = "COMPLETED_EARLY"
    /\ UNCHANGED <<buffer, reap_status>>
    /\ WaitForRest(i)

ReapFailed(i) ==
    /\ reap_action = "NORMAL"
    /\ urb_status[i] \in {"stall", "error"}
    /\ Retire(i)
    /\ IF urb_status[i] = "stall"
         THEN /\ UNCHANGED reap_action
              /\ reap_status' = IF reap_status = "COMPLETED" THEN "STALL" ELSE reap_status
         ELSE /\ reap_action' = "ERROR"
              /\ reap_status' = IF reap_status = "COMPLETED" THEN "ERROR" ELSE reap_status
    /\ UNCHANGED buffer
    /\ WaitForRest(i)

Reap == \E i \in Urbs : ReapAbnormal(i) \/ ReapNormal(i) \/ ReapShort(i) \/ ReapFailed(i)

Work == SubmitUrb \/ SubmitEndsEarly \/ DiscardUrb \/ DiscardEnds \/ Reap

\* The transfer has been reported, or nothing can be reaped yet.
Idle == (reported # "no" \/ (job = "none" /\ ready = <<>>)) /\ UNCHANGED vars

Next == Work \/ SubmitFails \/ Cancel \/ KernelReceives \/ KernelEnds \/ Idle

Spec == Init /\ [][Next]_vars

\* libusb's threads go on; the device need not answer.
FairSpec == Spec /\ WF_vars(Work)

-----------------------------------------------------------------------------
(***************************************************************************)
(* Properties.                                                             *)
(***************************************************************************)
\* Without continuation a stall has been reaped.  The code takes it to end what is queued,
\* and leaves reap_action as it was.
PlainStall == mode = "plain" /\ reap_action = "NORMAL" /\ reap_status = "STALL"

\* The transfer is reported, and may be freed, only when no URB of it is in the kernel and
\* all have been reaped: none is reaped later, with a pointer into memory that was freed.
\* After a plain stall the code does not wait: some may still have to be reaped.
ReportedLast == reported # "no" => Queued = {} /\ (ready = <<>> \/ PlainStall)

\* Nothing the device has sent is lost, and it lies in one piece at the start of the
\* buffer, wherever the transfer was cut and in whichever order its URBs came back.
DataWhole ==
    reported # "no" => transferred = sent /\ \A k \in 1 .. sent : buffer[k] = k

\* The status says what happened: a transfer that is reported as completed is full or
\* was ended by a short packet, and one that is not has been stalled, cancelled or hit
\* by an error.  A transfer of which the kernel refused an URB with EREMOTEIO counts as
\* ended by a short packet: that is how the code takes it, also after a stall.
StatusTrue ==
    LET happened == {urb_status[i] : i \in Urbs}
        refused == mode = "continuation" /\ next < NumUrbs
    IN CASE reported = "COMPLETED" -> sent = Length \/ "short" \in happened \/ refused
         [] reported = "STALL" -> halted
         [] reported = "CANCELLED" -> cancelling = "yes"
         [] reported = "ERROR" -> "error" \in happened \/ reap_action = "SUBMIT_FAILED"
         [] OTHER -> TRUE

\* A transfer that is cancelled, or of which one URB ended early, is reported in the end,
\* even if the device never answers again.
Reported == (cancelling = "asked" \/ reap_action # "NORMAL") ~> reported # "no"
=============================================================================
