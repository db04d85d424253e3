---------------------------- MODULE AsyncReadAPI ----------------------------
(***************************************************************************)
(* What a caller of librtlsdr sees of an asynchronous read: one thread     *)
(* calls rtlsdr_read_async(), which stays inside until the status it       *)
(* published has been set to CANCELING; any thread may call                *)
(* rtlsdr_cancel_async(), which tests the status and stores a new one in   *)
(* two separate, unlocked accesses.  A thread that handles libusb's events *)
(* runs the callback in it, and calls rtlsdr_cancel_async() from there.    *)
(*                                                                         *)
(* AsyncRead.tla shows that librtlsdr's event loop over libusb transfers   *)
(* implements this module; RtlTcp.tla builds the server on its actions.    *)
(***************************************************************************)
CONSTANTS
    Cancelers,      \* the threads that call rtlsdr_cancel_async()
    Handlers        \* those of them that may handle libusb's events

VARIABLES
    async_status,       \* dev->async_status
    dev_lost,           \* dev->dev_lost
    reading,            \* a thread is inside rtlsdr_read_async()
    sawRunning          \* cancelers between the test of the status and the store

vars == <<async_status, dev_lost, reading, sawRunning>>

Statuses == {"INACTIVE", "CANCELING", "RUNNING"}

TypeOK ==
    /\ async_status \in Statuses
    /\ dev_lost \in BOOLEAN
    /\ reading \in BOOLEAN
    /\ sawRunning \subseteq Cancelers

Init ==
    /\ async_status = "INACTIVE"
    /\ dev_lost = FALSE
    /\ reading = FALSE
    /\ sawRunning = {}

(***************************************************************************)
(* The reader.                                                             *)
(***************************************************************************)
BeginRead ==
    /\ ~reading
    /\ async_status = "INACTIVE"
    /\ reading' = TRUE
    /\ async_status' = "RUNNING"
    /\ UNCHANGED <<dev_lost, sawRunning>>

RefuseRead ==           \* returns -2
    /\ ~reading
    /\ async_status # "INACTIVE"
    /\ UNCHANGED vars

SubmitFails ==          \* a transfer cannot be submitted: the loop cancels itself
    /\ reading
    /\ async_status' = "CANCELING"
    /\ UNCHANGED <<dev_lost, reading, sawRunning>>

LoseDevice ==           \* a transfer ends in an error: the callback cancels
    /\ reading
    /\ dev_lost' = TRUE
    /\ async_status' = IF async_status = "RUNNING" THEN "CANCELING" ELSE async_status
    /\ UNCHANGED <<reading, sawRunning>>

\* A transfer ends in an error in a callback that another thread runs, which may be one
\* that outlives the read; that thread then calls rtlsdr_cancel_async().
HandlerLoses ==
    /\ Handlers # {}
    /\ dev_lost' = TRUE
    /\ UNCHANGED <<async_status, reading, sawRunning>>

\* The loop leaves after a pass over cancelled transfers; with a lost device it
\* may leave before every one has been reaped, and then the status stays
\* CANCELING.
EndRead ==
    /\ reading
    /\ async_status = "CANCELING"
    /\ reading' = FALSE
    /\ \/ async_status' = "INACTIVE"
       \/ dev_lost /\ async_status' = "CANCELING"
    /\ UNCHANGED <<dev_lost, sawRunning>>

\* libusb's event handling fails: the loop leaves whatever the status is, and
\* stores the status its last cancelling pass computed.
FailRead ==
    /\ reading
    /\ reading' = FALSE
    /\ \/ async_status' = "INACTIVE"
       \/ async_status = "CANCELING" /\ async_status' = "CANCELING"
    /\ UNCHANGED <<dev_lost, sawRunning>>

(***************************************************************************)
(* rtlsdr_cancel_async(), called by thread t.                              *)
(***************************************************************************)
CancelTest(t) ==
    /\ t \notin sawRunning
    /\ sawRunning' = IF async_status = "RUNNING" THEN sawRunning \cup {t} ELSE sawRunning
    /\ UNCHANGED <<async_status, dev_lost, reading>>

CancelStore(t) ==
    /\ t \in sawRunning
    /\ async_status' = "CANCELING"
    /\ sawRunning' = sawRunning \ {t}
    /\ UNCHANGED <<dev_lost, reading>>

Next ==
    \/ BeginRead \/ RefuseRead \/ SubmitFails \/ LoseDevice \/ HandlerLoses
    \/ EndRead \/ FailRead
    \/ \E t \in Cancelers : CancelTest(t) \/ CancelStore(t)

Fairness ==
    /\ WF_vars(EndRead)
    /\ \A t \in Cancelers : WF_vars(CancelStore(t))

Spec == Init /\ [][Next]_vars

FairSpec == Spec /\ Fairness
=============================================================================
