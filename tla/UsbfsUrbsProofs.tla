-------------------------- MODULE UsbfsUrbsProofs ----------------------------
(***************************************************************************)
(* Theorems about UsbfsUrbs, for every number of URBs and every length of  *)
(* one, and their proofs.                                                  *)
(***************************************************************************)
EXTENDS UsbfsUrbs, FiniteSetTheorems, TLAPS

USE DEF kernelVars, reapVars, jobVars

(***************************************************************************)
(* The types.                                                              *)
(***************************************************************************)
EarlyEnds == {"short", "stall", "error"}
Finished == EarlyEnds \cup {"ok", "discarded"}

KernelOK ==
    /\ mode \in Modes
    /\ urb_status \in [Urbs -> Finished \cup {"new", "queued"}]
    /\ actual_length \in [Urbs -> 0 .. UrbLength]
    /\ ready \in Seq(Urbs)
    /\ sent \in Nat
    /\ halted \in BOOLEAN
    /\ buffer \in [1 .. Length -> Nat]

XferOK ==
    /\ transferred \in Nat /\ num_retired \in Nat
    /\ reap_action \in {"NORMAL", "COMPLETED_EARLY", "SUBMIT_FAILED", "CANCELLED", "ERROR"}
    /\ reap_status \in {"COMPLETED", "STALL", "ERROR"}
    /\ reported \in {"no", "COMPLETED", "STALL", "CANCELLED", "ERROR"}
    /\ cancelling \in {"no", "asked", "yes"}

\* A discard goes down from the last of an interval of URBs.
JobOK ==
    /\ job \in {"submit", "discard", "none"}
    /\ next \in 0 .. NumUrbs /\ (job = "submit" => next < NumUrbs)
    /\ \E a, b \in Int : todo = a .. b
    /\ todo \subseteq Urbs
    /\ last \in Urbs
    /\ found \in BOOLEAN

TypeInv == KernelOK /\ XferOK /\ JobOK

(***************************************************************************)
(* The URBs.  They are submitted in order, and the kernel fills one after  *)
(* the other: behind one that is still queued there are no data yet.       *)
(***************************************************************************)
NothingBehind(i) == \A j \in Urbs : j > i => actual_length[j] = 0

UrbInv ==
    \A i \in Urbs :
      /\ i >= next <=> urb_status[i] = "new"
      /\ urb_status[i] = "new" => actual_length[i] = 0
      /\ urb_status[i] = "queued" => actual_length[i] < UrbLength /\ NothingBehind(i)
      /\ urb_status[i] = "ok" => actual_length[i] = UrbLength
      /\ urb_status[i] \in EarlyEnds => actual_length[i] < UrbLength
      /\ urb_status[i] = "stall" => halted /\ NothingBehind(i)

EndedInv == mode = "continuation" /\ Broken => Queued = {}

\* Each URB that ended is reaped once, and those with data in their order.
ReadyInv ==
    /\ \A k \in 1 .. Len(ready) : urb_status[ready[k]] \in Finished
    /\ \A k, l \in 1 .. Len(ready) : k < l =>
          /\ ready[k] # ready[l]
          /\ actual_length[ready[k]] > 0 /\ actual_length[ready[l]] > 0 => ready[k] < ready[l]

\* The URBs in the kernel are an interval, and an URB is in the kernel, in the list of
\* those to reap or counted as retired.
Total == IF job = "submit" THEN next ELSE NumUrbs

Counted(lo, hi) ==
    /\ lo <= hi /\ hi <= next
    /\ Queued = lo .. hi - 1
    /\ num_retired + (hi - lo) + Len(ready) = Total

CountInv == \E lo, hi \in 0 .. NumUrbs : Counted(lo, hi)

JobInv ==
    /\ job = "submit" => reap_action = "NORMAL" /\ num_retired = 0 /\ cancelling = "no" /\ reported = "no"
    /\ job = "discard" => Queued \subseteq todo /\ reported = "no"
    /\ cancelling = "asked" => job = "discard"
    /\ reported # "no" => num_retired = NumUrbs \/ PlainStall
    /\ reap_action = "NORMAL" => reap_status # "ERROR"

(***************************************************************************)
(* Until something ends the transfer early the URBs are retired in order.  *)
(* A discard that ends it takes the last URB first, and disturbs the order *)
(* only if the transfer is going to be reported as cancelled.              *)
(***************************************************************************)
InOrder ==
    /\ \A k \in 1 .. Len(ready) : ready[k] = num_retired + k - 1
    /\ Queued = num_retired + Len(ready) .. next - 1

Disturbed == job = "discard" /\ LastUrb \notin todo /\ found

OrderInv ==
    reap_action = "NORMAL" /\ ~PlainStall =>
      /\ job # "submit" => next = NumUrbs
      /\ job = "discard" => last = LastUrb /\ (LastUrb \in todo => found)
      /\ IF Disturbed THEN cancelling = "asked" ELSE InOrder
      /\ job = "discard" /\ LastUrb \notin todo /\ ~found => Queued = {}
      /\ job = "discard" /\ cancelling # "asked" => Queued = {}

Pending(i) == i \in Queued \/ \E k \in 1 .. Len(ready) : ready[k] = i

\* After a plain stall the order is lost, and with it the count.  But the endpoint is
\* halted, what is queued is discarded at once, and no URB that is left holds any data.
StallInv ==
    PlainStall =>
      /\ halted /\ job # "submit"
      /\ job = "discard" \/ Queued = {}
      /\ \A i \in Urbs : Pending(i) => actual_length[i] = 0

(***************************************************************************)
(* Integers.                                                               *)
(***************************************************************************)
Off(i) == i * UrbLength

LEMMA Constants ==
    /\ NumUrbs \in Nat \ {0} /\ UrbLength \in Nat \ {0}
    /\ Urbs = 0 .. NumUrbs - 1 /\ LastUrb \in Urbs /\ LastUrb = NumUrbs - 1
    /\ 0 \in Urbs /\ Length \in Nat
  BY ConstantsAssumption DEF Urbs, LastUrb, Length

LEMMA OffFacts ==
    /\ \A i \in Urbs : Off(i) \in Nat /\ Off(i) + UrbLength <= Length
    /\ \A i, j \in Urbs : i < j => Off(i) + UrbLength <= Off(j)
    /\ \A i \in Nat : Off(i) \in Nat /\ Off(i + 1) = Off(i) + UrbLength
    /\ Off(0) = 0
  <1> USE Constants
  <1>1. \A i \in Nat : Off(i) \in Nat /\ Off(i + 1) = Off(i) + UrbLength
    BY DEF Off
  <1>2. ASSUME NEW i \in Nat, NEW j \in Nat, i < j PROVE Off(i) + UrbLength <= Off(j)
    <2>1. PICK d \in Nat : j = i + 1 + d
      <3>1. j - i - 1 \in Nat /\ j = i + 1 + (j - i - 1)
        BY <1>2
      <3> QED BY <3>1
    <2>2. (i + 1 + d) * UrbLength = i * UrbLength + UrbLength + d * UrbLength /\ d * UrbLength \in Nat
      OBVIOUS
    <2> QED BY <2>1, <2>2 DEF Off
  <1>3. ASSUME NEW i \in Urbs PROVE Off(i) + UrbLength <= Length
    <2>1. Length = Off(NumUrbs)
      BY DEF Length, Off
    <2>2. i \in Nat /\ NumUrbs \in Nat /\ i < NumUrbs
      OBVIOUS
    <2> QED BY <1>2, <2>1, <2>2
  <1>4. Off(0) = 0
    BY DEF Off
  <1>5. Urbs \subseteq Nat
    OBVIOUS
  <1> QED BY <1>1, <1>2, <1>3, <1>4, <1>5

LEMMA MinInterval ==
    ASSUME NEW a \in Int, NEW b \in Int, a <= b
    PROVE  Min(a .. b) = a /\ Max(a .. b) = b
  BY DEF Min, Max

(***************************************************************************)
(* What the steps do.  An URB that ends is appended to the list, with the  *)
(* n behind it that it takes along.                                        *)
(***************************************************************************)
LEMMA AppendedFacts ==
    ASSUME NEW s \in Seq(Urbs), NEW i \in Urbs, NEW n \in Nat, i + n \in Urbs,
           NEW r, r = s \o <<i>> \o [k \in 1 .. n |-> i + k]
    PROVE  /\ r \in Seq(Urbs) /\ Len(r) = Len(s) + 1 + n
           /\ \A k \in 1 .. Len(s) : r[k] = s[k]
           /\ \A k \in Len(s) + 1 .. Len(s) + 1 + n : r[k] = i + (k - Len(s) - 1)
  <1> DEFINE d == [k \in 1 .. n |-> i + k]
             h == s \o <<i>>
  <1>1. \A k \in 1 .. n : i + k \in Urbs
    BY Constants
  <1>2. d \in Seq(Urbs) /\ Len(d) = n /\ \A k \in 1 .. n : d[k] = i + k
    BY <1>1
  <1>3. /\ h \in Seq(Urbs) /\ Len(h) = Len(s) + 1 /\ h[Len(s) + 1] = i
        /\ \A k \in 1 .. Len(s) : h[k] = s[k]
    OBVIOUS
  <1> HIDE DEF d, h
  <1>4. r = h \o d
    BY DEF d, h
  <1>5. r \in Seq(Urbs) /\ Len(r) = Len(s) + 1 + n
    BY <1>2, <1>3, <1>4
  <1>6. ASSUME NEW k \in 1 .. Len(s) PROVE r[k] = s[k]
    BY <1>2, <1>3, <1>4
  <1>7. ASSUME NEW k \in Len(s) + 1 .. Len(s) + 1 + n PROVE r[k] = i + (k - Len(s) - 1)
    <2>1. CASE k = Len(s) + 1
      BY <1>2, <1>3, <1>4, <2>1, Constants
    <2>2. CASE k # Len(s) + 1
      <3>1. k - Len(s) - 1 \in 1 .. n /\ k - Len(h) = k - Len(s) - 1
        BY <1>3, <2>2
      <3>2. r[k] = d[k - Len(h)]
        BY <1>2, <1>3, <1>4, <2>2
      <3> QED BY <1>2, <3>1, <3>2
    <2> QED BY <2>1, <2>2
  <1> QED BY <1>5, <1>6, <1>7

Ends(i, n, s) ==
    /\ i \in Urbs /\ n \in Nat /\ i .. i + n \subseteq Queued
    /\ s \in Finished
    /\ urb_status' \in [Urbs -> Finished \cup {"new", "queued"}]
    /\ \A j \in Urbs : urb_status'[j] = IF j = i THEN s
                                        ELSE IF j \in i + 1 .. i + n THEN "discarded" ELSE urb_status[j]
    /\ ready' \in Seq(Urbs) /\ Len(ready') = Len(ready) + 1 + n
    /\ \A k \in 1 .. Len(ready) : ready'[k] = ready[k]
    /\ \A k \in Len(ready) + 1 .. Len(ready) + 1 + n : ready'[k] = i + (k - Len(ready) - 1)

LEMMA EndsQueue ==
    ASSUME KernelOK, NEW i, NEW n, NEW s, Ends(i, n, s)
    PROVE  Queued' = Queued \ (i .. i + n)
  <1>1. ASSUME NEW j \in Urbs PROVE urb_status'[j] = "queued" <=> urb_status[j] = "queued" /\ j \notin i .. i + n
    <2>1. CASE j = i
      <3>1. urb_status'[j] = s /\ s # "queued"
        BY <2>1 DEF Ends, Finished, EarlyEnds
      <3>2. j \in i .. i + n
        BY <2>1, Constants DEF Ends
      <3> QED BY <3>1, <3>2
    <2>2. CASE j \in i + 1 .. i + n
      BY <2>2 DEF Ends
    <2>3. CASE j # i /\ j \notin i + 1 .. i + n
      BY <2>3, Constants DEF Ends
    <2> QED BY <2>1, <2>2, <2>3
  <1> QED BY <1>1 DEF Queued

LEMMA ReceiveFacts ==
    ASSUME KernelOK, NEW lo \in 0 .. NumUrbs, NEW hi \in 0 .. NumUrbs, lo < hi, Queued = lo .. hi - 1,
           NEW s \in {"ok"} \cup EarlyEnds, Receive(lo, s)
    PROVE  LET n == IF mode = "continuation" /\ s # "ok" THEN hi - lo - 1 ELSE 0
           IN Ends(lo, n, s) /\ Queued' = lo + n + 1 .. hi - 1
  <1> DEFINE n == IF mode = "continuation" /\ s # "ok" THEN hi - lo - 1 ELSE 0
             dropped == IF mode = "continuation" /\ s # "ok" THEN Queued \ {lo} ELSE {}
  <1> USE Constants
  <1>1. n \in Nat /\ dropped = lo + 1 .. lo + n /\ lo .. lo + n \subseteq Queued /\ lo \in Urbs
    <2>1. CASE mode = "continuation" /\ s # "ok"
      <3>1. n = hi - lo - 1 /\ dropped = Queued \ {lo}
        BY <2>1
      <3>2. Queued \ {lo} = lo + 1 .. hi - 1 /\ lo + (hi - lo - 1) = hi - 1
        OBVIOUS
      <3> HIDE DEF n, dropped
      <3> QED BY <3>1, <3>2
    <2>2. CASE ~(mode = "continuation" /\ s # "ok")
      <3>1. n = 0 /\ dropped = {}
        BY <2>2
      <3>2. lo + 1 .. lo + 0 = {}
        OBVIOUS
      <3> HIDE DEF n, dropped
      <3> QED BY <3>1, <3>2
    <2> QED BY <2>1, <2>2
  <1> HIDE DEF n
  <1>2. Cardinality(dropped) = n
    <2>1. Cardinality(lo + 1 .. lo + n) = IF lo + 1 > lo + n THEN 0 ELSE lo + n - (lo + 1) + 1
      BY <1>1, FS_Interval
    <2> HIDE DEF dropped
    <2> QED BY <1>1, <2>1
  <1>3. /\ urb_status' = [j \in Urbs |-> IF j = lo THEN s
                                         ELSE IF j \in dropped THEN "discarded" ELSE urb_status[j]]
        /\ ready' = ready \o <<lo>> \o [k \in 1 .. Cardinality(dropped) |-> lo + k]
    BY DEF Receive
  <1> HIDE DEF dropped
  <1>4. lo + n \in Urbs
    BY <1>1 DEF Queued
  <1>5. /\ ready' \in Seq(Urbs) /\ Len(ready') = Len(ready) + 1 + n
        /\ \A k \in 1 .. Len(ready) : ready'[k] = ready[k]
        /\ \A k \in Len(ready) + 1 .. Len(ready) + 1 + n : ready'[k] = lo + (k - Len(ready) - 1)
    <2>1. ready \in Seq(Urbs) /\ ready' = ready \o <<lo>> \o [k \in 1 .. n |-> lo + k]
      BY <1>2, <1>3 DEF KernelOK
    <2> QED BY <1>1, <1>4, <2>1, AppendedFacts
  <1>6. urb_status' \in [Urbs -> Finished \cup {"new", "queued"}]
    BY <1>3 DEF KernelOK, Finished
  <1>7. Ends(lo, n, s)
    BY <1>1, <1>3, <1>5, <1>6 DEF Ends, Finished
  <1>8. Queued' = lo + n + 1 .. hi - 1
    <2>1. Queued' = (lo .. hi - 1) \ (lo .. lo + n)
      BY <1>7, EndsQueue
    <2> QED BY <1>1, <2>1
  <1> QED BY <1>7, <1>8 DEF n

LEMMA DiscardFacts ==
    ASSUME TypeInv, NEW lo \in 0 .. NumUrbs, NEW hi \in 0 .. NumUrbs, Queued = lo .. hi - 1,
           job = "discard" => Queued \subseteq todo, DiscardUrb
    PROVE  \E i \in Urbs :
             /\ \A j \in todo : j <= i
             /\ i \in todo /\ todo' = todo \ {i} /\ \E a, b \in Int : todo' = a .. b
             /\ \/ /\ i \in Queued /\ i = hi - 1
                   /\ Ends(i, 0, "discarded")
                   /\ Queued' = lo .. i - 1
                   /\ found' = found
                \/ /\ i \notin Queued /\ found' = (found /\ i # last)
                   /\ UNCHANGED <<urb_status, ready>>
  <1> USE Constants
  <1>1. PICK a, b \in Int : todo = a .. b
    BY DEF TypeInv, JobOK
  <1>2. todo # {} /\ todo \subseteq Urbs /\ job = "discard"
    BY DEF DiscardUrb, TypeInv, JobOK
  <1>3. a <= b
    BY <1>1, <1>2
  <1>4. DiscardOrder(todo) = b
    BY <1>1, <1>3, MinInterval DEF DiscardOrder
  <1>5. b \in todo /\ b \in Urbs /\ \A j \in todo : j <= b
    BY <1>1, <1>2, <1>3
  <1>6. todo' = todo \ {b} /\ todo' = a .. b - 1
    BY <1>1, <1>3, <1>4 DEF DiscardUrb
  <1>7. CASE b \in Queued
    <2>1. b = hi - 1
      BY <1>2, <1>5, <1>7
    <2>2. /\ urb_status' = [urb_status EXCEPT ![b] = "discarded"]
          /\ ready' = Append(ready, b)
          /\ found' = found
      BY <1>4, <1>7 DEF DiscardUrb
    <2>3. ready \in Seq(Urbs)
      BY DEF TypeInv, KernelOK
    <2>4. /\ ready' \in Seq(Urbs) /\ Len(ready') = Len(ready) + 1
          /\ \A k \in 1 .. Len(ready) : ready'[k] = ready[k]
          /\ ready'[Len(ready) + 1] = b
      BY <1>5, <2>2, <2>3
    <2>5. urb_status' \in [Urbs -> Finished \cup {"new", "queued"}]
      BY <2>2 DEF TypeInv, KernelOK, Finished
    <2>6. b .. b + 0 \subseteq Queued
      BY <1>7
    <2>7. Ends(b, 0, "discarded")
      BY <1>5, <2>2, <2>3, <2>4, <2>5, <2>6 DEF Ends, Finished, TypeInv, KernelOK
    <2>8. Queued' = lo .. b - 1
      <3>1. Queued' = (lo .. hi - 1) \ (b .. b + 0)
        BY <2>7, EndsQueue DEF TypeInv
      <3> QED BY <2>1, <3>1
    <2>9. \E c, d \in Int : todo' = c .. d
      BY <1>6
    <2> QED BY <1>5, <1>6, <1>7, <2>1, <2>2, <2>7, <2>8, <2>9
  <1>8. CASE b \notin Queued
    <2>1. \E c, d \in Int : todo' = c .. d
      BY <1>6
    <2>2. found' = (found /\ b # last) /\ UNCHANGED <<urb_status, ready>>
      BY <1>4, <1>8 DEF DiscardUrb
    <2> QED BY <1>5, <1>6, <1>8, <2>1, <2>2
  <1> QED BY <1>7, <1>8

LEMMA QueueHead ==
    ASSUME NEW lo \in 0 .. NumUrbs, NEW hi \in 0 .. NumUrbs, Queued = lo .. hi - 1, Queued # {}
    PROVE  lo < hi /\ lo \in Urbs /\ Min(Queued) = lo /\ urb_status[lo] = "queued"
  <1>1. lo < hi
    BY Constants
  <1>2. Min(lo .. hi - 1) = lo
    BY <1>1, Constants, MinInterval
  <1>3. lo \in Queued
    BY <1>1, Constants
  <1> QED BY <1>1, <1>2, <1>3, Constants DEF Queued

LEMMA ReceivesFacts ==
    ASSUME KernelOK, NEW lo \in 0 .. NumUrbs, NEW hi \in 0 .. NumUrbs, Queued = lo .. hi - 1,
           KernelReceives
    PROVE  /\ lo < hi /\ lo \in Urbs /\ urb_status[lo] = "queued"
           /\ sent' = sent + 1
           /\ buffer' = [buffer EXCEPT ![Off(lo) + actual_length[lo] + 1] = sent + 1]
           /\ actual_length' = [actual_length EXCEPT ![lo] = @ + 1]
           /\ IF actual_length[lo] + 1 = UrbLength
                THEN Ends(lo, 0, "ok") /\ Queued' = lo + 1 .. hi - 1
                ELSE UNCHANGED <<urb_status, ready, Queued>>
  <1>1. lo < hi /\ lo \in Urbs /\ Min(Queued) = lo /\ urb_status[lo] = "queued"
    BY QueueHead DEF KernelReceives
  <1>2. /\ sent' = sent + 1
        /\ buffer' = [buffer EXCEPT ![lo * UrbLength + actual_length[lo] + 1] = sent + 1]
        /\ actual_length' = [actual_length EXCEPT ![lo] = @ + 1]
        /\ IF actual_length[lo] + 1 = UrbLength THEN Receive(lo, "ok") ELSE UNCHANGED <<urb_status, ready>>
    BY <1>1 DEF KernelReceives
  <1>3. CASE actual_length[lo] + 1 = UrbLength
    <2>1. Ends(lo, 0, "ok") /\ Queued' = lo + 0 + 1 .. hi - 1
      BY <1>1, <1>2, <1>3, ReceiveFacts
    <2>2. lo + 0 + 1 = lo + 1
      OBVIOUS
    <2> QED BY <1>1, <1>2, <1>3, <2>1, <2>2 DEF Off
  <1>4. CASE actual_length[lo] + 1 # UrbLength
    BY <1>1, <1>2, <1>4 DEF Off, Queued
  <1> QED BY <1>3, <1>4

LEMMA KernelEndsFacts ==
    ASSUME KernelOK, NEW lo \in 0 .. NumUrbs, NEW hi \in 0 .. NumUrbs, Queued = lo .. hi - 1,
           KernelEnds
    PROVE  /\ lo < hi /\ lo \in Urbs /\ urb_status[lo] = "queued"
           /\ \E s \in EarlyEnds : \E n \in Nat :
                /\ Ends(lo, n, s) /\ Queued' = lo + n + 1 .. hi - 1
                /\ mode = "continuation" => Queued' = {}
                /\ s = "stall" => halted'
                /\ halted => halted'
           /\ halted' \in BOOLEAN
  <1>1. lo < hi /\ lo \in Urbs /\ Min(Queued) = lo /\ urb_status[lo] = "queued"
    BY QueueHead DEF KernelEnds
  <1>2. PICK s \in EarlyEnds : /\ Receive(lo, s)
                               /\ halted' = (halted \/ s = "stall")
    BY <1>1 DEF KernelEnds, EarlyEnds
  <1> DEFINE n == IF mode = "continuation" /\ s # "ok" THEN hi - lo - 1 ELSE 0
  <1>3. Ends(lo, n, s) /\ Queued' = lo + n + 1 .. hi - 1
    BY <1>1, <1>2, ReceiveFacts
  <1>4. n \in Nat /\ (mode = "continuation" => n = hi - lo - 1)
    BY <1>1, Constants DEF EarlyEnds
  <1> HIDE DEF n
  <1>5. mode = "continuation" => Queued' = {}
    BY <1>3, <1>4, Constants
  <1>6. halted' \in BOOLEAN
    BY <1>2, Zenon
  <1>7. s = "stall" => halted'
    BY <1>2
  <1>8. halted => halted'
    BY <1>2
  <1> QED BY <1>1, <1>3, <1>4, <1>5, <1>6, <1>7, <1>8

\* A step that reaps takes the first of the list.
LEMMA ReapFacts ==
    ASSUME KernelOK, Reap
    PROVE  /\ \E i \in Urbs :
                /\ ready[1] = i /\ Len(ready) > 0
                /\ transferred' = transferred + actual_length[i]
                /\ buffer' = buffer \/ (reap_action # "NORMAL" /\ buffer' = Surplus(i))
                /\ ReapAbnormal(i) \/ ReapNormal(i) \/ ReapShort(i) \/ ReapFailed(i)
           /\ ready' \in Seq(Urbs) /\ Len(ready') = Len(ready) - 1
           /\ \A k \in 1 .. Len(ready) - 1 : ready'[k] = ready[k + 1]
           /\ num_retired' = num_retired + 1
           /\ job = "none" /\ reported = "no"
           /\ UNCHANGED <<mode, urb_status, actual_length, sent, halted, next, cancelling>>
           /\ Queued' = Queued
  <1>1. PICK i \in Urbs : ReapAbnormal(i) \/ ReapNormal(i) \/ ReapShort(i) \/ ReapFailed(i)
    BY DEF Reap
  <1>2. Retire(i)
    BY <1>1 DEF ReapAbnormal, ReapNormal, ReapShort, ReapFailed
  <1>3. buffer' = buffer \/ (reap_action # "NORMAL" /\ buffer' = Surplus(i))
    BY <1>1 DEF ReapAbnormal, ReapNormal, ReapShort, ReapFailed
  <1>4. /\ ready[1] = i /\ Len(ready) > 0
        /\ ready' \in Seq(Urbs) /\ Len(ready') = Len(ready) - 1
        /\ \A k \in 1 .. Len(ready) - 1 : ready'[k] = ready[k + 1]
    BY <1>2 DEF Retire, KernelOK
  <1> QED BY <1>1, <1>2, <1>3, <1>4 DEF Retire, Queued

\* The job that a reaping step leaves.
LEMMA ReapJob ==
    ASSUME NEW i \in Urbs, ReapAbnormal(i) \/ ReapNormal(i) \/ ReapShort(i) \/ ReapFailed(i)
    PROVE  \/ UNCHANGED <<job, todo, last, found>>
           \/ /\ job' = "discard" /\ todo' = i + 1 .. LastUrb /\ last' = LastUrb /\ found' = TRUE
              /\ reap_action = "NORMAL" /\ reported' = reported /\ num_retired' # NumUrbs
              /\ ReapShort(i) \/ ReapFailed(i)
  BY DEF ReapAbnormal, ReapNormal, ReapShort, ReapFailed, WaitForRest, AllRetired

-----------------------------------------------------------------------------
(***************************************************************************)
(* The types are kept.                                                     *)
(***************************************************************************)
LEMMA SurplusOK ==
    ASSUME KernelOK, XferOK, NEW i \in Urbs
    PROVE  Surplus(i) \in [1 .. Length -> Nat]
  <1> SUFFICES ASSUME NEW k \in 1 .. Length, k - transferred \in 1 .. actual_length[i]
               PROVE  buffer[Off(i) + k - transferred] \in Nat
    BY DEF Surplus, KernelOK, Off
  <1>1. actual_length[i] \in 0 .. UrbLength /\ Off(i) \in Nat /\ Off(i) + UrbLength <= Length
    BY OffFacts DEF KernelOK
  <1>2. Off(i) + k - transferred \in 1 .. Length
    BY <1>1, Constants DEF XferOK
  <1> QED BY <1>2 DEF KernelOK

LEMMA KernelStep ==
    ASSUME TypeInv, UrbInv, CountInv, JobInv, [Next]_vars
    PROVE  KernelOK'
  <1>0. KernelOK /\ XferOK
    BY DEF TypeInv
  <1>1. PICK lo, hi \in 0 .. NumUrbs : lo <= hi /\ Queued = lo .. hi - 1
    BY DEF CountInv, Counted
  <1>2. CASE KernelReceives
    <2>1. /\ lo \in Urbs /\ urb_status[lo] = "queued"
          /\ sent' = sent + 1
          /\ buffer' = [buffer EXCEPT ![Off(lo) + actual_length[lo] + 1] = sent + 1]
          /\ actual_length' = [actual_length EXCEPT ![lo] = @ + 1]
          /\ IF actual_length[lo] + 1 = UrbLength
                THEN Ends(lo, 0, "ok") ELSE UNCHANGED <<urb_status, ready>>
          /\ UNCHANGED <<mode, halted>>
      BY <1>0, <1>1, <1>2, ReceivesFacts DEF KernelReceives
    <2>2. actual_length[lo] \in 0 .. UrbLength - 1
      BY <1>0, <2>1, Constants DEF UrbInv, KernelOK
    <2>3. actual_length' \in [Urbs -> 0 .. UrbLength]
      BY <1>0, <2>1, <2>2, Constants DEF KernelOK
    <2>4. halted' \in BOOLEAN
      BY <1>0, <2>1, Zenon DEF KernelOK
    <2>5. buffer' \in [1 .. Length -> Nat] /\ sent' \in Nat
      <3>1. sent \in Nat /\ sent' = sent + 1 /\ buffer \in [1 .. Length -> Nat]
        BY <1>0, <2>1 DEF KernelOK
      <3>2. sent + 1 \in Nat
        BY <3>1
      <3>3. PICK p, n : buffer' = [buffer EXCEPT ![p] = n] /\ n = sent + 1
        BY <2>1
      <3> QED BY <3>1, <3>2, <3>3
    <2>6. urb_status' \in [Urbs -> Finished \cup {"new", "queued"}] /\ ready' \in Seq(Urbs)
      BY <1>0, <2>1 DEF KernelOK, Ends
    <2> QED BY <1>0, <2>1, <2>3, <2>4, <2>5, <2>6 DEF KernelOK
  <1>3. CASE KernelEnds
    <2>1. halted' \in BOOLEAN /\ \E s, n : Ends(lo, n, s)
      BY <1>0, <1>1, <1>3, KernelEndsFacts, Zenon
    <2>2. UNCHANGED <<mode, actual_length, sent, buffer>>
      BY <1>3 DEF KernelEnds
    <2> QED BY <1>0, <2>1, <2>2 DEF KernelOK, Ends
  <1>4. CASE SubmitUrb
    <2>1. urb_status' \in [Urbs -> Finished \cup {"new", "queued"}]
      BY <1>0, <1>4 DEF SubmitUrb, KernelOK
    <2> QED BY <1>0, <1>4, <2>1 DEF SubmitUrb, KernelOK
  <1>5. CASE SubmitEndsEarly \/ SubmitFails \/ DiscardEnds \/ Cancel
    BY <1>0, <1>5 DEF SubmitEndsEarly, SubmitFails, DiscardEnds, Cancel, KernelOK
  <1>6. CASE DiscardUrb
    <2>1. \/ \E i : Ends(i, 0, "discarded")
          \/ UNCHANGED <<urb_status, ready>>
      BY <1>1, <1>6, DiscardFacts DEF JobInv
    <2> QED BY <1>0, <1>6, <2>1 DEF DiscardUrb, KernelOK, Ends
  <1>7. CASE Reap
    <2>1. PICK i \in Urbs : buffer' = buffer \/ buffer' = Surplus(i)
      BY <1>0, <1>7, ReapFacts
    <2>2. buffer' \in [1 .. Length -> Nat]
      BY <1>0, <2>1, SurplusOK DEF KernelOK
    <2> QED BY <1>0, <1>7, <2>2, ReapFacts DEF KernelOK
  <1>8. CASE UNCHANGED vars
    BY <1>0, <1>8 DEF vars, KernelOK
  <1> QED BY <1>2, <1>3, <1>4, <1>5, <1>6, <1>7, <1>8 DEF Next, Work, Idle

LEMMA XferStep == ASSUME TypeInv, [Next]_vars PROVE XferOK'
  <1>0. KernelOK /\ XferOK /\ next \in 0 .. NumUrbs
    BY DEF TypeInv, JobOK
  <1>1. CASE SubmitUrb \/ SubmitEndsEarly \/ SubmitFails
    BY <1>0, <1>1, Constants DEF SubmitUrb, SubmitEndsEarly, SubmitFails, CountRest, XferOK
  <1>2. CASE DiscardUrb \/ DiscardEnds \/ Cancel
    BY <1>0, <1>2 DEF DiscardUrb, DiscardEnds, Cancel, XferOK
  <1>3. CASE KernelReceives \/ KernelEnds \/ UNCHANGED vars
    BY <1>0, <1>3 DEF KernelReceives, KernelEnds, vars, XferOK
  <1>4. CASE Reap
    <2>1. PICK i \in Urbs : /\ transferred' = transferred + actual_length[i]
                            /\ ReapAbnormal(i) \/ ReapNormal(i) \/ ReapShort(i) \/ ReapFailed(i)
      BY <1>0, <1>4, ReapFacts
    <2>2. transferred' \in Nat /\ num_retired' \in Nat /\ cancelling' = cancelling
      <3>1. actual_length[i] \in Nat
        BY <1>0, Constants DEF KernelOK
      <3>2. num_retired' = num_retired + 1 /\ cancelling' = cancelling
        BY <1>0, <1>4, ReapFacts
      <3> QED BY <1>0, <2>1, <3>1, <3>2 DEF XferOK
    <2>3. CASE ReapAbnormal(i)
      BY <1>0, <2>2, <2>3 DEF ReapAbnormal, Report, XferOK
    <2>4. CASE ReapNormal(i)
      BY <1>0, <2>2, <2>4 DEF ReapNormal, Report, XferOK
    <2>5. CASE ReapShort(i)
      BY <1>0, <2>2, <2>5 DEF ReapShort, WaitForRest, Report, XferOK
    <2>6. CASE ReapFailed(i)
      BY <1>0, <2>2, <2>6 DEF ReapFailed, WaitForRest, Report, XferOK
    <2> QED BY <2>1, <2>3, <2>4, <2>5, <2>6
  <1> QED BY <1>1, <1>2, <1>3, <1>4 DEF Next, Work, Idle

LEMMA JobStep == ASSUME TypeInv, CountInv, JobInv, [Next]_vars PROVE JobOK'
  <1>0. KernelOK /\ JobOK
    BY DEF TypeInv
  <1>1. PICK lo, hi \in 0 .. NumUrbs : lo <= hi /\ Queued = lo .. hi - 1
    BY DEF CountInv, Counted
  <1>2. CASE SubmitUrb
    BY <1>0, <1>2, Constants DEF SubmitUrb, JobOK
  <1>3. CASE SubmitEndsEarly
    BY <1>0, <1>3 DEF SubmitEndsEarly, JobOK
  <1>4. CASE SubmitFails
    <2>1. /\ job' = "discard" /\ next' = next /\ found' = TRUE
          /\ todo' = 0 .. next - 1 /\ last' = next - 1 /\ next > 0
      BY <1>4 DEF SubmitFails
    <2>2. todo' \subseteq Urbs /\ last' \in Urbs /\ next - 1 \in Int
      BY <1>0, <2>1, Constants DEF JobOK
    <2>3. \E a, b \in Int : todo' = a .. b
      BY <2>1, <2>2
    <2> QED BY <1>0, <2>1, <2>2, <2>3 DEF JobOK
  <1>5. CASE DiscardUrb
    <2>1. PICK i \in Urbs : /\ todo' = todo \ {i} /\ \E a, b \in Int : todo' = a .. b
                            /\ found' = found \/ found' = (found /\ i # last)
      BY <1>1, <1>5, DiscardFacts DEF JobInv
    <2>2. found' \in BOOLEAN
      BY <1>0, <2>1, Zenon DEF JobOK
    <2> QED BY <1>0, <1>5, <2>1, <2>2 DEF DiscardUrb, JobOK
  <1>6. CASE DiscardEnds
    BY <1>0, <1>6 DEF DiscardEnds, JobOK
  <1>7. CASE Cancel
    <2>1. \E a, b \in Int : todo' = a .. b
      BY <1>7, Constants DEF Cancel
    <2> QED BY <1>0, <1>7, <2>1, Constants DEF Cancel, JobOK
  <1>8. CASE Reap
    <2>1. PICK i \in Urbs : ReapAbnormal(i) \/ ReapNormal(i) \/ ReapShort(i) \/ ReapFailed(i)
      BY <1>8 DEF Reap
    <2>2. job = "none" /\ next' = next
      BY <1>0, <1>8, ReapFacts
    <2>3. CASE UNCHANGED <<job, todo, last, found>>
      BY <1>0, <2>2, <2>3 DEF JobOK
    <2>4. CASE job' = "discard" /\ todo' = i + 1 .. LastUrb /\ last' = LastUrb /\ found' = TRUE
      <3>1. \E a, b \in Int : todo' = a .. b
        BY <2>4, Constants
      <3> QED BY <1>0, <2>2, <2>4, <3>1, Constants DEF JobOK
    <2> QED BY <2>1, <2>3, <2>4, ReapJob
  <1>9. CASE KernelReceives \/ KernelEnds \/ UNCHANGED vars
    BY <1>0, <1>9 DEF KernelReceives, KernelEnds, vars, JobOK
  <1> QED BY <1>2, <1>3, <1>4, <1>5, <1>6, <1>7, <1>8, <1>9 DEF Next, Work, Idle

-----------------------------------------------------------------------------
(***************************************************************************)
(* The URBs.                                                               *)
(***************************************************************************)
\* Steps that end URBs without data of theirs.
LEMMA UrbEnds ==
    ASSUME TypeInv, UrbInv, NEW i, NEW n, NEW s, Ends(i, n, s),
           s \in EarlyEnds \cup {"discarded"},
           s = "stall" => halted',
           halted => halted',
           UNCHANGED <<mode, actual_length, next>>
    PROVE  UrbInv'
  <1>1. ASSUME NEW j \in Urbs, j \in i .. i + n PROVE urb_status[j] = "queued" /\ j < next
    BY <1>1 DEF Ends, Queued, UrbInv, TypeInv, JobOK, Urbs
  <1>2. ASSUME NEW j \in Urbs
        PROVE  /\ j >= next' <=> urb_status'[j] = "new"
               /\ urb_status'[j] = "new" => actual_length'[j] = 0
               /\ urb_status'[j] = "queued" => actual_length'[j] < UrbLength /\ NothingBehind(j)'
               /\ urb_status'[j] = "ok" => actual_length'[j] = UrbLength
               /\ urb_status'[j] \in EarlyEnds => actual_length'[j] < UrbLength
               /\ urb_status'[j] = "stall" => halted' /\ NothingBehind(j)'
    <2>0. NothingBehind(j)' <=> NothingBehind(j)
      BY DEF NothingBehind
    <2>1. CASE j = i
      <3>1. urb_status'[j] = s /\ urb_status[j] = "queued" /\ j < next
        BY <1>1, <2>1, Constants DEF Ends
      <3>2. actual_length[j] < UrbLength /\ NothingBehind(j)
        BY <3>1 DEF UrbInv
      <3>3. ~(j >= next)
        BY <3>1, Constants DEF TypeInv, JobOK
      <3> QED BY <2>0, <3>1, <3>2, <3>3 DEF EarlyEnds
    <2>2. CASE j \in i + 1 .. i + n
      <3>1. j \in i .. i + n /\ j # i
        BY <2>2, Constants DEF Ends
      <3>2. urb_status'[j] = "discarded" /\ j < next
        BY <1>1, <2>2, <3>1 DEF Ends
      <3>3. ~(j >= next)
        BY <3>2, Constants DEF TypeInv, JobOK
      <3> QED BY <3>2, <3>3 DEF EarlyEnds
    <2>3. CASE j # i /\ j \notin i + 1 .. i + n
      <3>1. urb_status'[j] = urb_status[j]
        BY <2>3 DEF Ends
      <3>2. /\ j >= next <=> urb_status[j] = "new"
            /\ urb_status[j] = "new" => actual_length[j] = 0
            /\ urb_status[j] = "queued" => actual_length[j] < UrbLength /\ NothingBehind(j)
            /\ urb_status[j] = "ok" => actual_length[j] = UrbLength
            /\ urb_status[j] \in EarlyEnds => actual_length[j] < UrbLength
            /\ urb_status[j] = "stall" => halted /\ NothingBehind(j)
        BY DEF UrbInv
      <3> QED BY <2>0, <3>1, <3>2
    <2> QED BY <2>1, <2>2, <2>3
  <1> QED BY <1>2 DEF UrbInv

LEMMA UrbStep ==
    ASSUME TypeInv, UrbInv, EndedInv, CountInv, JobInv, [Next]_vars
    PROVE  UrbInv' /\ EndedInv'
  <1>0. KernelOK
    BY DEF TypeInv
  <1>1. PICK lo, hi \in 0 .. NumUrbs : lo <= hi /\ Queued = lo .. hi - 1
    BY DEF CountInv, Counted
  <1>2. CASE KernelReceives
    <2>1. /\ lo \in Urbs /\ urb_status[lo] = "queued"
          /\ actual_length' = [actual_length EXCEPT ![lo] = @ + 1]
          /\ IF actual_length[lo] + 1 = UrbLength
                THEN Ends(lo, 0, "ok") ELSE UNCHANGED <<urb_status, ready>>
          /\ UNCHANGED <<mode, halted, next>>
      BY <1>0, <1>1, <1>2, ReceivesFacts DEF KernelReceives
    <2>2. /\ actual_length'[lo] = actual_length[lo] + 1
          /\ \A j \in Urbs \ {lo} : actual_length'[j] = actual_length[j]
          /\ actual_length[lo] \in Nat /\ actual_length[lo] < UrbLength
      BY <1>0, <2>1, Constants DEF KernelOK, UrbInv
    <2>3. \A j \in Urbs \ {lo} : urb_status'[j] = urb_status[j]
      BY <2>1, Constants DEF Ends
    <2>4. IF actual_length[lo] + 1 = UrbLength
            THEN urb_status'[lo] = "ok" ELSE urb_status'[lo] = "queued"
      BY <2>1 DEF Ends
    <2>5. ~(mode = "continuation" /\ Broken) /\ ~halted
      BY <1>2, <2>1 DEF EndedInv, Queued, KernelReceives
    <2>6. NothingBehind(lo) /\ lo < next
      BY <2>1, Constants DEF UrbInv, TypeInv, JobOK
    <2>7. NothingBehind(lo)'
      BY <2>2, <2>6, Constants DEF NothingBehind
    <2>8. ASSUME NEW j \in Urbs \ {lo}
          PROVE  /\ j >= next' <=> urb_status'[j] = "new"
                 /\ urb_status'[j] = "new" => actual_length'[j] = 0
                 /\ urb_status'[j] = "queued" => actual_length'[j] < UrbLength /\ NothingBehind(j)'
                 /\ urb_status'[j] = "ok" => actual_length'[j] = UrbLength
                 /\ urb_status'[j] \in EarlyEnds => actual_length'[j] < UrbLength
                 /\ urb_status'[j] = "stall" => halted' /\ NothingBehind(j)'
      <3>1. /\ j >= next <=> urb_status[j] = "new"
            /\ urb_status[j] = "new" => actual_length[j] = 0
            /\ urb_status[j] = "queued" => actual_length[j] < UrbLength
            /\ urb_status[j] = "ok" => actual_length[j] = UrbLength
            /\ urb_status[j] \in EarlyEnds => actual_length[j] < UrbLength
            /\ urb_status[j] # "stall"
        BY <2>5 DEF UrbInv
      <3>2. urb_status[j] = "queued" => NothingBehind(j)'
        <4>1. urb_status[j] = "queued" => j > lo
          BY <1>1, Constants DEF Queued
        <4> QED BY <2>7, <4>1, Constants DEF NothingBehind
      <3> QED BY <2>1, <2>2, <2>3, <3>1, <3>2
    <2>9. UrbInv'
      <3>1. ~(lo >= next')
        BY <2>1, <2>6, Constants DEF TypeInv, JobOK
      <3>2. actual_length'[lo] < UrbLength \/ actual_length'[lo] = UrbLength
        BY <2>2, Constants
      <3>3. CASE actual_length[lo] + 1 = UrbLength
        BY <2>2, <2>4, <2>8, <3>1, <3>3 DEF UrbInv, EarlyEnds
      <3>4. CASE actual_length[lo] + 1 # UrbLength
        <4>1. actual_length'[lo] < UrbLength
          BY <2>2, <3>4, Constants
        <4> QED BY <2>4, <2>7, <2>8, <3>1, <3>4, <4>1 DEF UrbInv, EarlyEnds
      <3> QED BY <3>3, <3>4
    <2>10. Broken' => Broken
      BY <2>3, <2>4 DEF Broken
    <2> QED BY <2>1, <2>5, <2>9, <2>10 DEF EndedInv
  <1>3. CASE KernelEnds
    <2>1. PICK s \in EarlyEnds : \E n \in Nat :
              /\ Ends(lo, n, s)
              /\ mode = "continuation" => Queued' = {}
              /\ s = "stall" => halted'
              /\ halted => halted'
      BY <1>0, <1>1, <1>3, KernelEndsFacts
    <2>2. UNCHANGED <<mode, actual_length, next>>
      BY <1>3 DEF KernelEnds
    <2>3. UrbInv'
      BY <2>1, <2>2, UrbEnds
    <2> QED BY <2>1, <2>2, <2>3 DEF EndedInv
  <1>4. CASE SubmitUrb
    <2>1. /\ urb_status' = [urb_status EXCEPT ![next] = "queued"] /\ next' = next + 1
          /\ ~(mode = "continuation" /\ Broken)
          /\ UNCHANGED <<mode, halted, actual_length>>
      BY <1>4 DEF SubmitUrb
    <2>2. next \in Urbs
      BY <1>4, Constants DEF SubmitUrb, TypeInv, JobOK
    <2>3. urb_status'[next] = "queued" /\ \A j \in Urbs \ {next} : urb_status'[j] = urb_status[j]
      BY <1>0, <2>1, <2>2 DEF KernelOK
    <2>4. actual_length[next] = 0 /\ NothingBehind(next)
      BY <2>2, Constants DEF UrbInv, NothingBehind
    <2>5. \A j \in Urbs : NothingBehind(j)' <=> NothingBehind(j)
      BY <2>1 DEF NothingBehind
    <2>6. UrbInv'
      BY <2>1, <2>2, <2>3, <2>4, <2>5, Constants DEF UrbInv, EarlyEnds
    <2>7. Broken' => Broken
      BY <2>2, <2>3 DEF Broken
    <2> QED BY <2>1, <2>6, <2>7 DEF EndedInv
  <1>5. CASE DiscardUrb
    <2>1. UNCHANGED <<mode, actual_length, halted, next>>
      BY <1>5 DEF DiscardUrb
    <2>2. CASE UNCHANGED <<urb_status, ready>>
      BY <2>1, <2>2 DEF UrbInv, EndedInv, NothingBehind, Broken, Queued
    <2>3. CASE \E i : Ends(i, 0, "discarded")
      <3>1. PICK i : Ends(i, 0, "discarded")
        BY <2>3
      <3>2. UrbInv'
        BY <2>1, <3>1, UrbEnds
      <3>3. Queued' \subseteq Queued
        BY <1>0, <3>1, EndsQueue
      <3>4. Broken' => Broken
        BY <3>1 DEF Broken, Ends
      <3> QED BY <2>1, <3>2, <3>3, <3>4 DEF EndedInv
    <2> QED BY <1>1, <1>5, <2>2, <2>3, DiscardFacts DEF JobInv
  <1>6. CASE \/ SubmitEndsEarly \/ SubmitFails \/ DiscardEnds \/ Cancel \/ Reap \/ UNCHANGED vars
    <2>1. UNCHANGED <<mode, urb_status, actual_length, halted, next>>
      BY <1>0, <1>6, ReapFacts DEF SubmitEndsEarly, SubmitFails, DiscardEnds, Cancel, vars
    <2> QED BY <2>1 DEF UrbInv, EndedInv, NothingBehind, Broken, Queued
  <1> QED BY <1>2, <1>3, <1>4, <1>5, <1>6 DEF Next, Work, Idle

-----------------------------------------------------------------------------
(***************************************************************************)
(* The list of URBs to reap, and their number.                             *)
(***************************************************************************)
LEMMA ReadyEnds ==
    ASSUME TypeInv, UrbInv, ReadyInv, NEW i, NEW n, NEW s, Ends(i, n, s),
           \A j \in Urbs \ {i} : actual_length'[j] = actual_length[j]
    PROVE  ReadyInv'
  <1> DEFINE N == Len(ready)
             m(k) == i + (k - N - 1)
  <1>0. ready \in Seq(Urbs)
    BY DEF TypeInv, KernelOK
  <1>1. /\ N \in Nat /\ n \in Nat /\ i \in Urbs /\ i \in Nat /\ Len(ready') = N + 1 + n
        /\ \A k \in 1 .. N : ready[k] \in Urbs
    BY <1>0, Constants DEF Ends
  <1>4. ASSUME NEW j \in i .. i + n
        PROVE  j \in Urbs /\ urb_status[j] = "queued" /\ urb_status'[j] \in Finished
    <2>1. j \in Urbs /\ urb_status[j] = "queued"
      BY DEF Ends, Queued
    <2>2. CASE j = i
      BY <2>1, <2>2 DEF Ends
    <2>3. CASE j # i
      <3>1. j \in i + 1 .. i + n
        BY <1>1, <2>3
      <3> QED BY <2>1, <2>3, <3>1 DEF Ends, Finished
    <2> QED BY <2>1, <2>2, <2>3
  <1>2. \A k \in 1 .. N : /\ ready'[k] = ready[k] /\ urb_status[ready[k]] \in Finished
                          /\ ready[k] \notin i .. i + n
    BY <1>1, <1>4 DEF Ends, ReadyInv, Finished, EarlyEnds
  <1>3. \A k \in N + 1 .. N + 1 + n : ready'[k] = m(k) /\ m(k) \in i .. i + n
    BY <1>1 DEF Ends
  <1>5. NothingBehind(i)
    <2>1. i \in i .. i + n
      BY <1>1
    <2> QED BY <1>1, <1>4, <2>1 DEF UrbInv
  <1>6. ASSUME NEW k \in 1 .. N PROVE urb_status'[ready'[k]] \in Finished /\ actual_length'[ready[k]] = actual_length[ready[k]]
    <2>1. ready[k] \in Urbs /\ ready'[k] = ready[k] /\ ready[k] \notin i .. i + n
      BY <1>1, <1>2
    <2>2. ready[k] # i /\ ready[k] \notin i + 1 .. i + n
      <3>1. \A j \in i + 1 .. i + n : j \in i .. i + n
        BY <1>1
      <3> QED BY <1>1, <2>1, <3>1
    <2>3. urb_status'[ready[k]] = urb_status[ready[k]]
      BY <2>1, <2>2 DEF Ends
    <2> QED BY <1>2, <2>1, <2>2, <2>3
  <1> HIDE DEF N
  <1>7. ASSUME NEW k \in 1 .. Len(ready') PROVE urb_status'[ready'[k]] \in Finished
    <2>1. k \in 1 .. N \/ k \in N + 1 .. N + 1 + n
      BY <1>1
    <2> QED BY <1>3, <1>4, <1>6, <2>1
  <1>8. ASSUME NEW k \in 1 .. Len(ready'), NEW l \in 1 .. Len(ready'), k < l
        PROVE  /\ ready'[k] # ready'[l]
               /\ actual_length'[ready'[k]] > 0 /\ actual_length'[ready'[l]] > 0 => ready'[k] < ready'[l]
    <2>1. CASE l \in 1 .. N
      <3>1. k \in 1 .. N
        BY <1>1, <1>8, <2>1
      <3>2. /\ ready[k] # ready[l]
            /\ actual_length[ready[k]] > 0 /\ actual_length[ready[l]] > 0 => ready[k] < ready[l]
        BY <1>8, <2>1, <3>1 DEF ReadyInv, N
      <3>3. /\ ready'[k] = ready[k] /\ actual_length'[ready[k]] = actual_length[ready[k]]
            /\ ready'[l] = ready[l] /\ actual_length'[ready[l]] = actual_length[ready[l]]
        BY <1>2, <1>6, <2>1, <3>1
      <3> QED BY <3>2, <3>3
    <2>2. CASE l \notin 1 .. N /\ k \in 1 .. N
      <3>1. l \in N + 1 .. N + 1 + n
        BY <1>1, <2>2
      <3>2. ready'[k] # ready'[l]
        BY <1>2, <1>3, <2>2, <3>1
      <3>3. ASSUME actual_length'[ready'[k]] > 0, actual_length'[ready'[l]] > 0
            PROVE  ready'[k] < ready'[l]
        <4>1. ready'[l] = i
          <5>1. ready'[l] \in i .. i + n /\ ready'[l] \in Urbs
            BY <1>3, <1>4, <3>1
          <5>2. ready'[l] > i => actual_length'[ready'[l]] = 0
            BY <1>5, <5>1 DEF NothingBehind
          <5> QED BY <1>1, <3>3, <5>1, <5>2
        <4>2. actual_length[ready[k]] > 0 /\ ready[k] \in Urbs /\ ready[k] # i
          <5>1. i \in i .. i + n
            BY <1>1
          <5> QED BY <1>1, <1>2, <1>6, <2>2, <3>3, <5>1
        <4>3. ~(ready[k] > i)
          BY <1>5, <4>2 DEF NothingBehind
        <4>4. ready[k] \in Nat
          BY <4>2, Constants
        <4> QED BY <1>1, <1>2, <2>2, <4>1, <4>2, <4>3, <4>4
      <3> QED BY <3>2, <3>3
    <2>3. CASE l \notin 1 .. N /\ k \notin 1 .. N
      <3>1. k \in N + 1 .. N + 1 + n /\ l \in N + 1 .. N + 1 + n
        BY <1>1, <2>3
      <3>2. ready'[k] = m(k) /\ ready'[l] = m(l)
        BY <1>3, <3>1
      <3> QED BY <1>1, <1>8, <3>1, <3>2
    <2> QED BY <2>1, <2>2, <2>3
  <1> QED BY <1>7, <1>8 DEF ReadyInv

LEMMA ReadyStep ==
    ASSUME TypeInv, UrbInv, ReadyInv, CountInv, JobInv, [Next]_vars
    PROVE  ReadyInv'
  <1>0. KernelOK
    BY DEF TypeInv
  <1>1. PICK lo, hi \in 0 .. NumUrbs : lo <= hi /\ Queued = lo .. hi - 1
    BY DEF CountInv, Counted
  <1>2. \A k \in 1 .. Len(ready) : ready[k] \in Urbs /\ urb_status[ready[k]] \in Finished
    BY <1>0 DEF KernelOK, ReadyInv
  <1>3. CASE KernelReceives
    <2>1. /\ lo \in Urbs /\ urb_status[lo] = "queued"
          /\ actual_length' = [actual_length EXCEPT ![lo] = @ + 1]
          /\ IF actual_length[lo] + 1 = UrbLength
                THEN Ends(lo, 0, "ok") ELSE UNCHANGED <<urb_status, ready>>
      BY <1>0, <1>1, <1>3, ReceivesFacts
    <2>2. \A j \in Urbs \ {lo} : actual_length'[j] = actual_length[j]
      BY <1>0, <2>1 DEF KernelOK
    <2>3. CASE Ends(lo, 0, "ok")
      BY <2>2, <2>3, ReadyEnds
    <2>4. CASE UNCHANGED <<urb_status, ready>>
      <3>1. \A k \in 1 .. Len(ready) : ready[k] # lo
        BY <1>2, <2>1 DEF Finished, EarlyEnds
      <3> QED BY <1>2, <2>2, <2>4, <3>1 DEF ReadyInv
    <2> QED BY <2>1, <2>3, <2>4
  <1>4. CASE KernelEnds
    <2>1. (\E s, n : Ends(lo, n, s)) /\ actual_length' = actual_length
      <3>1. \E s, n : Ends(lo, n, s)
        BY <1>0, <1>1, <1>4, KernelEndsFacts
      <3> QED BY <1>4, <3>1 DEF KernelEnds
    <2> QED BY <2>1, ReadyEnds
  <1>5. CASE SubmitUrb
    <2>1. next \in Urbs /\ urb_status[next] = "new"
      BY <1>5, Constants DEF SubmitUrb, TypeInv, JobOK, UrbInv
    <2>2. \A j \in Urbs \ {next} : urb_status'[j] = urb_status[j]
      BY <1>0, <1>5 DEF SubmitUrb, KernelOK
    <2>3. \A k \in 1 .. Len(ready) : ready[k] # next
      BY <1>2, <2>1 DEF Finished, EarlyEnds
    <2> QED BY <1>2, <1>5, <2>2, <2>3 DEF ReadyInv, SubmitUrb
  <1>6. CASE DiscardUrb
    <2>1. actual_length' = actual_length
      BY <1>6 DEF DiscardUrb
    <2>2. (\E i : Ends(i, 0, "discarded")) \/ UNCHANGED <<urb_status, ready>>
      BY <1>1, <1>6, DiscardFacts DEF JobInv
    <2>3. CASE UNCHANGED <<urb_status, ready>>
      BY <2>1, <2>3 DEF ReadyInv
    <2> QED BY <2>1, <2>2, <2>3, ReadyEnds
  <1>7. CASE Reap
    <2>1. /\ Len(ready') = Len(ready) - 1 /\ Len(ready) \in Nat
          /\ \A k \in 1 .. Len(ready) - 1 : ready'[k] = ready[k + 1]
          /\ UNCHANGED <<urb_status, actual_length>>
      BY <1>0, <1>7, ReapFacts DEF KernelOK
    <2>2. \A k \in 1 .. Len(ready') : k + 1 \in 1 .. Len(ready) /\ ready'[k] = ready[k + 1]
      BY <2>1
    <2>3. \A k, l \in 1 .. Len(ready') : k < l => k + 1 < l + 1
      BY <2>1
    <2>4. ASSUME NEW k \in 1 .. Len(ready') PROVE urb_status'[ready'[k]] \in Finished
      BY <1>2, <2>1, <2>2
    <2>5. ASSUME NEW k \in 1 .. Len(ready'), NEW l \in 1 .. Len(ready'), k < l
          PROVE  /\ ready'[k] # ready'[l]
                 /\ actual_length'[ready'[k]] > 0 /\ actual_length'[ready'[l]] > 0 => ready'[k] < ready'[l]
      <3>1. /\ k + 1 \in 1 .. Len(ready) /\ ready'[k] = ready[k + 1]
            /\ l + 1 \in 1 .. Len(ready) /\ ready'[l] = ready[l + 1] /\ k + 1 < l + 1
        BY <2>2, <2>3, <2>5
      <3> QED BY <2>1, <3>1 DEF ReadyInv
    <2> QED BY <2>4, <2>5 DEF ReadyInv
  <1>8. CASE SubmitEndsEarly \/ SubmitFails \/ DiscardEnds \/ Cancel \/ UNCHANGED vars
    <2>1. UNCHANGED <<urb_status, actual_length, ready>>
      BY <1>8 DEF SubmitEndsEarly, SubmitFails, DiscardEnds, Cancel, vars
    <2> QED BY <2>1 DEF ReadyInv
  <1> QED BY <1>3, <1>4, <1>5, <1>6, <1>7, <1>8 DEF Next, Work, Idle

LEMMA CountStep ==
    ASSUME TypeInv, UrbInv, CountInv, JobInv, OrderInv, StallInv, [Next]_vars
    PROVE  CountInv'
  <1> USE Constants
  <1>0. /\ KernelOK /\ num_retired \in Nat /\ Len(ready) \in Nat /\ next \in 0 .. NumUrbs
        /\ job = "submit" => next < NumUrbs
    BY DEF TypeInv, XferOK, KernelOK, JobOK
  <1>1. PICK lo, hi \in 0 .. NumUrbs : Counted(lo, hi)
    BY DEF CountInv
  <1>2. lo <= hi /\ hi <= next /\ Queued = lo .. hi - 1 /\ num_retired + (hi - lo) + Len(ready) = Total
    BY <1>1 DEF Counted
  <1>3. CASE KernelReceives
    <2>1. /\ lo < hi /\ UNCHANGED <<num_retired, next, job>>
          /\ \/ Ends(lo, 0, "ok") /\ Queued' = lo + 1 .. hi - 1
             \/ UNCHANGED <<ready, Queued>>
      BY <1>0, <1>2, <1>3, ReceivesFacts DEF KernelReceives
    <2>2. CASE UNCHANGED <<ready, Queued>>
      BY <1>1, <2>1, <2>2 DEF CountInv, Counted, Total
    <2>3. CASE Ends(lo, 0, "ok") /\ Queued' = lo + 1 .. hi - 1
      <3>1. Len(ready') = Len(ready) + 1
        BY <1>0, <2>3 DEF Ends
      <3>2. lo + 1 \in 0 .. NumUrbs /\ Counted(lo + 1, hi)'
        BY <1>0, <1>2, <2>1, <2>3, <3>1 DEF Counted, Total
      <3> QED BY <3>2 DEF CountInv
    <2> QED BY <2>1, <2>2, <2>3
  <1>4. CASE KernelEnds
    <2>1. UNCHANGED <<num_retired, next, job>>
      BY <1>4 DEF KernelEnds
    <2>2. lo < hi /\ lo \in Urbs
      BY <1>0, <1>2, <1>4, KernelEndsFacts
    <2>3. PICK s \in EarlyEnds, n \in Nat : Ends(lo, n, s) /\ Queued' = lo + n + 1 .. hi - 1
      BY <1>0, <1>2, <1>4, KernelEndsFacts
    <2>4. lo + n <= hi - 1 /\ Len(ready') = Len(ready) + 1 + n
      <3>1. lo + n \in lo .. lo + n /\ lo .. lo + n \subseteq lo .. hi - 1
        <4>1. lo + n \in lo .. lo + n
          OBVIOUS
        <4>2. lo .. lo + n \subseteq Queued
          BY <2>3 DEF Ends
        <4> QED BY <1>2, <4>1, <4>2
      <3>2. lo + n \in lo .. hi - 1
        BY <3>1
      <3>3. Len(ready') = Len(ready) + 1 + n
        BY <2>3 DEF Ends
      <3> QED BY <3>2, <3>3
    <2>5. lo + n + 1 \in 0 .. NumUrbs /\ Counted(lo + n + 1, hi)'
      BY <1>0, <1>2, <2>1, <2>3, <2>4 DEF Counted, Total
    <2> QED BY <2>5 DEF CountInv
  <1>5. CASE SubmitUrb
    <2>1. /\ job = "submit" /\ next' = next + 1 /\ UNCHANGED <<num_retired, ready>>
          /\ job' = IF next = LastUrb THEN "none" ELSE "submit"
          /\ urb_status' = [urb_status EXCEPT ![next] = "queued"]
      BY <1>5 DEF SubmitUrb
    <2>2. num_retired = 0 /\ reap_action = "NORMAL"
      BY <2>1 DEF JobInv
    <2>3. Queued = Len(ready) .. next - 1
      BY <1>0, <2>1, <2>2 DEF StallInv, OrderInv, Disturbed, InOrder
    <2>4. Len(ready) <= next
      BY <1>0, <1>2, <2>1, <2>2 DEF Total
    <2>5. Queued' = Queued \cup {next}
      BY <1>0, <2>1 DEF Queued, KernelOK
    <2>6. Queued' = Len(ready) .. next + 1 - 1
      BY <1>0, <2>3, <2>4, <2>5
    <2>7. Total' = next + 1
      BY <1>0, <2>1 DEF Total
    <2>8. Len(ready) \in 0 .. NumUrbs /\ next + 1 \in 0 .. NumUrbs
      BY <1>0, <2>1, <2>4
    <2>9. PICK l, h \in 0 .. NumUrbs : l = Len(ready) /\ h = next + 1
      BY <2>8
    <2>10. l <= h /\ h <= next' /\ Queued' = l .. h - 1
      BY <1>0, <2>1, <2>4, <2>6, <2>9
    <2>11. num_retired' + (h - l) + Len(ready') = Total'
      <3>1. num_retired' = 0 /\ Len(ready') = l /\ Total' = h
        BY <2>1, <2>2, <2>7, <2>9
      <3> QED BY <2>9, <3>1
    <2>12. Counted(l, h)'
      BY <2>10, <2>11 DEF Counted
    <2> QED BY <2>12 DEF CountInv
  <1>6. CASE SubmitEndsEarly \/ SubmitFails
    <2>1. /\ job = "submit" /\ job' # "submit" /\ UNCHANGED <<next, ready, urb_status>>
          /\ num_retired' = num_retired + NumUrbs - next
      BY <1>6 DEF SubmitEndsEarly, SubmitFails, CountRest
    <2>2. Counted(lo, hi)'
      BY <1>0, <1>2, <2>1 DEF Counted, Total, Queued
    <2> QED BY <2>2 DEF CountInv
  <1>7. CASE DiscardUrb
    <2>1. UNCHANGED <<num_retired, next, job>>
      BY <1>7 DEF DiscardUrb
    <2>2. PICK i \in Urbs : \/ /\ i \in Queued /\ i = hi - 1 /\ Ends(i, 0, "discarded")
                               /\ Queued' = lo .. i - 1
                            \/ UNCHANGED <<urb_status, ready>>
      BY <1>2, <1>7, DiscardFacts DEF JobInv
    <2>3. CASE UNCHANGED <<urb_status, ready>>
      <3>1. Counted(lo, hi)'
        BY <1>1, <2>1, <2>3 DEF Counted, Total, Queued
      <3> QED BY <3>1 DEF CountInv
    <2>4. CASE i \in Queued /\ i = hi - 1 /\ Ends(i, 0, "discarded") /\ Queued' = lo .. i - 1
      <3>1. Len(ready') = Len(ready) + 1
        BY <1>0, <2>4 DEF Ends
      <3>2. i \in 0 .. NumUrbs /\ lo <= i /\ i <= next /\ hi = i + 1
        BY <1>0, <1>2, <2>4
      <3>3. Counted(lo, i)'
        BY <1>0, <1>2, <2>1, <2>4, <3>1, <3>2 DEF Counted, Total
      <3> QED BY <3>2, <3>3 DEF CountInv
    <2> QED BY <2>2, <2>3, <2>4
  <1>8. CASE Reap
    <2>1. /\ job = "none" /\ job' \in {"none", "discard"}
          /\ Len(ready') = Len(ready) - 1 /\ num_retired' = num_retired + 1
          /\ Queued' = Queued /\ next' = next
      <3>1. job' \in {"none", "discard"}
        BY <1>0, <1>8, ReapFacts, ReapJob
      <3> QED BY <1>0, <1>8, <3>1, ReapFacts
    <2>2. Counted(lo, hi)'
      BY <1>0, <1>2, <2>1 DEF Counted, Total
    <2> QED BY <2>2 DEF CountInv
  <1>9. CASE DiscardEnds \/ Cancel \/ UNCHANGED vars
    <2>1. /\ UNCHANGED <<num_retired, next, urb_status, ready>>
          /\ job' = job \/ (job # "submit" /\ job' # "submit")
      BY <1>9 DEF DiscardEnds, Cancel, vars
    <2>2. Counted(lo, hi)'
      BY <1>1, <2>1 DEF Counted, Total, Queued
    <2> QED BY <2>2 DEF CountInv
  <1> QED BY <1>3, <1>4, <1>5, <1>6, <1>7, <1>8, <1>9 DEF Next, Work, Idle

-----------------------------------------------------------------------------
(***************************************************************************)
(* The jobs, and the order in which the URBs come back.                    *)
(***************************************************************************)
\* In a transfer that nothing has disturbed the first URB to reap is the next in order.
LEMMA HeadInOrder ==
    ASSUME TypeInv, InOrder, Len(ready) > 0, next <= NumUrbs
    PROVE  /\ ready[1] = num_retired
           /\ Queued \subseteq ready[1] + 1 .. LastUrb
           /\ ready[1] = LastUrb <=> num_retired + 1 = NumUrbs
           /\ num_retired + 1 <= NumUrbs
  <1>1. Len(ready) \in Nat /\ num_retired \in Nat /\ next \in Nat /\ ready[1] \in Urbs
    BY Constants DEF TypeInv, KernelOK, XferOK, JobOK
  <1>2. ready[1] = num_retired
    <2>1. 1 \in 1 .. Len(ready)
      BY <1>1
    <2>2. ready[1] = num_retired + 1 - 1
      BY <2>1 DEF InOrder
    <2> QED BY <1>1, <2>2
  <1>3. Queued \subseteq num_retired + 1 .. LastUrb
    BY <1>1, Constants DEF InOrder
  <1> QED BY <1>1, <1>2, <1>3, Constants

\* A plain stall stays one, unless what is reaped next ends the transfer in another way.
LEMMA PlainStallKept ==
    ASSUME TypeInv, PlainStall, [Next]_vars, reap_action' = "NORMAL"
    PROVE  PlainStall'
  <1>1. CASE KernelReceives \/ KernelEnds \/ DiscardUrb \/ UNCHANGED vars
    BY <1>1 DEF KernelReceives, KernelEnds, DiscardUrb, vars, PlainStall
  <1>2. CASE SubmitUrb \/ SubmitEndsEarly \/ SubmitFails \/ DiscardEnds \/ Cancel
    BY <1>2 DEF SubmitUrb, SubmitEndsEarly, SubmitFails, DiscardEnds, Cancel, PlainStall
  <1>3. CASE Reap
    BY <1>3 DEF Reap, ReapAbnormal, ReapNormal, ReapShort, ReapFailed, Retire, PlainStall
  <1> QED BY <1>1, <1>2, <1>3 DEF Next, Work, Idle

LEMMA JobInvStep ==
    ASSUME TypeInv, UrbInv, CountInv, JobInv, OrderInv, StallInv, [Next]_vars
    PROVE  JobInv'
  <1>0. KernelOK /\ next \in 0 .. NumUrbs /\ num_retired \in Nat
    BY DEF TypeInv, JobOK, XferOK
  <1>1. PICK lo, hi \in 0 .. NumUrbs : lo <= hi /\ Queued = lo .. hi - 1
    BY DEF CountInv, Counted
  <1>2. CASE KernelReceives
    <2>1. UNCHANGED <<mode, reapVars, jobVars, cancelling, reported>>
      BY <1>2 DEF KernelReceives
    <2>2. lo < hi /\ (Queued' = lo + 1 .. hi - 1 \/ Queued' = Queued)
      BY <1>0, <1>1, <1>2, ReceivesFacts
    <2>3. Queued' \subseteq Queued
      BY <1>1, <2>2, Constants
    <2> QED BY <2>1, <2>3 DEF JobInv, PlainStall
  <1>3. CASE KernelEnds
    <2>1. UNCHANGED <<mode, reapVars, jobVars, cancelling, reported>>
      BY <1>3 DEF KernelEnds
    <2>2. PICK n \in Nat : Queued' = lo + n + 1 .. hi - 1
      BY <1>0, <1>1, <1>3, KernelEndsFacts
    <2>3. Queued' \subseteq Queued
      BY <1>1, <2>2, Constants
    <2> QED BY <2>1, <2>3 DEF JobInv, PlainStall
  <1>4. CASE SubmitUrb
    BY <1>4 DEF SubmitUrb, JobInv
  <1>5. CASE SubmitEndsEarly
    BY <1>5 DEF SubmitEndsEarly, JobInv
  <1>6. CASE SubmitFails
    <2>1. Queued \subseteq 0 .. next - 1
      BY <1>0, Constants DEF UrbInv, Queued
    <2> QED BY <1>6, <2>1 DEF SubmitFails, JobInv, Queued
  <1>7. CASE DiscardUrb
    <2>1. job = "discard" /\ UNCHANGED <<mode, job, num_retired, reap_action, reap_status, cancelling, reported>>
      BY <1>7 DEF DiscardUrb
    <2>2. PICK i \in Urbs : /\ todo' = todo \ {i}
                            /\ \/ i = hi - 1 /\ Queued' = lo .. i - 1
                               \/ i \notin Queued /\ urb_status' = urb_status
      BY <1>1, <1>7, DiscardFacts DEF JobInv
    <2>3. Queued' \subseteq Queued \ {i}
      <3>1. CASE i = hi - 1 /\ Queued' = lo .. i - 1
        BY <1>1, <3>1, Constants
      <3>2. CASE i \notin Queued /\ urb_status' = urb_status
        BY <3>2 DEF Queued
      <3> QED BY <2>2, <3>1, <3>2
    <2> QED BY <2>1, <2>2, <2>3 DEF JobInv
  <1>8. CASE DiscardEnds
    BY <1>8 DEF DiscardEnds, JobInv
  <1>9. CASE Cancel
    BY <1>9 DEF Cancel, JobInv, Queued
  <1>10. CASE Reap
    <2>1. PICK i \in Urbs : /\ ready[1] = i /\ Len(ready) > 0
                            /\ ReapAbnormal(i) \/ ReapNormal(i) \/ ReapShort(i) \/ ReapFailed(i)
      BY <1>0, <1>10, ReapFacts
    <2>2. /\ num_retired' = num_retired + 1 /\ job = "none" /\ reported = "no"
          /\ cancelling' = cancelling /\ Queued' = Queued
      BY <1>0, <1>10, ReapFacts
    <2>3. cancelling # "asked"
      BY <2>2 DEF JobInv
    <2>4. /\ reap_action = "NORMAL" => Queued \subseteq i + 1 .. LastUrb
          /\ reap_action = "NORMAL" /\ i = LastUrb => num_retired' = NumUrbs \/ PlainStall
      <3>1. next <= NumUrbs
        BY <1>0, Constants
      <3>2. reap_action = "NORMAL" /\ ~PlainStall => InOrder
        BY <2>2 DEF OrderInv, Disturbed
      <3>3. PlainStall => Queued = {}
        BY <2>2 DEF StallInv
      <3> QED BY <2>1, <2>2, <3>1, <3>2, <3>3, HeadInOrder
    <2>5. reported' # "no" => num_retired' = NumUrbs \/ PlainStall'
      <3>1. ReapNormal(i) => reap_action' = "NORMAL" /\ reap_action = "NORMAL"
        BY DEF ReapNormal
      <3>2. CASE ReapNormal(i)
        BY <2>2, <2>4, <3>1, <3>2, PlainStallKept DEF ReapNormal
      <3>3. CASE ReapAbnormal(i) \/ ReapShort(i) \/ ReapFailed(i)
        BY <2>2, <3>3 DEF ReapAbnormal, ReapShort, ReapFailed, WaitForRest, AllRetired
      <3> QED BY <2>1, <3>2, <3>3
    <2>8. reap_action' = "NORMAL" => reap_status' # "ERROR"
      BY <2>1 DEF JobInv, ReapAbnormal, ReapNormal, ReapShort, ReapFailed
    <2>6. CASE UNCHANGED <<job, todo, last, found>>
      BY <2>2, <2>3, <2>5, <2>8, <2>6 DEF JobInv
    <2>7. CASE /\ job' = "discard" /\ todo' = i + 1 .. LastUrb
               /\ reap_action = "NORMAL" /\ reported' = reported
      BY <2>2, <2>3, <2>4, <2>8, <2>7 DEF JobInv
    <2> QED BY <2>1, <2>6, <2>7, ReapJob
  <1>11. CASE UNCHANGED vars
    BY <1>11 DEF vars, JobInv, Queued, PlainStall
  <1> QED BY <1>2, <1>3, <1>4, <1>5, <1>6, <1>7, <1>8, <1>9, <1>10, <1>11 DEF Next, Work, Idle

LEMMA OrderEnds ==
    ASSUME TypeInv, NEW lo \in 0 .. NumUrbs, NEW hi \in 0 .. NumUrbs, lo < hi, Queued = lo .. hi - 1,
           NEW n, NEW s, Ends(lo, n, s), Queued' = lo + n + 1 .. hi - 1, InOrder,
           UNCHANGED <<next, num_retired>>
    PROVE  InOrder'
  <1> DEFINE N == Len(ready)
  <1>1. /\ N \in Nat /\ num_retired \in Nat /\ next \in 0 .. NumUrbs /\ n \in Nat
        /\ lo \in Nat /\ hi \in Nat
    BY Constants DEF TypeInv, KernelOK, XferOK, JobOK, Ends
  <1>2. lo .. hi - 1 = num_retired + N .. next - 1
    BY DEF InOrder
  <1>3. /\ Len(ready') = N + 1 + n
        /\ \A k \in 1 .. N : ready'[k] = ready[k]
        /\ \A k \in N + 1 .. N + 1 + n : ready'[k] = lo + (k - N - 1)
    BY DEF Ends
  <1>4. \A k \in 1 .. N : ready[k] = num_retired + k - 1
    BY DEF InOrder
  <1> HIDE DEF N
  <1>5. lo = num_retired + N /\ hi = next
    <2>1. lo \in lo .. hi - 1 /\ hi - 1 \in lo .. hi - 1
      BY <1>1, Constants
    <2>2. num_retired + N <= next - 1
      BY <1>1, <1>2, <2>1
    <2>3. num_retired + N \in lo .. hi - 1 /\ next - 1 \in lo .. hi - 1
      BY <1>1, <1>2, <2>2
    <2> QED BY <1>1, <1>2, <2>1, <2>3
  <1>6. ASSUME NEW k \in 1 .. Len(ready') PROVE ready'[k] = num_retired' + k - 1
    <2>1. CASE k \in 1 .. N
      BY <1>1, <1>3, <1>4, <2>1
    <2>2. CASE k \notin 1 .. N
      <3>1. k \in N + 1 .. N + 1 + n
        BY <1>1, <1>3, <2>2
      <3>2. ready'[k] = lo + (k - N - 1)
        BY <1>3, <3>1
      <3> QED BY <1>1, <1>5, <3>1, <3>2
    <2> QED BY <2>1, <2>2
  <1>7. Queued' = num_retired' + Len(ready') .. next' - 1
    BY <1>1, <1>3, <1>5
  <1> QED BY <1>6, <1>7 DEF InOrder

LEMMA OrderStep ==
    ASSUME TypeInv, UrbInv, EndedInv, CountInv, JobInv, OrderInv, [Next]_vars
    PROVE  OrderInv'
  <1>0. KernelOK /\ next \in 0 .. NumUrbs /\ num_retired \in Nat /\ Len(ready) \in Nat
    BY DEF TypeInv, JobOK, XferOK, KernelOK
  <1>1. PICK lo, hi \in 0 .. NumUrbs : lo <= hi /\ Queued = lo .. hi - 1
    BY DEF CountInv, Counted
  <1>2. SUFFICES ASSUME reap_action' = "NORMAL", ~PlainStall' PROVE OrderInv'
    BY DEF OrderInv
  <1>12. ~PlainStall
    BY <1>2, PlainStallKept
  <1>3. CASE KernelReceives \/ KernelEnds
    <2>1. UNCHANGED <<reapVars, jobVars, cancelling>>
      BY <1>3 DEF KernelReceives, KernelEnds
    <2>2. CASE UNCHANGED <<ready, Queued>>
      BY <1>2, <1>12, <2>1, <2>2 DEF OrderInv, Disturbed, InOrder
    <2>3. CASE lo < hi /\ \E n, s : n \in Nat /\ Ends(lo, n, s) /\ Queued' = lo + n + 1 .. hi - 1
      <3>1. Queued' \subseteq Queued
        BY <1>1, <2>3, Constants
      <3>2. InOrder => InOrder'
        BY <1>1, <2>1, <2>3, OrderEnds
      <3> QED BY <1>2, <1>12, <2>1, <3>1, <3>2 DEF OrderInv, Disturbed
    <2>4. CASE KernelReceives
      <3>1. lo + 0 + 1 = lo + 1 /\ 0 \in Nat
        BY Constants
      <3>2. CASE actual_length[lo] + 1 = UrbLength
        <4>1. lo < hi /\ Ends(lo, 0, "ok") /\ Queued' = lo + 1 .. hi - 1
          BY <1>0, <1>1, <2>4, <3>2, ReceivesFacts
        <4> QED BY <2>3, <3>1, <4>1
      <3>3. CASE actual_length[lo] + 1 # UrbLength
        <4>1. UNCHANGED <<ready, Queued>>
          BY <1>0, <1>1, <2>4, <3>3, ReceivesFacts
        <4> QED BY <2>2, <4>1
      <3> QED BY <3>2, <3>3
    <2>5. CASE KernelEnds
      <3>1. lo < hi /\ \E s \in EarlyEnds : \E n \in Nat : Ends(lo, n, s) /\ Queued' = lo + n + 1 .. hi - 1
        BY <1>0, <1>1, <2>5, KernelEndsFacts
      <3> QED BY <2>3, <3>1
    <2> QED BY <1>3, <2>4, <2>5
  <1>4. CASE SubmitUrb
    <2>1. /\ job = "submit" /\ next' = next + 1 /\ UNCHANGED <<num_retired, ready, reap_action>>
          /\ job' = IF next = LastUrb THEN "none" ELSE "submit"
          /\ urb_status' = [urb_status EXCEPT ![next] = "queued"]
      BY <1>4 DEF SubmitUrb
    <2>2. num_retired = 0 /\ next < NumUrbs
      BY <2>1 DEF JobInv, TypeInv, JobOK
    <2>3. InOrder
      BY <1>2, <1>12, <2>1 DEF OrderInv, Disturbed
    <2>4. Len(ready) <= next
      <3>1. PICK l, h \in 0 .. NumUrbs : Counted(l, h)
        BY DEF CountInv
      <3> QED BY <1>0, <2>1, <2>2, <3>1, Constants DEF Counted, Total
    <2>5. Queued' = Queued \cup {next}
      BY <1>0, <2>1, <2>2, Constants DEF Queued, KernelOK
    <2>6. Queued' = num_retired' + Len(ready') .. next' - 1
      <3>1. Queued = Len(ready) .. next - 1
        BY <1>0, <2>2, <2>3 DEF InOrder
      <3>2. Queued' = Len(ready) .. next + 1 - 1
        BY <1>0, <2>4, <2>5, <3>1, Constants
      <3>3. num_retired' + Len(ready') = Len(ready)
        BY <1>0, <2>1, <2>2
      <3>4. next' - 1 = next + 1 - 1
        BY <1>0, <2>1, Constants
      <3> QED BY <3>2, <3>3, <3>4
    <2>7. InOrder'
      BY <2>1, <2>3, <2>6 DEF InOrder
    <2>8. job' # "submit" => next' = NumUrbs
      BY <2>1, Constants
    <2> QED BY <1>12, <2>1, <2>7, <2>8 DEF OrderInv, Disturbed
  <1>5. CASE SubmitEndsEarly \/ SubmitFails
    BY <1>2, <1>12, <1>5 DEF SubmitEndsEarly, SubmitFails
  <1>6. CASE DiscardUrb
    <2>1. job = "discard" /\ UNCHANGED <<job, next, last, num_retired, reap_action, cancelling>>
      BY <1>6 DEF DiscardUrb
    <2>2. PICK i \in Urbs :
             /\ \A j \in todo : j <= i
             /\ i \in todo /\ todo' = todo \ {i}
             /\ \/ i \in Queued /\ found' = found
                \/ /\ i \notin Queued /\ found' = (found /\ i # last)
                   /\ UNCHANGED <<urb_status, ready>>
      BY <1>1, <1>6, DiscardFacts DEF JobInv
    <2>3. next = NumUrbs /\ last = LastUrb /\ (LastUrb \in todo => found /\ InOrder)
      BY <1>2, <1>12, <2>1 DEF OrderInv, Disturbed
    <2>4. i # LastUrb => LastUrb \notin todo
      BY <2>2, Constants
    <2>5. CASE i \in Queued /\ found' = found
      <3>1. cancelling = "asked"
        BY <1>2, <1>12, <2>1, <2>5 DEF OrderInv
      <3>2. found
        BY <1>2, <1>12, <2>1, <2>2, <2>3, <2>4, <2>5 DEF OrderInv
      <3>3. LastUrb \notin todo'
        BY <2>2, <2>4
      <3> QED BY <1>12, <2>1, <2>3, <2>5, <3>1, <3>2, <3>3 DEF OrderInv, Disturbed
    <2>6. CASE /\ i \notin Queued /\ found' = (found /\ i # last)
               /\ UNCHANGED <<urb_status, ready>>
      <3>1. Queued' = Queued /\ (InOrder => InOrder')
        BY <2>1, <2>6 DEF Queued, InOrder
      <3>2. CASE i = LastUrb
        <4>1. InOrder' /\ ~found'
          BY <2>2, <2>3, <2>6, <3>1, <3>2
        <4>2. Queued = {}
          <5>1. Queued = num_retired + Len(ready) .. NumUrbs - 1
            BY <2>2, <2>3, <3>2 DEF InOrder
          <5>2. NumUrbs - 1 \notin Queued
            BY <2>6, <3>2, Constants
          <5> QED BY <1>0, <5>1, <5>2, Constants
        <4>3. LastUrb \notin todo'
          BY <2>2, <3>2
        <4> QED BY <1>12, <2>1, <2>3, <3>1, <4>1, <4>2, <4>3 DEF OrderInv, Disturbed
      <3>3. CASE i # LastUrb
        <4>1. found' = found /\ LastUrb \notin todo /\ LastUrb \notin todo'
          BY <2>2, <2>3, <2>4, <2>6, <3>3 DEF TypeInv, JobOK
        <4> QED BY <1>2, <1>12, <2>1, <2>3, <3>1, <4>1 DEF OrderInv, Disturbed
      <3> QED BY <3>2, <3>3
    <2> QED BY <2>2, <2>5, <2>6
  <1>7. CASE DiscardEnds
    <2>1. /\ job = "discard" /\ todo = {} /\ job' = "none"
          /\ UNCHANGED <<next, urb_status, ready, num_retired>>
      BY <1>7 DEF DiscardEnds
    <2>2. reap_action = "NORMAL" /\ (cancelling = "asked" => ~found)
      BY <1>2, <1>12, <1>7 DEF DiscardEnds
    <2>3. next = NumUrbs /\ InOrder
      BY <1>12, <2>1, <2>2 DEF OrderInv, Disturbed
    <2> QED BY <1>12, <2>1, <2>3 DEF OrderInv, Disturbed, InOrder, Queued
  <1>8. CASE Cancel
    <2>1. /\ job = "none" /\ job' = "discard" /\ todo' = Urbs /\ last' = LastUrb /\ found' = TRUE
          /\ cancelling' = "asked" /\ UNCHANGED <<next, urb_status, ready, num_retired, reap_action>>
      BY <1>8 DEF Cancel
    <2>2. next = NumUrbs /\ InOrder
      BY <1>2, <1>12, <2>1 DEF OrderInv, Disturbed
    <2> QED BY <1>12, <2>1, <2>2, Constants DEF OrderInv, Disturbed, InOrder, Queued
  <1>9. CASE Reap
    <2>1. PICK i \in Urbs : /\ ready[1] = i /\ Len(ready) > 0
                            /\ ReapAbnormal(i) \/ ReapNormal(i) \/ ReapShort(i) \/ ReapFailed(i)
      BY <1>0, <1>9, ReapFacts
    <2>2. /\ Len(ready') = Len(ready) - 1
          /\ \A k \in 1 .. Len(ready) - 1 : ready'[k] = ready[k + 1]
          /\ num_retired' = num_retired + 1
          /\ job = "none" /\ reported = "no"
          /\ UNCHANGED <<mode, urb_status, next, cancelling>>
          /\ Queued' = Queued
      BY <1>0, <1>9, ReapFacts
    <2>3. reap_action = "NORMAL" /\ (ReapFailed(i) => urb_status[i] = "stall") /\ ~ReapShort(i)
      <3>1. ~ReapShort(i)
        BY <1>2 DEF ReapShort
      <3>2. CASE ReapFailed(i)
        <4>1. reap_action = "NORMAL" /\ urb_status[i] = "stall"
          BY <1>2, <1>12, <3>2 DEF ReapFailed
        <4> QED BY <3>1, <4>1
      <3>3. CASE ~ReapFailed(i)
        <4>1. reap_action = "NORMAL"
          BY <1>2, <1>12, <2>1, <3>1, <3>3 DEF ReapAbnormal, ReapNormal
        <4> QED BY <3>1, <3>3, <4>1
      <3> QED BY <3>2, <3>3
    <2>4. next = NumUrbs /\ InOrder
      BY <1>12, <2>2, <2>3 DEF OrderInv, Disturbed
    <2>5. InOrder'
      <3>1. ASSUME NEW k \in 1 .. Len(ready') PROVE ready'[k] = num_retired' + k - 1
        <4>1. k + 1 \in 1 .. Len(ready) /\ ready'[k] = ready[k + 1]
          BY <1>0, <2>2
        <4>2. ready[k + 1] = num_retired + (k + 1) - 1
          BY <2>4, <4>1 DEF InOrder
        <4> QED BY <1>0, <2>2, <4>1, <4>2
      <3>2. Queued' = num_retired' + Len(ready') .. next' - 1
        <4>1. num_retired + Len(ready) = num_retired + 1 + (Len(ready) - 1)
          BY <1>0
        <4> QED BY <2>2, <2>4, <4>1 DEF InOrder
      <3> QED BY <3>1, <3>2 DEF InOrder
    <2>6. CASE UNCHANGED <<job, todo, last, found>>
      BY <1>12, <2>2, <2>4, <2>5, <2>6 DEF OrderInv, Disturbed
    <2>7. CASE /\ job' = "discard" /\ todo' = i + 1 .. LastUrb /\ last' = LastUrb /\ found' = TRUE
               /\ num_retired' # NumUrbs
               /\ ReapShort(i) \/ ReapFailed(i)
      <3>1. urb_status[i] = "stall"
        BY <2>3, <2>7
      <3>2. Queued' = {}
        <4>1. mode = "continuation"
          <5>1. reap_status' = "STALL" /\ mode' = mode
            BY <1>0, <2>2, <2>3, <2>7, <3>1, <1>12 DEF ReapFailed, PlainStall, JobInv, TypeInv, XferOK
          <5> QED BY <1>0, <1>2, <5>1 DEF PlainStall, KernelOK, Modes
        <4> QED BY <2>2, <3>1, <4>1 DEF EndedInv, Broken
      <3>3. LastUrb \in todo'
        <4>1. i # LastUrb
          BY <1>0, <2>1, <2>2, <2>4, <2>7, HeadInOrder
        <4> QED BY <2>7, <4>1, Constants
      <3> QED BY <1>12, <2>2, <2>4, <2>5, <2>7, <3>2, <3>3 DEF OrderInv, Disturbed
    <2> QED BY <2>1, <2>6, <2>7, ReapJob
  <1>10. CASE UNCHANGED vars
    BY <1>2, <1>12, <1>10 DEF vars, OrderInv, Disturbed, InOrder, Queued
  <1> QED BY <1>3, <1>4, <1>5, <1>6, <1>7, <1>8, <1>9, <1>10 DEF Next, Work, Idle

LEMMA PendingEnds ==
    ASSUME KernelOK, NEW i, NEW n, NEW s, Ends(i, n, s)
    PROVE  \A j \in Urbs : Pending(j)' <=> Pending(j)
  <1> DEFINE N == Len(ready)
  <1>1. N \in Nat /\ n \in Nat /\ i \in Nat /\ Len(ready') = N + 1 + n
    BY Constants DEF KernelOK, Ends
  <1>2. /\ \A k \in 1 .. N : ready'[k] = ready[k]
        /\ \A k \in N + 1 .. N + 1 + n : ready'[k] = i + (k - N - 1)
        /\ i .. i + n \subseteq Queued
    BY DEF Ends
  <1>3. Queued' = Queued \ (i .. i + n)
    BY EndsQueue
  <1> HIDE DEF N
  <1>4. ASSUME NEW j \in Urbs, Pending(j) PROVE Pending(j)'
    <2>1. CASE j \in i .. i + n
      <3>1. j - i + N + 1 \in 1 .. Len(ready') /\ ready'[j - i + N + 1] = j
        <4>1. j - i + N + 1 \in N + 1 .. N + 1 + n /\ i + ((j - i + N + 1) - N - 1) = j
          BY <1>1, <2>1, Constants
        <4> QED BY <1>1, <1>2, <4>1
      <3> QED BY <3>1 DEF Pending
    <2>2. CASE j \in Queued /\ j \notin i .. i + n
      BY <1>3, <2>2 DEF Pending
    <2>3. CASE j \notin Queued
      <3>1. PICK k \in 1 .. N : ready[k] = j
        BY <1>4, <2>3 DEF Pending, N
      <3>2. k \in 1 .. Len(ready') /\ ready'[k] = j
        BY <1>1, <1>2, <3>1
      <3> QED BY <3>2 DEF Pending
    <2> QED BY <2>1, <2>2, <2>3
  <1>5. ASSUME NEW j \in Urbs, Pending(j)' PROVE Pending(j)
    <2>1. CASE j \in Queued'
      BY <1>3, <2>1 DEF Pending
    <2>2. CASE j \notin Queued'
      <3>1. PICK k \in 1 .. Len(ready') : ready'[k] = j
        BY <1>5, <2>2 DEF Pending
      <3>2. CASE k \in 1 .. N
        BY <1>2, <3>1, <3>2 DEF Pending, N
      <3>3. CASE k \notin 1 .. N
        <4>1. k \in N + 1 .. N + 1 + n
          BY <1>1, <3>3
        <4>2. j = i + (k - N - 1)
          BY <1>2, <3>1, <4>1
        <4>3. j \in i .. i + n
          BY <1>1, <4>1, <4>2
        <4> QED BY <1>2, <4>3 DEF Pending
      <3> QED BY <3>2, <3>3
    <2> QED BY <2>1, <2>2
  <1> QED BY <1>4, <1>5

\* The state after a plain stall: the steps of the kernel and of a discard move URBs from
\* the kernel to the list, and no data come any more.
LEMMA StallStep ==
    ASSUME TypeInv, UrbInv, CountInv, JobInv, OrderInv, StallInv, [Next]_vars
    PROVE  StallInv'
  <1>0. /\ KernelOK /\ XferOK /\ next \in 0 .. NumUrbs /\ next <= NumUrbs
        /\ num_retired \in Nat /\ Len(ready) \in Nat
    BY Constants DEF TypeInv, JobOK, XferOK, KernelOK
  <1>1. PICK lo, hi \in 0 .. NumUrbs : lo <= hi /\ Queued = lo .. hi - 1
    BY DEF CountInv, Counted
  <1>2. SUFFICES ASSUME PlainStall'
                 PROVE  /\ halted' /\ job' # "submit"
                        /\ job' = "discard" \/ Queued' = {}
                        /\ \A i \in Urbs : Pending(i)' => actual_length'[i] = 0
    BY DEF StallInv
  <1>3. CASE KernelReceives
    <2>1. PlainStall /\ ~halted
      BY <1>2, <1>3 DEF KernelReceives, PlainStall
    <2> QED BY <2>1 DEF StallInv
  <1>4. CASE KernelEnds \/ DiscardUrb
    <2>1. PlainStall /\ UNCHANGED <<actual_length, job>>
      BY <1>2, <1>4 DEF KernelEnds, DiscardUrb, PlainStall
    <2>2. /\ halted => halted'
          /\ (\E i, n, s : Ends(i, n, s)) \/ UNCHANGED <<urb_status, ready>>
      <3>1. CASE KernelEnds
        BY <1>0, <1>1, <3>1, KernelEndsFacts
      <3>2. CASE DiscardUrb
        <4>1. (\E i, n, s : Ends(i, n, s)) \/ UNCHANGED <<urb_status, ready>>
          BY <1>0, <1>1, <3>2, DiscardFacts DEF JobInv
        <4>2. halted' = halted
          BY <3>2 DEF DiscardUrb
        <4> QED BY <4>1, <4>2, Zenon
      <3> QED BY <1>4, <3>1, <3>2
    <2>3. Queued' \subseteq Queued /\ \A i \in Urbs : Pending(i)' <=> Pending(i)
      <3>1. CASE \E i, n, s : Ends(i, n, s)
        BY <1>0, <3>1, EndsQueue, PendingEnds
      <3>2. CASE UNCHANGED <<urb_status, ready>>
        BY <3>2 DEF Pending, Queued
      <3> QED BY <2>2, <3>1, <3>2
    <2> QED BY <2>1, <2>2, <2>3 DEF StallInv
  <1>5. CASE SubmitUrb \/ SubmitEndsEarly \/ SubmitFails
    <2>1. job = "submit" /\ PlainStall
      BY <1>2, <1>5 DEF SubmitUrb, SubmitEndsEarly, SubmitFails, PlainStall
    <2> QED BY <2>1 DEF StallInv
  <1>6. CASE DiscardEnds \/ Cancel \/ UNCHANGED vars
    <2>1. UNCHANGED <<urb_status, ready, actual_length, halted>>
      BY <1>6 DEF DiscardEnds, Cancel, vars
    <2>2. PlainStall
      BY <1>2, <1>6 DEF DiscardEnds, Cancel, PlainStall, vars
    <2>3. job' # "submit" /\ (job' = "discard" \/ Queued = {})
      BY <1>6, <2>2 DEF DiscardEnds, Cancel, StallInv, JobInv, vars
    <2> QED BY <2>1, <2>2, <2>3 DEF StallInv, Pending, Queued
  <1>7. CASE Reap
    <2>1. PICK i \in Urbs : /\ ready[1] = i /\ Len(ready) > 0
                            /\ ReapAbnormal(i) \/ ReapNormal(i) \/ ReapShort(i) \/ ReapFailed(i)
      BY <1>0, <1>7, ReapFacts
    <2>2. /\ Len(ready') = Len(ready) - 1
          /\ \A k \in 1 .. Len(ready) - 1 : ready'[k] = ready[k + 1]
          /\ num_retired' = num_retired + 1 /\ job = "none" /\ reported = "no"
          /\ UNCHANGED <<mode, actual_length, halted>> /\ Queued' = Queued
      BY <1>0, <1>7, ReapFacts
    <2>3. job' # "submit" /\ reap_action = "NORMAL"
      <3>1. reap_action = "NORMAL"
        BY <1>2, <2>1 DEF PlainStall, ReapAbnormal, ReapNormal, ReapShort, ReapFailed
      <3> QED BY <2>1, <2>2, <3>1, ReapJob
    <2>4. \A k \in 1 .. Len(ready') : k + 1 \in 1 .. Len(ready) /\ ready'[k] = ready[k + 1]
      BY <1>0, <2>2
    <2>5. CASE PlainStall
      <3>1. \A j \in Urbs : Pending(j)' => Pending(j)
        BY <2>2, <2>4 DEF Pending
      <3> QED BY <2>2, <2>3, <2>5, <3>1 DEF StallInv
    <2>6. CASE ~PlainStall
      <3>1. urb_status[i] = "stall"
        BY <1>2, <2>1, <2>2, <2>3, <2>6 DEF PlainStall, ReapAbnormal, ReapNormal, ReapShort, ReapFailed
      <3>2. halted /\ NothingBehind(i)
        BY <3>1 DEF UrbInv
      <3>3. InOrder
        BY <2>2, <2>3, <2>6 DEF OrderInv, Disturbed
      <3>4. i = num_retired /\ Queued \subseteq i + 1 .. LastUrb /\ (i = LastUrb <=> num_retired' = NumUrbs)
        BY <1>0, <2>1, <2>2, <3>3, HeadInOrder
      <3>5. ASSUME NEW j \in Urbs, Pending(j)' PROVE actual_length'[j] = 0
        <4>1. j > i
          <5>1. CASE j \in Queued
            BY <3>4, <5>1, Constants
          <5>2. CASE j \notin Queued
            <6>1. PICK k \in 1 .. Len(ready') : ready'[k] = j
              BY <2>2, <3>5, <5>2 DEF Pending
            <6>2. j = num_retired + (k + 1) - 1
              BY <2>4, <3>3, <6>1 DEF InOrder
            <6> QED BY <1>0, <2>2, <3>4, <6>1, <6>2
          <5> QED BY <5>1, <5>2
        <4> QED BY <2>2, <3>2, <4>1 DEF NothingBehind
      <3>6. job' = "discard" \/ Queued = {}
        <4>1. CASE job' = job
          <5>1. num_retired' = NumUrbs
            BY <2>1, <2>2, <2>3, <3>1, <4>1 DEF ReapAbnormal, ReapNormal, ReapShort, ReapFailed, WaitForRest, AllRetired
          <5> QED BY <3>4, <5>1, Constants
        <4>2. CASE job' # job
          BY <2>1, <4>2, ReapJob
        <4> QED BY <4>1, <4>2
      <3> QED BY <2>2, <2>3, <3>2, <3>5, <3>6
    <2> QED BY <2>5, <2>6
  <1> QED BY <1>3, <1>4, <1>5, <1>6, <1>7 DEF Next, Work, Idle

-----------------------------------------------------------------------------
(***************************************************************************)
(* Together they are an inductive invariant.                               *)
(***************************************************************************)
UrbsInv == TypeInv /\ UrbInv /\ EndedInv /\ ReadyInv /\ CountInv /\ JobInv /\ OrderInv /\ StallInv

LEMMA UrbsInit == Init => UrbsInv
  <1> SUFFICES ASSUME Init PROVE UrbsInv
    OBVIOUS
  <1> USE Constants DEF Init
  <1>1. KernelOK /\ XferOK
    <2>1. /\ halted \in BOOLEAN
          /\ mode \in Modes /\ ready \in Seq(Urbs)
      <3>1. ready \in Seq(Urbs)
        <4>1. ready = <<>>
          OBVIOUS
        <4> QED BY <4>1
      <3>2. halted \in BOOLEAN
        <4>1. halted = FALSE
          OBVIOUS
        <4> QED BY <4>1, Zenon
      <3> QED BY <3>1, <3>2
    <2>2. /\ urb_status \in [Urbs -> Finished \cup {"new", "queued"}]
          /\ actual_length \in [Urbs -> 0 .. UrbLength]
          /\ buffer \in [1 .. Length -> Nat] /\ sent \in Nat
      OBVIOUS
    <2>3. XferOK
      BY DEF XferOK
    <2> QED BY <2>1, <2>2, <2>3 DEF KernelOK
  <1>2. JobOK
    <2>1. \E a, b \in Int : todo = a .. b
      <3>1. todo = 1 .. 0 /\ 1 \in Int /\ 0 \in Int
        OBVIOUS
      <3> QED BY <3>1
    <2>2. /\ job \in {"submit", "discard", "none"} /\ found \in BOOLEAN
          /\ todo \subseteq Urbs /\ last \in Urbs
      OBVIOUS
    <2>3. next \in 0 .. NumUrbs /\ (job = "submit" => next < NumUrbs)
      OBVIOUS
    <2> QED BY <2>1, <2>2, <2>3 DEF JobOK
  <1>3. UrbInv
    BY DEF UrbInv, EarlyEnds
  <1>4. Queued = {}
    BY DEF Queued
  <1>5. EndedInv /\ ReadyInv
    BY <1>4 DEF EndedInv, ReadyInv
  <1>6. CountInv
    <2>1. Queued = 0 .. 0 - 1 /\ 0 \in 0 .. NumUrbs
      BY <1>4
    <2>2. Counted(0, 0)
      BY <2>1 DEF Counted, Total
    <2> QED BY <2>1, <2>2 DEF CountInv
  <1>7. JobInv
    BY DEF JobInv
  <1>8. OrderInv
    BY <1>4 DEF OrderInv, Disturbed, InOrder
  <1>9. StallInv
    BY DEF StallInv, PlainStall
  <1> QED BY <1>1, <1>2, <1>3, <1>5, <1>6, <1>7, <1>8, <1>9 DEF UrbsInv, TypeInv

LEMMA UrbsStep ==
    ASSUME UrbsInv, [Next]_vars
    PROVE  UrbsInv'
  BY KernelStep, XferStep, JobStep, UrbStep, ReadyStep, CountStep, JobInvStep, OrderStep, StallStep
  DEF UrbsInv, TypeInv

\* Who is counted as retired is no longer in the kernel, nor in the list.
LEMMA AllAccounted ==
    ASSUME UrbsInv, num_retired = NumUrbs, job # "submit"
    PROVE  Queued = {} /\ ready = <<>>
  <1>1. Len(ready) \in Nat /\ ready \in Seq(Urbs)
    BY DEF UrbsInv, TypeInv, KernelOK
  <1>2. PICK lo, hi \in 0 .. NumUrbs : Counted(lo, hi)
    BY DEF UrbsInv, CountInv
  <1>3. lo <= hi /\ Queued = lo .. hi - 1 /\ NumUrbs + (hi - lo) + Len(ready) = NumUrbs
    BY <1>2 DEF Counted, Total
  <1>4. hi = lo /\ Len(ready) = 0
    BY <1>1, <1>3, Constants
  <1> QED BY <1>1, <1>3, <1>4, Constants

\* The types are kept.
THEOREM TypeCorrect == Spec => []TypeInv
  <1>1. UrbsInv /\ [Next]_vars => UrbsInv'
    BY UrbsStep
  <1>2. UrbsInv => TypeInv
    BY DEF UrbsInv
  <1> QED BY <1>1, <1>2, UrbsInit, PTL DEF Spec

\* linux_usbfs.c:2310-2370: when a transfer is reported none of its URBs is left in the
\* kernel, and all have been reaped, however it ended.  The one exception is the one the
\* code makes: a stall without USBFS_CAP_BULK_CONTINUATION, that it reaped while nothing
\* else had ended the transfer; some URBs may then still be waiting to be reaped.
THEOREM LastUrbFirst == Spec => []ReportedLast
  <1>1. UrbsInv /\ [Next]_vars => UrbsInv'
    BY UrbsStep
  <1>2. UrbsInv => ReportedLast
    <2> SUFFICES ASSUME UrbsInv, reported # "no" PROVE Queued = {} /\ (ready = <<>> \/ PlainStall)
      BY DEF ReportedLast
    <2>1. job \notin {"submit", "discard"}
      BY DEF UrbsInv, JobInv
    <2>2. num_retired = NumUrbs \/ PlainStall
      BY DEF UrbsInv, JobInv
    <2> QED BY <2>1, <2>2, AllAccounted DEF UrbsInv, StallInv
  <1> QED BY <1>1, <1>2, UrbsInit, PTL DEF Spec

-----------------------------------------------------------------------------
(***************************************************************************)
(* The data.  An URB that has received something and is not retired yet    *)
(* holds one run of them, that begins with From(i); the runs of all these  *)
(* URBs are, in their order, what follows the part that is in place.       *)
(***************************************************************************)
Held == {i \in Urbs : actual_length[i] > 0 /\ Pending(i)}
From(i) == buffer[Off(i) + 1]

Run(i) ==
    /\ transferred < From(i) /\ From(i) <= Off(i) + 1
    /\ From(i) + actual_length[i] <= sent + 1
    /\ \A k \in 1 .. actual_length[i] : buffer[Off(i) + k] = From(i) + k - 1
    /\ \A j \in Held : i < j => From(i) + actual_length[i] <= From(j)

InPlace == transferred <= sent /\ \A k \in 1 .. transferred : buffer[k] = k
Runs == \A i \in Held : Run(i)
NoGap ==
    \A d \in transferred + 1 .. sent :
      \E i \in Held : From(i) <= d /\ d < From(i) + actual_length[i]
Room == \A i \in Urbs : NothingBehind(i) => sent <= Off(i) + actual_length[i]

DataInv == InPlace /\ Runs /\ NoGap /\ Room

\* As long as nothing ended early the data of the next URB need not be moved.
PlaceInv ==
    reap_action = "NORMAL" /\ reported = "no" /\ ~PlainStall =>
      \/ transferred = Off(num_retired)
      \/ job # "submit" /\ Queued = {} /\ \A i \in Urbs : i >= num_retired => actual_length[i] = 0

LEMMA Places ==
    ASSUME KernelOK
    PROVE  /\ \A i \in Urbs : /\ Off(i) \in Nat /\ From(i) \in Nat /\ actual_length[i] \in 0 .. UrbLength
                              /\ \A k \in 1 .. UrbLength : Off(i) + k \in 1 .. Length
           /\ \A i, j \in Urbs : i < j => Off(i) + UrbLength <= Off(j)
           /\ \A i, j \in Urbs : i # j => \A k, l \in 1 .. UrbLength : Off(i) + k # Off(j) + l
  <1>1. ASSUME NEW i \in Urbs
        PROVE  /\ Off(i) \in Nat /\ actual_length[i] \in 0 .. UrbLength
               /\ \A k \in 1 .. UrbLength : Off(i) + k \in 1 .. Length
    <2>1. Off(i) \in Nat /\ Off(i) + UrbLength <= Length
      BY OffFacts
    <2>2. actual_length[i] \in 0 .. UrbLength
      BY DEF KernelOK
    <2>3. UrbLength \in Nat /\ Length \in Nat
      BY Constants
    <2> QED BY <2>1, <2>2, <2>3
  <1>2. ASSUME NEW i \in Urbs PROVE From(i) \in Nat
    <2>1. 1 \in 1 .. UrbLength
      BY Constants
    <2>2. Off(i) + 1 \in 1 .. Length
      BY <1>1, <2>1
    <2> QED BY <2>2 DEF From, KernelOK
  <1>3. ASSUME NEW i \in Urbs, NEW j \in Urbs, i # j, NEW k \in 1 .. UrbLength, NEW l \in 1 .. UrbLength
        PROVE  Off(i) + k # Off(j) + l
    <2>1. i < j \/ j < i
      BY <1>3, Constants
    <2>2. Off(i) + UrbLength <= Off(j) \/ Off(j) + UrbLength <= Off(i)
      BY <2>1, OffFacts
    <2>3. Off(i) \in Nat /\ Off(j) \in Nat /\ UrbLength \in Nat
      BY <1>1, Constants
    <2> QED BY <2>2, <2>3
  <1> QED BY <1>1, <1>2, <1>3, OffFacts

\* What is known of an URB with data that is not yet retired.
LEMMA HeldFacts ==
    ASSUME KernelOK, DataInv, NEW j \in Held
    PROVE  /\ j \in Urbs /\ actual_length[j] \in 1 .. UrbLength /\ From(j) \in Nat
           /\ Off(j) \in Nat /\ Run(j)
  <1>1. j \in Urbs /\ actual_length[j] > 0
    BY DEF Held
  <1>2. Off(j) \in Nat /\ From(j) \in Nat /\ actual_length[j] \in 0 .. UrbLength
    BY <1>1, Places
  <1>3. actual_length[j] \in 1 .. UrbLength
    BY <1>1, <1>2, Constants
  <1>4. Run(j)
    BY DEF DataInv, Runs
  <1> QED BY <1>1, <1>2, <1>3, <1>4

\* Steps that leave the data where they are and retire nothing.
LEMMA DataKept ==
    ASSUME DataInv, Held' = Held, UNCHANGED <<buffer, actual_length, sent, transferred>>
    PROVE  DataInv'
  <1>1. Off(1) = Off(1)' /\ \A i : From(i)' = From(i) /\ (NothingBehind(i)' <=> NothingBehind(i))
    BY DEF From, NothingBehind, Off
  <1>2. \A i \in Held : Run(i)'
    BY DEF DataInv, Runs, Run, From, Off
  <1>3. Runs'
    BY <1>2 DEF Runs
  <1>4. InPlace' /\ NoGap' /\ Room'
    BY <1>1 DEF DataInv, InPlace, NoGap, Room, Off
  <1> QED BY <1>3, <1>4 DEF DataInv

\* A packet that arrives continues the run of the URB at the head of the queue, or begins it.
LEMMA DataReceived ==
    ASSUME KernelOK, XferOK, UrbInv, DataInv, NEW u \in Urbs, urb_status[u] = "queued",
           sent' = sent + 1, transferred' = transferred,
           buffer' = [buffer EXCEPT ![Off(u) + actual_length[u] + 1] = sent + 1],
           actual_length' = [actual_length EXCEPT ![u] = @ + 1],
           \A j \in Urbs : Pending(j)' <=> Pending(j)
    PROVE  DataInv'
  <1> DEFINE len == actual_length[u]
             p == Off(u) + (len + 1)
  <1>1. /\ sent \in Nat /\ transferred \in Nat /\ transferred <= sent /\ UrbLength \in Nat
        /\ len \in Nat /\ len < UrbLength /\ NothingBehind(u) /\ Off(u) \in Nat
        /\ Pending(u)
    BY Places, Constants DEF KernelOK, XferOK, UrbInv, DataInv, InPlace, Pending, Queued
  <1>2. sent <= Off(u) + len
    BY <1>1 DEF DataInv, Room
  <1>3. /\ actual_length'[u] = len + 1
        /\ \A j \in Urbs : j # u => actual_length'[j] = actual_length[j]
    BY DEF KernelOK
  <1>4. /\ p \in 1 .. Length /\ buffer'[p] = sent + 1
        /\ \A k \in 1 .. Length : k # p => buffer'[k] = buffer[k]
    <2>1. len + 1 \in 1 .. UrbLength /\ Off(u) + len + 1 = p
      BY <1>1
    <2>2. p \in 1 .. Length
      BY <2>1, Places
    <2>3. buffer' = [buffer EXCEPT ![p] = sent + 1] /\ buffer \in [1 .. Length -> Nat]
      BY <2>1 DEF KernelOK
    <2> HIDE DEF p
    <2> QED BY <2>2, <2>3
  <1>5. ASSUME NEW j \in Urbs, NEW k \in 1 .. UrbLength, j # u \/ k # len + 1
        PROVE  buffer'[Off(j) + k] = buffer[Off(j) + k]
    <2>1. Off(j) + k \in 1 .. Length /\ len + 1 \in 1 .. UrbLength /\ Off(j) \in Nat
      BY <1>1, Places
    <2>2. Off(j) + k # p
      <3>1. CASE j = u
        BY <1>1, <1>5, <3>1
      <3>2. CASE j # u
        BY <2>1, <3>2, Places
      <3> QED BY <3>1, <3>2
    <2> HIDE DEF p
    <2> QED BY <1>4, <2>1, <2>2
  <1>6. \A j \in Held : j \in Urbs /\ actual_length[j] \in 1 .. UrbLength /\ From(j) \in Nat /\ Off(j) \in Nat /\ Run(j)
    BY HeldFacts
  <1>7. Held' = Held \cup {u}
    <2>1. \A j \in Urbs : actual_length'[j] > 0 <=> actual_length[j] > 0 \/ j = u
      BY <1>1, <1>3
    <2> QED BY <1>1, <2>1 DEF Held
  <1>8. \A j \in Held \ {u} : j < u
    <2>1. \A j \in Held : ~(j > u)
      BY <1>1, <1>6, Constants DEF NothingBehind
    <2> QED BY <1>6, <2>1, Constants
  <1>9. \A j \in Held : From(j)' = From(j)
    <2>1. \A j \in Held : j # u \/ 1 # len + 1
      BY <1>1, <1>6
    <2> QED BY <1>1, <1>5, <1>6, <2>1 DEF From, Off
  <1> HIDE DEF len, p
  <1>10. IF u \in Held THEN From(u) + len = sent + 1 ELSE len = 0 /\ From(u)' = sent + 1
    <2>1. CASE u \in Held
      <3>1. From(u) + len <= sent + 1 /\ transferred < From(u) /\ len > 0 /\ From(u) \in Nat
        BY <1>1, <1>6, <2>1 DEF Run, len
      <3>2. CASE From(u) + len <= sent
        <4>1. sent \in transferred + 1 .. sent
          BY <1>1, <3>1, <3>2
        <4>2. PICK j \in Held : From(j) <= sent /\ sent < From(j) + actual_length[j]
          BY <4>1 DEF DataInv, NoGap
        <4>3. j # u
          BY <3>2, <4>2, <1>1, <3>1 DEF len
        <4>4. From(j) + actual_length[j] <= From(u)
          BY <1>6, <1>8, <2>1, <4>3 DEF Run
        <4> QED BY <1>1, <1>6, <3>1, <3>2, <4>2, <4>4
      <3> QED BY <1>1, <2>1, <3>1, <3>2
    <2>2. CASE u \notin Held
      <3>1. len = 0
        BY <1>1, <2>2 DEF Held, len
      <3>2. p = Off(u) + 1
        BY <3>1, <1>1 DEF p
      <3> QED BY <1>4, <2>2, <3>1, <3>2 DEF From, Off
    <2> QED BY <2>1, <2>2
  <1>11. InPlace'
    <2>1. ASSUME NEW k \in 1 .. transferred PROVE buffer'[k] = k
      <3>1. k # p /\ k \in 1 .. Length
        <4>1. k < Off(u) + (len + 1)
          BY <1>1, <1>2
        <4>2. Off(u) + (len + 1) \in 1 .. Length /\ Length \in Nat
          BY <1>4, Constants DEF p
        <4> QED BY <1>1, <4>1, <4>2 DEF p
      <3> QED BY <1>4, <3>1 DEF DataInv, InPlace
    <2> QED BY <1>1, <2>1 DEF InPlace
  <1>12. ASSUME NEW j \in Held' PROVE Run(j)'
    <2>1. CASE j = u
      <3>1. /\ From(u)' + len = sent + 1 /\ From(u)' \in Nat
            /\ transferred < From(u)' /\ From(u)' <= Off(u) + 1
        <4>1. CASE u \in Held
          BY <1>6, <1>9, <1>10, <4>1 DEF Run
        <4>2. CASE u \notin Held
          BY <1>1, <1>2, <1>10, <4>2
        <4> QED BY <4>1, <4>2
      <3>2. From(u)' + actual_length'[u] <= sent' + 1
        BY <1>1, <1>3, <3>1
      <3>3. ASSUME NEW k \in 1 .. actual_length'[u] PROVE buffer'[Off(u) + k] = From(u)' + k - 1
        <4>1. CASE k = len + 1
          <5>1. Off(u) + k = p
            BY <4>1 DEF p
          <5> QED BY <1>1, <1>4, <3>1, <4>1, <5>1
        <4>2. CASE k # len + 1
          <5>1. k \in 1 .. len /\ k \in 1 .. UrbLength /\ len > 0
            BY <1>1, <1>3, <4>2
          <5>2. u \in Held
            BY <1>1, <5>1 DEF Held, len
          <5>3. buffer[Off(u) + k] = From(u) + k - 1
            BY <1>6, <5>1, <5>2 DEF Run, len
          <5> QED BY <1>5, <1>9, <4>2, <5>1, <5>2, <5>3
        <4> QED BY <4>1, <4>2
      <3>4. ASSUME NEW l \in Held', u < l PROVE FALSE
        <4>1. l \in Held \ {u}
          BY <1>1, <1>7, <3>4, Constants
        <4> QED BY <1>6, <1>8, <3>4, <4>1, Constants
      <3>5. Off(u)' = Off(u)
        BY DEF Off
      <3> QED BY <2>1, <3>1, <3>2, <3>3, <3>4, <3>5 DEF Run
    <2>2. CASE j # u
      <3>1. j \in Held /\ Run(j) /\ j \in Urbs
        BY <1>6, <1>7, <2>2
      <3>2. /\ From(j)' = From(j) /\ actual_length'[j] = actual_length[j] /\ From(j) \in Nat
            /\ actual_length[j] \in 1 .. UrbLength /\ Off(j)' = Off(j)
        BY <1>3, <1>6, <1>9, <2>2, <3>1 DEF Off
      <3>3. From(j) + actual_length[j] <= sent' + 1
        BY <1>1, <3>1, <3>2 DEF Run
      <3>4. \A k \in 1 .. actual_length[j] : buffer'[Off(j) + k] = From(j) + k - 1
        <4>1. \A k \in 1 .. actual_length[j] : k \in 1 .. UrbLength
          BY <1>1, <3>2
        <4> QED BY <1>5, <2>2, <3>1, <4>1 DEF Run
      <3>5. ASSUME NEW l \in Held', j < l PROVE From(j) + actual_length[j] <= From(l)'
        <4>1. CASE l \in Held
          BY <1>9, <3>1, <3>5, <4>1 DEF Run
        <4>2. CASE l \notin Held
          <5>1. l = u /\ From(u)' = sent + 1
            BY <1>7, <1>10, <4>2
          <5> QED BY <3>1, <5>1 DEF Run
        <4> QED BY <4>1, <4>2
      <3> QED BY <3>1, <3>2, <3>3, <3>4, <3>5 DEF Run
    <2> QED BY <2>1, <2>2
  <1>13. NoGap'
    <2> SUFFICES ASSUME NEW d \in transferred + 1 .. sent + 1
                 PROVE  \E j \in Held' : From(j)' <= d /\ d < From(j)' + actual_length'[j]
      BY DEF NoGap
    <2>1. CASE d = sent + 1
      <3>1. From(u)' + len = sent + 1 /\ From(u)' \in Nat /\ u \in Held'
        BY <1>1, <1>6, <1>7, <1>9, <1>10
      <3> QED BY <1>1, <1>3, <2>1, <3>1
    <2>2. CASE d # sent + 1
      <3>1. d \in transferred + 1 .. sent
        BY <1>1, <2>2
      <3>2. PICK j \in Held : From(j) <= d /\ d < From(j) + actual_length[j]
        BY <3>1 DEF DataInv, NoGap
      <3>3. actual_length'[j] = actual_length[j] \/ (j = u /\ actual_length'[j] = actual_length[j] + 1)
        BY <1>3, <1>6 DEF len
      <3>4. d < From(j) + actual_length'[j]
        BY <1>1, <1>6, <3>1, <3>2, <3>3
      <3> QED BY <1>7, <1>9, <3>2, <3>4
    <2> QED BY <2>1, <2>2
  <1>14. Room'
    <2> SUFFICES ASSUME NEW i \in Urbs, NothingBehind(i)' PROVE sent + 1 <= Off(i) + actual_length'[i]
      BY DEF Room, Off
    <2>1. ~(u > i)
      BY <1>1, <1>3 DEF NothingBehind
    <2>2. CASE i = u
      BY <1>1, <1>2, <1>3, <2>2
    <2>3. CASE i # u
      <3>1. Off(u) + UrbLength <= Off(i) /\ Off(i) \in Nat /\ actual_length'[i] \in Nat
        <4>1. u < i
          BY <2>1, <2>3, Constants
        <4>2. actual_length'[i] = actual_length[i] /\ actual_length[i] \in Nat
          <5>1. actual_length[i] \in 0 .. UrbLength
            BY Places
          <5> QED BY <1>1, <1>3, <2>3, <5>1
        <4> QED BY <4>1, <4>2, Places
      <3> QED BY <1>1, <1>2, <3>1
    <2> QED BY <2>2, <2>3
  <1>15. Runs'
    BY <1>12 DEF Runs
  <1> QED BY <1>11, <1>13, <1>14, <1>15 DEF DataInv

\* The run of the next URB to retire is the first that is not in place.
LEMMA FirstRun ==
    ASSUME KernelOK, XferOK, UrbInv, ReadyInv, DataInv, Len(ready) > 0, NEW i \in Urbs, ready[1] = i
    PROVE  /\ i \notin Queued
           /\ \A l \in 2 .. Len(ready) : ready[l] # i
           /\ actual_length[i] > 0 =>
                /\ i \in Held /\ From(i) = transferred + 1
                /\ \A j \in Held : j # i => i < j
  <1>1. /\ Len(ready) \in Nat /\ 1 \in 1 .. Len(ready) /\ \A l \in 2 .. Len(ready) : l \in 1 .. Len(ready) /\ 1 < l
        /\ transferred \in Nat /\ sent \in Nat
    BY DEF KernelOK, XferOK
  <1>2. i \notin Queued
    BY <1>1 DEF ReadyInv, Queued, Finished, EarlyEnds
  <1>3. \A l \in 2 .. Len(ready) : ready[l] # i
    BY <1>1 DEF ReadyInv
  <1>4. ASSUME actual_length[i] > 0
        PROVE  i \in Held /\ From(i) = transferred + 1 /\ \A j \in Held : j # i => i < j
    <2>1. i \in Held
      BY <1>1, <1>4 DEF Held, Pending
    <2>2. ASSUME NEW j \in Held, j # i PROVE i < j
      <3>1. j \in Urbs /\ actual_length[j] > 0 /\ Pending(j)
        BY DEF Held
      <3>2. CASE j \in Queued
        <4>1. NothingBehind(j)
          BY <3>1, <3>2 DEF UrbInv, Queued
        <4>2. ~(i > j)
          BY <1>4, <4>1 DEF NothingBehind
        <4> QED BY <2>2, <3>1, <4>2, Constants
      <3>3. CASE j \notin Queued
        <4>1. PICK k \in 1 .. Len(ready) : ready[k] = j
          BY <3>1, <3>3 DEF Pending
        <4>2. 1 < k
          BY <1>1, <2>2, <4>1
        <4> QED BY <1>1, <1>4, <3>1, <4>1, <4>2 DEF ReadyInv
      <3> QED BY <3>2, <3>3
    <2>3. Run(i) /\ From(i) \in Nat /\ \A j \in Held : From(j) \in Nat /\ actual_length[j] \in Nat
      <3>1. \A j \in Held : From(j) \in Nat /\ actual_length[j] \in 0 .. UrbLength
        BY Places DEF Held
      <3> QED BY <2>1, <3>1, Constants DEF DataInv, Runs
    <2>4. transferred + 1 <= From(i) /\ transferred + 1 \in transferred + 1 .. sent
      <3>1. actual_length[i] \in Nat
        BY <2>1, <2>3
      <3> QED BY <1>1, <1>4, <2>3, <3>1 DEF Run
    <2>5. PICK j \in Held : From(j) <= transferred + 1
      BY <2>4 DEF DataInv, NoGap
    <2>6. CASE j # i
      <3>1. From(i) + actual_length[i] <= From(j)
        BY <2>2, <2>3, <2>6 DEF Run
      <3> QED BY <1>1, <1>4, <2>1, <2>3, <2>4, <2>5, <3>1
    <2> QED BY <1>1, <2>1, <2>2, <2>3, <2>4, <2>5, <2>6
  <1> QED BY <1>2, <1>3, <1>4

\* Retiring it puts its run in place, if it is moved or already lies there.
LEMMA DataRetired ==
    ASSUME KernelOK, XferOK, UrbInv, ReadyInv, DataInv, NEW i \in Urbs, Len(ready) > 0, ready[1] = i,
           ready' \in Seq(Urbs), Len(ready') = Len(ready) - 1,
           \A k \in 1 .. Len(ready) - 1 : ready'[k] = ready[k + 1],
           UNCHANGED <<urb_status, actual_length, sent>>, Queued' = Queued,
           transferred' = transferred + actual_length[i],
           \/ buffer' = Surplus(i)
           \/ buffer' = buffer /\ (actual_length[i] = 0 \/ transferred = Off(i))
    PROVE  DataInv'
  <1> DEFINE len == actual_length[i]
  <1>1. /\ Len(ready) \in Nat /\ transferred \in Nat /\ sent \in Nat /\ UrbLength \in Nat
        /\ len \in 0 .. UrbLength /\ Off(i) \in Nat /\ Off(i) + UrbLength <= Length /\ Length \in Nat
    BY Places, OffFacts, Constants DEF KernelOK, XferOK
  <1>2. /\ i \notin Queued
        /\ \A l \in 2 .. Len(ready) : ready[l] # i
        /\ len > 0 => i \in Held /\ From(i) = transferred + 1 /\ Run(i) /\ \A j \in Held : j # i => i < j
    BY FirstRun DEF DataInv, Runs
  <1>3. ASSUME NEW j \in Urbs PROVE Pending(j)' <=> Pending(j) /\ j # i
    <2>1. ASSUME NEW k \in 1 .. Len(ready') PROVE ready'[k] = ready[k + 1] /\ k + 1 \in 2 .. Len(ready)
      BY <1>1
    <2>2. ASSUME NEW k \in 2 .. Len(ready) PROVE k - 1 \in 1 .. Len(ready') /\ ready'[k - 1] = ready[k]
      BY <1>1
    <2>3. \A k \in 1 .. Len(ready) : k = 1 \/ k \in 2 .. Len(ready)
      BY <1>1
    <2>4. \A k \in 2 .. Len(ready) : k \in 1 .. Len(ready)
      BY <1>1
    <2>5. Pending(j)' => Pending(j) /\ j # i
      BY <1>2, <2>1, <2>4 DEF Pending
    <2>6. Pending(j) /\ j # i => Pending(j)'
      BY <2>2, <2>3 DEF Pending
    <2> QED BY <2>5, <2>6
  <1>4. Held' = Held \ {i}
    BY <1>3 DEF Held
  <1>5. \A j \in Held : /\ j \in Urbs /\ actual_length[j] \in 1 .. UrbLength /\ From(j) \in Nat
                        /\ Off(j) \in Nat /\ Run(j)
    BY HeldFacts
  <1>6. ASSUME NEW k \in 1 .. Length, k \notin transferred + 1 .. transferred + len
        PROVE  buffer'[k] = buffer[k]
    <2>1. k - transferred \notin 1 .. len
      BY <1>1, <1>6
    <2> QED BY <2>1 DEF Surplus
  <1>7. ASSUME NEW m \in 1 .. len
        PROVE  transferred + m \in 1 .. Length /\ buffer'[transferred + m] = transferred + m
    <2>1. len > 0 /\ transferred <= Off(i)
      BY <1>1, <1>2 DEF Run
    <2>2. transferred + m \in 1 .. Length /\ transferred + m - transferred = m
      BY <1>1, <2>1
    <2>3. buffer'[transferred + m] = buffer[Off(i) + m]
      <3>1. CASE buffer' = Surplus(i)
        <4>1. PICK k \in 1 .. Length : k = transferred + m
          BY <2>2
        <4>2. k - transferred \in 1 .. actual_length[i]
          <5>1. k - transferred = m
            BY <1>1, <4>1
          <5> QED BY <5>1
        <4>3. buffer'[k] = buffer[i * UrbLength + k - transferred]
          BY <3>1, <4>2 DEF Surplus
        <4>4. i * UrbLength = Off(i)
          BY DEF Off
        <4>5. Off(i) + k - transferred = Off(i) + m
          BY <1>1, <4>1
        <4> QED BY <4>1, <4>3, <4>4, <4>5
      <3>2. CASE buffer' = buffer /\ transferred = Off(i)
        BY <3>2
      <3> QED BY <2>1, <3>1, <3>2
    <2>4. buffer[Off(i) + m] = transferred + 1 + m - 1
      BY <1>2, <2>1 DEF Run
    <2> QED BY <1>1, <2>2, <2>3, <2>4
  <1>8. ASSUME NEW j \in Held', NEW k \in 1 .. UrbLength
        PROVE  buffer'[Off(j) + k] = buffer[Off(j) + k]
    <2>1. j \in Held /\ j # i /\ j \in Urbs /\ Off(j) \in Nat /\ Off(j) + k \in 1 .. Length
      BY <1>4, <1>5, Places
    <2>2. CASE len = 0
      BY <1>1, <1>6, <2>1, <2>2
    <2>3. CASE len # 0
      <3>1. len > 0 /\ transferred <= Off(i) /\ i < j
        <4>1. len > 0
          BY <1>1, <2>3
        <4>2. i < j /\ From(i) = transferred + 1 /\ Run(i)
          BY <1>2, <2>1, <4>1
        <4>3. From(i) <= Off(i) + 1
          BY <4>2 DEF Run
        <4> QED BY <1>1, <4>1, <4>2, <4>3
      <3>2. Off(i) + UrbLength <= Off(j)
        BY <2>1, <3>1, OffFacts
      <3>3. Off(j) + k \notin transferred + 1 .. transferred + len
        <4>1. transferred + len <= Off(i) + UrbLength
          BY <1>1, <3>1
        <4>2. k \in Nat /\ k > 0
          OBVIOUS
        <4> QED BY <1>1, <2>1, <3>2, <4>1, <4>2
      <3> QED BY <1>6, <2>1, <3>3
    <2> QED BY <2>2, <2>3
  <1>9. \A j \in Held' : From(j)' = From(j)
    BY <1>8, Constants DEF From, Off
  <1> HIDE DEF len
  <1>10. InPlace'
    <2>1. transferred' \in Nat /\ transferred' = transferred + len /\ transferred' <= sent
      <3>1. CASE len = 0
        BY <1>1, <3>1 DEF DataInv, InPlace, len
      <3>2. CASE len # 0
        <4>1. transferred + 1 + len <= sent + 1
          BY <1>1, <1>2, <3>2 DEF Run, len
        <4> QED BY <1>1, <4>1 DEF len
      <3> QED BY <3>1, <3>2
    <2>2. ASSUME NEW k \in 1 .. transferred' PROVE buffer'[k] = k
      <3>1. CASE k \in 1 .. transferred
        <4>1. k \in 1 .. Length
          <5>1. transferred' <= Length \/ len = 0
            <6>1. len # 0 => transferred <= Off(i)
              BY <1>1, <1>2 DEF Run
            <6> QED BY <1>1, <2>1, <6>1
          <5>2. CASE len = 0
            <6>1. transferred <= Length
              <7>1. transferred <= sent
                BY DEF DataInv, InPlace
              <7>2. sent <= Off(LastUrb) + actual_length[LastUrb]
                <8>1. LastUrb \in Urbs /\ NothingBehind(LastUrb)
                  BY Constants DEF NothingBehind
                <8> QED BY <8>1 DEF DataInv, Room
              <7>3. Off(LastUrb) + UrbLength <= Length /\ actual_length[LastUrb] \in 0 .. UrbLength /\ Off(LastUrb) \in Nat
                BY Places, OffFacts, Constants
              <7> QED BY <1>1, <7>1, <7>2, <7>3
            <6> QED BY <1>1, <3>1, <6>1
          <5> QED BY <1>1, <2>1, <3>1, <5>1, <5>2
        <4>2. k \notin transferred + 1 .. transferred + len
          BY <1>1, <3>1
        <4> QED BY <1>6, <3>1, <4>1, <4>2 DEF DataInv, InPlace
      <3>2. CASE k \notin 1 .. transferred
        <4>1. k - transferred \in 1 .. len /\ transferred + (k - transferred) = k
          BY <1>1, <2>1, <3>2
        <4> QED BY <1>7, <4>1
      <3> QED BY <3>1, <3>2
    <2> QED BY <2>1, <2>2 DEF InPlace
  <1>11. ASSUME NEW j \in Held' PROVE Run(j)'
    <2>1. /\ j \in Held /\ j # i /\ Run(j) /\ From(j)' = From(j) /\ From(j) \in Nat
          /\ actual_length[j] \in 1 .. UrbLength
      BY <1>4, <1>5, <1>9
    <2>2. transferred' < From(j)
      <3>1. CASE len = 0
        BY <1>1, <2>1, <3>1 DEF Run, len
      <3>2. CASE len # 0
        <4>1. From(i) = transferred + 1 /\ Run(i) /\ i < j
          BY <1>1, <1>2, <2>1, <3>2 DEF len
        <4>2. From(i) + actual_length[i] <= From(j)
          BY <2>1, <4>1 DEF Run
        <4> QED BY <1>1, <2>1, <4>1, <4>2 DEF len
      <3> QED BY <3>1, <3>2
    <2>3. \A k \in 1 .. actual_length[j] : buffer'[Off(j) + k] = From(j) + k - 1
      <3>1. \A k \in 1 .. actual_length[j] : k \in 1 .. UrbLength
        BY <1>1, <2>1
      <3>2. \A k \in 1 .. actual_length[j] : buffer[Off(j) + k] = From(j) + k - 1
        BY <2>1 DEF Run
      <3>3. \A k \in 1 .. UrbLength : buffer'[Off(j) + k] = buffer[Off(j) + k]
        BY <1>8, <1>11
      <3> QED BY <3>1, <3>2, <3>3
    <2>4. \A l \in Held' : j < l => From(j) + actual_length[j] <= From(l)'
      BY <1>4, <1>9, <2>1 DEF Run
    <2> QED BY <2>1, <2>2, <2>3, <2>4 DEF Run, Off
  <1>12. NoGap'
    <2> SUFFICES ASSUME NEW d \in transferred' + 1 .. sent
                 PROVE  \E j \in Held' : From(j)' <= d /\ d < From(j)' + actual_length[j]
      BY DEF NoGap
    <2>1. d \in transferred + 1 .. sent /\ transferred + len < d
      BY <1>1 DEF len
    <2>2. PICK j \in Held : From(j) <= d /\ d < From(j) + actual_length[j]
      BY <2>1 DEF DataInv, NoGap
    <2>3. j # i
      <3>1. len > 0 => ~(d < From(i) + len)
        BY <1>1, <1>2, <2>1
      <3>2. j = i => len > 0
        BY <1>5, <1>1 DEF len
      <3> QED BY <2>2, <3>1, <3>2 DEF len
    <2> QED BY <1>4, <1>9, <2>2, <2>3
  <1>13. Room'
    BY DEF DataInv, Room, NothingBehind, Off
  <1>14. Runs'
    BY <1>11 DEF Runs
  <1> QED BY <1>10, <1>12, <1>13, <1>14 DEF DataInv

LEMMA PlaceStep ==
    ASSUME UrbsInv, PlaceInv, [Next]_vars
    PROVE  PlaceInv'
  <1>0. /\ KernelOK /\ TypeInv /\ UrbInv /\ EndedInv /\ JobInv /\ OrderInv
        /\ next \in 0 .. NumUrbs /\ num_retired \in Nat /\ transferred \in Nat
    BY DEF UrbsInv, TypeInv, JobOK, XferOK
  <1>1. PICK lo, hi \in 0 .. NumUrbs : lo <= hi /\ Queued = lo .. hi - 1
    BY DEF UrbsInv, CountInv, Counted
  <1>2. SUFFICES ASSUME reap_action' = "NORMAL", reported' = "no", ~PlainStall' PROVE PlaceInv'
    BY DEF PlaceInv
  <1>12. ~PlainStall
    BY <1>0, <1>2, PlainStallKept
  <1>3. CASE KernelReceives
    <2>1. Queued # {} /\ UNCHANGED <<reapVars, reported>>
      BY <1>3 DEF KernelReceives
    <2> QED BY <1>2, <1>12, <2>1 DEF PlaceInv, Off
  <1>4. CASE KernelEnds
    <2>1. Queued # {} /\ UNCHANGED <<reapVars, reported>>
      BY <1>4 DEF KernelEnds
    <2> QED BY <1>2, <1>12, <2>1 DEF PlaceInv, Off
  <1>5. CASE SubmitUrb
    <2>1. job = "submit" /\ UNCHANGED <<reapVars, reported>>
      BY <1>5 DEF SubmitUrb
    <2> QED BY <1>2, <1>12, <2>1 DEF PlaceInv, Off
  <1>6. CASE SubmitEndsEarly \/ SubmitFails
    BY <1>2, <1>12, <1>6 DEF SubmitEndsEarly, SubmitFails
  <1>7. CASE DiscardUrb
    <2>1. job = "discard" /\ UNCHANGED <<job, actual_length, reapVars, reported>>
      BY <1>7 DEF DiscardUrb
    <2>2. Queued = {} => Queued' = {}
      <3>1. DiscardOrder(todo) \notin Queued => UNCHANGED urb_status
        BY <1>7 DEF DiscardUrb
      <3> QED BY <3>1 DEF Queued
    <2> QED BY <1>2, <1>12, <2>1, <2>2 DEF PlaceInv, Off
  <1>8. CASE DiscardEnds
    <2>1. /\ UNCHANGED <<urb_status, actual_length, transferred, num_retired, reported>>
          /\ reap_action = "NORMAL" /\ job' # "submit"
      BY <1>2, <1>12, <1>8 DEF DiscardEnds
    <2> QED BY <1>2, <1>12, <2>1 DEF PlaceInv, Off, Queued
  <1>9. CASE Cancel
    <2>1. UNCHANGED <<urb_status, actual_length, reapVars, reported>> /\ job' # "submit"
      BY <1>9 DEF Cancel
    <2> QED BY <1>2, <1>12, <2>1 DEF PlaceInv, Off, Queued
  <1>10. CASE Reap
    <2>1. PICK i \in Urbs : /\ ready[1] = i /\ Len(ready) > 0
                            /\ transferred' = transferred + actual_length[i]
                            /\ ReapAbnormal(i) \/ ReapNormal(i) \/ ReapShort(i) \/ ReapFailed(i)
      BY <1>0, <1>10, ReapFacts
    <2>2. /\ num_retired' = num_retired + 1 /\ job = "none" /\ reported = "no"
          /\ UNCHANGED <<actual_length, next>> /\ Queued' = Queued
      BY <1>0, <1>10, ReapFacts
    <2>3. CASE reap_action = "NORMAL"
      <3>1. InOrder /\ next = NumUrbs
        BY <1>12, <2>2, <2>3, <1>0 DEF OrderInv, Disturbed
      <3>2. i = num_retired
        BY <1>0, <2>1, <3>1, Constants, HeadInOrder
      <3>3. Off(num_retired') = Off(i) + UrbLength
        BY <1>0, <2>2, <3>2, OffFacts
      <3>4. CASE ReapNormal(i)
        <4>1. i # LastUrb /\ actual_length[i] = UrbLength
          <5>1. reap_status # "no"
            BY DEF UrbsInv, TypeInv, XferOK
          <5> QED BY <1>2, <1>12, <3>4, <5>1 DEF ReapNormal, Report
        <4>2. transferred = Off(num_retired)
          BY <1>0, <1>12, <2>2, <2>3, <3>2, <4>1, Constants DEF PlaceInv
        <4>3. transferred' = Off(num_retired')
          BY <2>1, <3>2, <3>3, <4>1, <4>2
        <4> QED BY <4>3 DEF PlaceInv, Off
      <3>5. CASE ReapFailed(i)
        <4>1. urb_status[i] = "stall"
          BY <1>2, <1>12, <3>5 DEF ReapFailed
        <4>2. Queued' = {} /\ NothingBehind(i)
          <5>1. NothingBehind(i)
            BY <1>0, <4>1 DEF UrbInv
          <5>2. reap_status' = "STALL" /\ mode' = mode
            BY <1>0, <1>12, <2>3, <3>5, <4>1 DEF ReapFailed, Retire, PlainStall, JobInv, UrbsInv, TypeInv, XferOK
          <5>3. mode = "continuation"
            BY <1>0, <1>2, <5>2 DEF PlainStall, KernelOK, Modes
          <5> QED BY <1>0, <2>2, <4>1, <5>1, <5>3 DEF EndedInv, Broken
        <4>3. \A j \in Urbs : j >= num_retired' => actual_length'[j] = 0
          BY <1>0, <2>2, <3>2, <4>2, Constants DEF NothingBehind
        <4>4. job' # "submit"
          BY <2>2, <3>5, ReapJob
        <4> QED BY <4>2, <4>3, <4>4 DEF PlaceInv
      <3>6. CASE ReapShort(i)
        BY <1>2, <1>12, <3>6 DEF ReapShort
      <3> QED BY <2>1, <2>3, <3>4, <3>5, <3>6 DEF ReapAbnormal
    <2>4. CASE reap_action # "NORMAL"
      BY <1>2, <1>12, <2>1, <2>4 DEF ReapAbnormal, ReapNormal, ReapShort, ReapFailed
    <2> QED BY <2>3, <2>4
  <1>11. CASE UNCHANGED vars
    BY <1>2, <1>12, <1>11 DEF vars, PlaceInv, Off, Queued
  <1> QED BY <1>3, <1>4, <1>5, <1>6, <1>7, <1>8, <1>9, <1>10, <1>11 DEF Next, Work, Idle

LEMMA DataStep ==
    ASSUME UrbsInv, PlaceInv, DataInv, [Next]_vars
    PROVE  DataInv'
  <1>0. /\ KernelOK /\ TypeInv /\ XferOK /\ UrbInv /\ ReadyInv /\ JobInv /\ OrderInv
        /\ next \in 0 .. NumUrbs
    BY DEF UrbsInv, TypeInv, JobOK
  <1>1. PICK lo, hi \in 0 .. NumUrbs : lo <= hi /\ Queued = lo .. hi - 1
    BY DEF UrbsInv, CountInv, Counted
  <1>2. CASE KernelReceives
    <2>1. /\ lo \in Urbs /\ urb_status[lo] = "queued" /\ sent' = sent + 1 /\ transferred' = transferred
          /\ buffer' = [buffer EXCEPT ![Off(lo) + actual_length[lo] + 1] = sent + 1]
          /\ actual_length' = [actual_length EXCEPT ![lo] = @ + 1]
          /\ Ends(lo, 0, "ok") \/ UNCHANGED <<ready, Queued>>
      BY <1>0, <1>1, <1>2, ReceivesFacts DEF KernelReceives
    <2>2. \A j \in Urbs : Pending(j)' <=> Pending(j)
      <3>1. CASE Ends(lo, 0, "ok")
        BY <1>0, <3>1, PendingEnds
      <3>2. CASE UNCHANGED <<ready, Queued>>
        BY <3>2 DEF Pending
      <3> QED BY <2>1, <3>1, <3>2
    <2> QED BY <1>0, <2>1, <2>2, DataReceived
  <1>3. CASE KernelEnds \/ DiscardUrb
    <2>1. UNCHANGED <<buffer, actual_length, sent, transferred>>
      BY <1>3 DEF KernelEnds, DiscardUrb
    <2>2. (\E i, n, s : Ends(i, n, s)) \/ UNCHANGED <<urb_status, ready>>
      <3>1. CASE KernelEnds
        BY <1>0, <1>1, <3>1, KernelEndsFacts
      <3>2. CASE DiscardUrb
        BY <1>0, <1>1, <3>2, DiscardFacts DEF JobInv
      <3> QED BY <1>3, <3>1, <3>2
    <2>3. \A j \in Urbs : Pending(j)' <=> Pending(j)
      <3>1. CASE \E i, n, s : Ends(i, n, s)
        BY <1>0, <3>1, PendingEnds
      <3>2. CASE UNCHANGED <<urb_status, ready>>
        BY <3>2 DEF Pending, Queued
      <3> QED BY <2>2, <3>1, <3>2
    <2>4. Held' = Held
      BY <2>1, <2>3 DEF Held
    <2> QED BY <2>1, <2>4, DataKept
  <1>4. CASE SubmitUrb
    <2>1. UNCHANGED <<ready, buffer, actual_length, sent, transferred>> /\ job = "submit"
      BY <1>4 DEF SubmitUrb
    <2>2. next \in Urbs /\ actual_length[next] = 0
      BY <1>0, <2>1, Constants DEF TypeInv, JobOK, UrbInv
    <2>3. \A j \in Urbs : j # next => (j \in Queued' <=> j \in Queued)
      BY <1>0, <1>4 DEF SubmitUrb, Queued, KernelOK
    <2>4. Held' = Held
      BY <2>1, <2>2, <2>3 DEF Held, Pending
    <2> QED BY <2>1, <2>4, DataKept
  <1>5. CASE SubmitEndsEarly \/ SubmitFails \/ DiscardEnds \/ Cancel \/ UNCHANGED vars
    <2>1. UNCHANGED <<urb_status, ready, buffer, actual_length, sent, transferred>>
      BY <1>5 DEF SubmitEndsEarly, SubmitFails, DiscardEnds, Cancel, vars
    <2>2. Held' = Held
      BY <2>1 DEF Held, Pending, Queued
    <2> QED BY <2>1, <2>2, DataKept
  <1>6. CASE Reap
    <2>1. PICK i \in Urbs : /\ ready[1] = i /\ Len(ready) > 0
                            /\ transferred' = transferred + actual_length[i]
                            /\ buffer' = buffer \/ buffer' = Surplus(i)
                            /\ ReapAbnormal(i) \/ ReapNormal(i) \/ ReapShort(i) \/ ReapFailed(i)
      BY <1>0, <1>6, ReapFacts
    <2>2. /\ ready' \in Seq(Urbs) /\ Len(ready') = Len(ready) - 1
          /\ \A k \in 1 .. Len(ready) - 1 : ready'[k] = ready[k + 1]
          /\ job = "none" /\ reported = "no"
          /\ UNCHANGED <<urb_status, actual_length, sent>>
          /\ Queued' = Queued
      BY <1>0, <1>6, ReapFacts
    <2>3. \/ buffer' = Surplus(i)
          \/ buffer' = buffer /\ (actual_length[i] = 0 \/ transferred = Off(i))
      <3>1. CASE ReapAbnormal(i)
        BY <3>1 DEF ReapAbnormal
      <3>2. CASE PlainStall
        <4>1. Pending(i)
          BY <2>1 DEF Pending, UrbsInv, TypeInv, KernelOK
        <4> QED BY <2>1, <3>2, <4>1 DEF UrbsInv, StallInv
      <3>3. CASE reap_action = "NORMAL" /\ ~PlainStall
        <4>1. InOrder /\ next = NumUrbs
          BY <1>0, <2>2, <3>3 DEF OrderInv, Disturbed
        <4>2. i = num_retired
          BY <1>0, <2>1, <4>1, Constants, HeadInOrder
        <4>3. i >= num_retired
          BY <4>2, Constants
        <4> QED BY <2>1, <2>2, <3>3, <4>2, <4>3 DEF PlaceInv
      <3> QED BY <2>1, <3>1, <3>2, <3>3 DEF ReapNormal, ReapShort, ReapFailed
    <2> QED BY <1>0, <2>1, <2>2, <2>3, DataRetired
  <1> QED BY <1>2, <1>3, <1>4, <1>5, <1>6 DEF Next, Work, Idle

LEMMA DataInit == Init => PlaceInv /\ DataInv
  <1> SUFFICES ASSUME Init PROVE PlaceInv /\ DataInv
    OBVIOUS
  <1>1. KernelOK /\ transferred = 0 /\ sent = 0 /\ num_retired = 0 /\ Held = {}
    BY UrbsInit DEF UrbsInv, TypeInv, Init, Held
  <1>2. PlaceInv
    BY <1>1, OffFacts DEF PlaceInv
  <1>3. InPlace /\ Runs /\ NoGap
    BY <1>1 DEF InPlace, Runs, NoGap
  <1>4. Room
    <2>1. \A i \in Urbs : Off(i) \in Nat /\ actual_length[i] = 0
      BY <1>1, Places DEF Init
    <2> QED BY <1>1, <2>1 DEF Room
  <1> QED BY <1>2, <1>3, <1>4 DEF DataInv

\* linux_usbfs.c:2265-2279: what the device has sent is complete, in one piece and in
\* order when the transfer is reported, however its URBs ended and came back: what is
\* reaped after the end is moved down to the data that are in place.
THEOREM NothingIsLost == Spec => []DataWhole
  <1> DEFINE Inv == UrbsInv /\ PlaceInv /\ DataInv
  <1>1. Init => Inv
    BY UrbsInit, DataInit
  <1>2. Inv /\ [Next]_vars => Inv'
    BY UrbsStep, PlaceStep, DataStep
  <1>3. Inv => DataWhole
    <2> SUFFICES ASSUME Inv, reported # "no"
                 PROVE  transferred = sent /\ \A k \in 1 .. sent : buffer[k] = k
      BY DEF DataWhole
    <2>1. num_retired = NumUrbs => Held = {}
      <3> SUFFICES ASSUME num_retired = NumUrbs PROVE Held = {}
        OBVIOUS
      <3>1. Queued = {} /\ ready = <<>>
        BY AllAccounted DEF UrbsInv, JobInv
      <3> QED BY <3>1 DEF Held, Pending
    <2>2. Held = {}
      <3>1. CASE num_retired # NumUrbs
        <4>1. PlainStall
          BY <3>1 DEF UrbsInv, JobInv
        <4> QED BY <4>1 DEF UrbsInv, StallInv, Held
      <3> QED BY <2>1, <3>1
    <2>3. transferred \in Nat /\ sent \in Nat
      BY DEF UrbsInv, TypeInv, KernelOK, XferOK
    <2>4. \A d \in transferred + 1 .. sent : FALSE
      BY <2>2 DEF DataInv, NoGap
    <2>5. transferred = sent
      <3>1. CASE transferred < sent
        <4>1. sent \in transferred + 1 .. sent
          BY <2>3, <3>1
        <4> QED BY <2>4, <4>1
      <3> QED BY <2>3, <3>1 DEF DataInv, InPlace
    <2> QED BY <2>5 DEF DataInv, InPlace
  <1> QED BY <1>1, <1>2, <1>3, PTL DEF Spec

-----------------------------------------------------------------------------
(***************************************************************************)
(* The result.  What it is taken from really happened; and as long as      *)
(* nothing has disturbed the transfer an URB is discarded only behind one  *)
(* that ended early.                                                       *)
(***************************************************************************)
Happened(s) == \E i \in Urbs : urb_status[i] = s

Reasons ==
    /\ reap_action = "CANCELLED" => cancelling = "yes"
    /\ reap_action = "ERROR" => Happened("error")
    /\ reap_action = "COMPLETED_EARLY" =>
         Happened("short") \/ reap_status # "COMPLETED" \/ (mode = "continuation" /\ next < NumUrbs)
    /\ reap_status = "STALL" => halted
    /\ reap_status = "ERROR" => Happened("error") \/ reap_action \in {"SUBMIT_FAILED", "CANCELLED"}

RetiredWell ==
    reap_action = "NORMAL" /\ reported = "no" /\ reap_status = "COMPLETED" =>
      \A i \in Urbs : i < num_retired => urb_status[i] = "ok"

Behind == \A i \in Urbs : urb_status[i] = "discarded" => \E j \in Urbs : j < i /\ urb_status[j] \in EarlyEnds

ResultInv ==
    /\ Reasons
    /\ RetiredWell
    /\ reap_action = "NORMAL" /\ ~PlainStall /\ ~Disturbed => Behind

\* How an URB ended does not change.
LEMMA EndsOnce ==
    ASSUME UrbsInv, [Next]_vars
    PROVE  /\ \A i \in Urbs : urb_status[i] \in Finished => urb_status'[i] = urb_status[i]
           /\ mode' = mode /\ (halted => halted')
  <1>0. /\ KernelOK /\ TypeInv /\ UrbInv /\ JobInv /\ next \in 0 .. NumUrbs
    BY DEF UrbsInv, TypeInv, JobOK
  <1>1. PICK lo, hi \in 0 .. NumUrbs : lo <= hi /\ Queued = lo .. hi - 1
    BY DEF UrbsInv, CountInv, Counted
  <1>2. ASSUME \E i, n, s : Ends(i, n, s)
        PROVE  \A i \in Urbs : urb_status[i] \in Finished => urb_status'[i] = urb_status[i]
    <2>1. PICK i, n, s : Ends(i, n, s)
      BY <1>2
    <2>2. \A j \in i .. i + n : j \in Urbs /\ urb_status[j] \notin Finished
      BY <2>1 DEF Ends, Queued, Finished, EarlyEnds
    <2>3. i \in i .. i + n /\ \A j \in i + 1 .. i + n : j \in i .. i + n
      BY <2>1, Constants DEF Ends
    <2> QED BY <2>1, <2>2, <2>3 DEF Ends
  <1>3. CASE KernelReceives
    <2>1. (\E i, n, s : Ends(i, n, s)) \/ urb_status' = urb_status
      BY <1>0, <1>1, <1>3, ReceivesFacts
    <2> QED BY <1>2, <1>3, <2>1 DEF KernelReceives
  <1>4. CASE KernelEnds
    <2>1. (\E i, n, s : Ends(i, n, s)) /\ (halted => halted')
      BY <1>0, <1>1, <1>4, KernelEndsFacts
    <2> QED BY <1>2, <1>4, <2>1 DEF KernelEnds
  <1>5. CASE DiscardUrb
    <2>1. (\E i, n, s : Ends(i, n, s)) \/ urb_status' = urb_status
      BY <1>0, <1>1, <1>5, DiscardFacts DEF JobInv
    <2> QED BY <1>2, <1>5, <2>1 DEF DiscardUrb
  <1>6. CASE SubmitUrb
    <2>1. next \in Urbs /\ urb_status[next] \notin Finished
      BY <1>0, <1>6, Constants DEF SubmitUrb, TypeInv, JobOK, UrbInv, Finished, EarlyEnds
    <2> QED BY <1>0, <1>6, <2>1 DEF SubmitUrb, KernelOK
  <1>7. CASE Reap
    BY <1>0, <1>7, ReapFacts
  <1>8. CASE SubmitEndsEarly \/ SubmitFails \/ DiscardEnds \/ Cancel \/ UNCHANGED vars
    BY <1>8 DEF SubmitEndsEarly, SubmitFails, DiscardEnds, Cancel, vars
  <1> QED BY <1>3, <1>4, <1>5, <1>6, <1>7, <1>8 DEF Next, Work, Idle

\* An URB is discarded behind one that ended early, or by a discard that disturbs the transfer.
LEMMA BehindStep ==
    ASSUME UrbsInv, [Next]_vars, reap_action' = "NORMAL", ~PlainStall', ~Disturbed',
           reap_action = "NORMAL" /\ ~PlainStall /\ ~Disturbed => Behind
    PROVE  reap_action = "NORMAL" /\ ~Disturbed /\ Behind'
  <1>0. /\ KernelOK /\ TypeInv /\ UrbInv /\ JobInv /\ OrderInv /\ next \in 0 .. NumUrbs
        /\ \A i \in Urbs : urb_status[i] \in Finished => urb_status'[i] = urb_status[i]
    BY EndsOnce DEF UrbsInv, TypeInv, JobOK
  <1>1. PICK lo, hi \in 0 .. NumUrbs : lo <= hi /\ Queued = lo .. hi - 1
    BY DEF UrbsInv, CountInv, Counted
  <1>12. ~PlainStall
    BY <1>0, PlainStallKept
  <1>2. ASSUME Behind, \A i \in Urbs : urb_status'[i] = "discarded" =>
                          urb_status[i] = "discarded" \/ \E j \in Urbs : j < i /\ urb_status'[j] \in EarlyEnds
        PROVE  Behind'
    BY <1>0, <1>2 DEF Behind, Finished
  <1>3. CASE KernelReceives
    <2>1. UNCHANGED <<reapVars, jobVars>>
      BY <1>3 DEF KernelReceives
    <2>2. Ends(lo, 0, "ok") \/ urb_status' = urb_status
      BY <1>0, <1>1, <1>3, ReceivesFacts
    <2>3. lo \in Int /\ lo + 1 .. lo + 0 = {}
      BY Constants
    <2>4. \A i \in Urbs : urb_status'[i] = "discarded" => urb_status[i] = "discarded"
      BY <2>2, <2>3 DEF Ends
    <2> QED BY <1>12, <1>2, <2>1, <2>4 DEF Disturbed
  <1>4. CASE KernelEnds
    <2>1. UNCHANGED <<reapVars, jobVars>>
      BY <1>4 DEF KernelEnds
    <2>2. PICK s \in EarlyEnds, n \in Nat : Ends(lo, n, s)
      BY <1>0, <1>1, <1>4, KernelEndsFacts
    <2>3. lo \in Urbs /\ urb_status'[lo] \in EarlyEnds
      BY <2>2 DEF Ends
    <2>4. \A i \in lo + 1 .. lo + n : lo < i
      BY Constants
    <2>5. \A i \in Urbs : urb_status'[i] = "discarded" => urb_status[i] = "discarded" \/ lo < i
      BY <2>2, <2>4 DEF Ends, EarlyEnds
    <2> QED BY <1>12, <1>2, <2>1, <2>3, <2>5 DEF Disturbed
  <1>5. CASE SubmitUrb
    <2>1. job = "submit" /\ reap_action = "NORMAL" /\ ~Disturbed
      BY <1>0, <1>5 DEF SubmitUrb, JobInv, Disturbed
    <2>2. \A i \in Urbs : urb_status'[i] = "discarded" => urb_status[i] = "discarded"
      BY <1>0, <1>5 DEF SubmitUrb, KernelOK
    <2> QED BY <1>12, <1>2, <2>1, <2>2
  <1>6. CASE DiscardUrb
    <2>1. job = "discard" /\ UNCHANGED <<job, last, reap_action, cancelling>>
      BY <1>6 DEF DiscardUrb
    <2>2. PICK i \in Urbs :
             /\ \A j \in todo : j <= i
             /\ i \in todo /\ todo' = todo \ {i}
             /\ \/ i \in Queued /\ found' = found
                \/ i \notin Queued /\ found' = (found /\ i # last) /\ urb_status' = urb_status
      BY <1>0, <1>1, <1>6, DiscardFacts DEF JobInv
    <2>3. last = LastUrb /\ (LastUrb \in todo => found) /\ (Queued # {} => LastUrb \in todo \/ found)
      BY <1>0, <1>12, <2>1 DEF OrderInv
    <2>4. LastUrb \notin todo'
      BY <2>2, Constants
    <2>5. i \notin Queued
      BY <2>1, <2>2, <2>3, <2>4 DEF Disturbed
    <2>6. ~Disturbed
      BY <2>1, <2>2, <2>3, <2>4, <2>5 DEF Disturbed
    <2> QED BY <1>12, <1>2, <2>1, <2>2, <2>5, <2>6
  <1>7. CASE DiscardEnds
    <2>1. reap_action = "NORMAL" /\ (cancelling = "asked" => ~found) /\ urb_status' = urb_status
      BY <1>7 DEF DiscardEnds
    <2>2. ~Disturbed
      BY <1>0, <1>12, <2>1 DEF OrderInv, Disturbed
    <2> QED BY <1>12, <1>2, <2>1, <2>2
  <1>8. CASE SubmitEndsEarly \/ SubmitFails
    BY <1>8 DEF SubmitEndsEarly, SubmitFails
  <1>9. CASE Cancel
    BY <1>12, <1>2, <1>9 DEF Cancel, Disturbed
  <1>10. CASE Reap
    <2>1. job = "none" /\ urb_status' = urb_status
      BY <1>0, <1>10, ReapFacts
    <2>2. reap_action = "NORMAL"
      BY <1>10 DEF Reap, ReapAbnormal, ReapNormal, ReapShort, ReapFailed
    <2> QED BY <1>12, <1>2, <2>1, <2>2 DEF Disturbed
  <1>11. CASE UNCHANGED vars
    BY <1>12, <1>2, <1>11 DEF vars, Disturbed
  <1> QED BY <1>3, <1>4, <1>5, <1>6, <1>7, <1>8, <1>9, <1>10, <1>11 DEF Next, Work, Idle

LEMMA ResultStep ==
    ASSUME UrbsInv, ResultInv, [Next]_vars
    PROVE  ResultInv'
  <1>0. /\ KernelOK /\ TypeInv /\ XferOK /\ UrbInv /\ JobInv /\ OrderInv
        /\ next \in 0 .. NumUrbs /\ num_retired \in Nat
        /\ Reasons /\ RetiredWell
    BY DEF UrbsInv, TypeInv, JobOK, XferOK, ResultInv
  <1>1. /\ \A i \in Urbs : urb_status[i] \in Finished => urb_status'[i] = urb_status[i]
        /\ mode' = mode /\ (halted => halted')
        /\ \A s \in Finished : Happened(s) => Happened(s)'
    BY EndsOnce DEF Happened
  <1>2. {"short", "error", "ok"} \subseteq Finished
    BY DEF Finished, EarlyEnds
  <1>3. reap_action' = "NORMAL" /\ ~PlainStall' /\ ~Disturbed' => Behind'
    BY BehindStep DEF ResultInv
  <1>4. SUFFICES Reasons' /\ RetiredWell'
    BY <1>3 DEF ResultInv
  <1>5. CASE KernelReceives \/ KernelEnds \/ DiscardUrb \/ UNCHANGED vars
    <2>1. UNCHANGED <<reapVars, next, cancelling, reported>>
      BY <1>5 DEF KernelReceives, KernelEnds, DiscardUrb, vars
    <2>2. Reasons'
      BY <1>0, <1>1, <1>2, <2>1 DEF Reasons
    <2>3. RetiredWell'
      BY <1>0, <1>1, <1>2, <2>1 DEF RetiredWell
    <2> QED BY <2>2, <2>3
  <1>6. CASE SubmitUrb
    <2>1. UNCHANGED <<reapVars, cancelling, reported>> /\ job = "submit"
      BY <1>6 DEF SubmitUrb
    <2>2. reap_action = "NORMAL"
      BY <1>0, <2>1 DEF JobInv
    <2>3. Reasons'
      BY <1>0, <1>1, <1>2, <2>1, <2>2 DEF Reasons
    <2>4. RetiredWell'
      BY <1>0, <1>1, <1>2, <2>1 DEF RetiredWell
    <2> QED BY <2>3, <2>4
  <1>7. CASE SubmitEndsEarly
    <2>1. /\ reap_action' = "COMPLETED_EARLY" /\ mode = "continuation" /\ next < NumUrbs
          /\ UNCHANGED <<next, reap_status>> /\ reap_action = "NORMAL"
      BY <1>0, <1>7 DEF SubmitEndsEarly, JobInv, TypeInv, JobOK
    <2>2. Reasons'
      BY <1>0, <1>1, <1>2, <2>1 DEF Reasons
    <2> QED BY <2>1, <2>2 DEF RetiredWell
  <1>8. CASE SubmitFails
    <2>1. reap_action' = "SUBMIT_FAILED" /\ UNCHANGED reap_status
      BY <1>8 DEF SubmitFails
    <2>2. Reasons'
      BY <1>0, <1>1, <2>1 DEF Reasons
    <2> QED BY <2>1, <2>2 DEF RetiredWell
  <1>9. CASE DiscardEnds
    <2>1. /\ UNCHANGED <<next, reap_status, num_retired, reported>>
          /\ \/ cancelling' = "yes" /\ reap_action' = "CANCELLED"
             \/ reap_action' = reap_action /\ (cancelling' = "yes" \/ cancelling' = cancelling)
      BY <1>9 DEF DiscardEnds
    <2>2. Reasons'
      BY <1>0, <1>1, <1>2, <2>1 DEF Reasons
    <2>3. RetiredWell'
      BY <1>0, <1>1, <1>2, <2>1 DEF RetiredWell
    <2> QED BY <2>2, <2>3
  <1>10. CASE Cancel
    <2>1. UNCHANGED <<reapVars, next, reported>> /\ cancelling = "no"
      BY <1>10 DEF Cancel
    <2>2. Reasons'
      BY <1>0, <1>1, <1>2, <2>1 DEF Reasons
    <2>3. RetiredWell'
      BY <1>0, <1>1, <1>2, <2>1 DEF RetiredWell
    <2> QED BY <2>2, <2>3
  <1>11. CASE Reap
    <2>1. PICK i \in Urbs : /\ ready[1] = i /\ Len(ready) > 0
                            /\ ReapAbnormal(i) \/ ReapNormal(i) \/ ReapShort(i) \/ ReapFailed(i)
      BY <1>0, <1>11, ReapFacts
    <2>2. /\ num_retired' = num_retired + 1 /\ job = "none" /\ reported = "no"
          /\ UNCHANGED <<urb_status, actual_length, next, cancelling>>
      BY <1>0, <1>11, ReapFacts
    <2>3. CASE ReapAbnormal(i)
      <3>1. /\ reap_action' = reap_action /\ reap_action # "NORMAL"
            /\ \/ reap_status' = reap_status
               \/ reap_status' = "ERROR" /\ reap_action # "COMPLETED_EARLY"
        BY <2>3 DEF ReapAbnormal
      <3>2. reap_action \in {"COMPLETED_EARLY", "SUBMIT_FAILED", "CANCELLED", "ERROR"}
        BY <1>0, <3>1 DEF XferOK
      <3>3. Reasons'
        BY <1>0, <1>1, <1>2, <2>2, <3>1, <3>2 DEF Reasons
      <3> QED BY <3>1, <3>3 DEF RetiredWell
    <2>4. CASE reap_action = "NORMAL"
      <3>1. reap_status = "COMPLETED" => InOrder /\ next = NumUrbs /\ Behind
        BY <1>0, <2>2, <2>4 DEF OrderInv, Disturbed, ResultInv, PlainStall
      <3>2. reap_status = "COMPLETED" => i = num_retired
        BY <1>0, <2>1, <3>1, Constants, HeadInOrder
      <3>3. urb_status[i] \in Finished
        <4>1. 1 \in 1 .. Len(ready)
          BY <1>0, <2>1 DEF KernelOK
        <4> QED BY <2>1, <4>1 DEF UrbsInv, ReadyInv
      \* An URB that was discarded follows one that ended early, and that has been seen.
      <3>4. reap_status = "COMPLETED" => urb_status[i] # "discarded"
        <4> SUFFICES ASSUME reap_status = "COMPLETED", urb_status[i] = "discarded" PROVE FALSE
          OBVIOUS
        <4>1. PICK j \in Urbs : j < i /\ urb_status[j] \in EarlyEnds
          BY <3>1 DEF Behind
        <4>2. urb_status[j] = "ok"
          BY <1>0, <2>2, <2>4, <3>2, <4>1 DEF RetiredWell
        <4> QED BY <4>1, <4>2 DEF EarlyEnds
      <3>5. CASE ReapNormal(i)
        <4>1. UNCHANGED <<reap_action, reap_status>> /\ (i = LastUrb => reported' = reap_status)
          BY <2>4, <3>5 DEF ReapNormal, Report
        <4>2. Reasons'
          BY <1>0, <1>1, <1>2, <2>2, <4>1 DEF Reasons
        <4>3. ASSUME reported' = "no", reap_status = "COMPLETED" PROVE urb_status[i] = "ok"
          <5>1. actual_length[i] = UrbLength /\ urb_status[i] \notin {"stall", "error"}
            BY <3>5, <4>1, <4>3 DEF ReapNormal
          <5>2. urb_status[i] # "short"
            BY <1>0, <5>1, Constants DEF UrbInv, EarlyEnds
          <5> QED BY <3>3, <3>4, <4>3, <5>1, <5>2 DEF Finished, EarlyEnds
        <4>4. ASSUME reported' = "no", reap_status = "COMPLETED", NEW j \in Urbs, j < num_retired'
              PROVE  urb_status[j] = "ok"
          <5>1. j < num_retired \/ j = i
            BY <1>0, <2>2, <3>2, <4>4, Constants
          <5> QED BY <1>0, <2>2, <2>4, <4>3, <4>4, <5>1 DEF RetiredWell
        <4> QED BY <2>2, <4>1, <4>2, <4>4 DEF RetiredWell
      <3>6. CASE ReapShort(i)
        <4>1. /\ reap_action' = "COMPLETED_EARLY" /\ reap_status' = reap_status
              /\ actual_length[i] < UrbLength /\ urb_status[i] \notin {"stall", "error"}
          BY <3>6 DEF ReapShort
        <4>2. reap_status = "COMPLETED" => urb_status[i] = "short"
          <5>1. urb_status[i] # "ok"
            BY <1>0, <4>1, Constants DEF UrbInv, KernelOK
          <5> QED BY <3>3, <3>4, <4>1, <5>1 DEF Finished, EarlyEnds
        <4>3. Reasons'
          BY <1>0, <1>1, <1>2, <2>2, <2>4, <4>1, <4>2 DEF Reasons, Happened
        <4> QED BY <4>1, <4>3 DEF RetiredWell
      <3>7. CASE ReapFailed(i)
        <4>1. CASE urb_status[i] = "stall"
          <5>1. /\ reap_action' = reap_action
                /\ reap_status' = IF reap_status = "COMPLETED" THEN "STALL" ELSE reap_status
            BY <3>7, <4>1 DEF ReapFailed
          <5>2. halted
            BY <1>0, <4>1 DEF UrbInv
          <5>3. Reasons'
            BY <1>0, <1>1, <1>2, <2>2, <2>4, <5>1, <5>2 DEF Reasons
          <5> QED BY <5>1, <5>3 DEF RetiredWell
        <4>2. CASE urb_status[i] # "stall"
          <5>1. /\ reap_action' = "ERROR" /\ urb_status[i] = "error"
                /\ reap_status' = IF reap_status = "COMPLETED" THEN "ERROR" ELSE reap_status
            BY <3>7, <4>2 DEF ReapFailed
          <5>2. Happened("error")
            BY <5>1 DEF Happened
          <5>3. Reasons'
            BY <1>0, <1>1, <1>2, <2>2, <5>1, <5>2 DEF Reasons
          <5> QED BY <5>1, <5>3 DEF RetiredWell
        <4> QED BY <4>1, <4>2
      <3> QED BY <2>1, <2>3, <3>5, <3>6, <3>7
    <2>5. CASE reap_action # "NORMAL"
      BY <2>1, <2>3, <2>5 DEF ReapNormal, ReapShort, ReapFailed
    <2> QED BY <2>4, <2>5
  <1> QED BY <1>5, <1>6, <1>7, <1>8, <1>9, <1>10, <1>11 DEF Next, Work, Idle

StatusInv ==
    /\ reported = "COMPLETED" => sent = Length \/ Happened("short") \/ (mode = "continuation" /\ next < NumUrbs)
    /\ reported = "STALL" => halted
    /\ reported = "CANCELLED" => cancelling = "yes"
    /\ reported = "ERROR" => Happened("error") \/ reap_action = "SUBMIT_FAILED"

LEMMA StatusIsTrue == ASSUME StatusInv PROVE StatusTrue
  <1> DEFINE happened == {urb_status[i] : i \in Urbs}
  <1>1. \A s : Happened(s) => s \in happened
    BY DEF Happened
  <1> HIDE DEF happened
  <1>2. CASE reported = "COMPLETED"
    BY <1>1, <1>2 DEF StatusInv, StatusTrue, happened
  <1>3. CASE reported = "STALL"
    BY <1>3 DEF StatusInv, StatusTrue
  <1>4. CASE reported = "CANCELLED"
    BY <1>4 DEF StatusInv, StatusTrue
  <1>5. CASE reported = "ERROR"
    BY <1>1, <1>5 DEF StatusInv, StatusTrue, happened
  <1>6. CASE reported \notin {"COMPLETED", "STALL", "CANCELLED", "ERROR"}
    BY <1>6 DEF StatusTrue
  <1> QED BY <1>2, <1>3, <1>4, <1>5, <1>6

\* After the report nothing happens any more.
LEMMA ReportIsLast == ASSUME UrbsInv, [Next]_vars, reported # "no" PROVE UNCHANGED vars
  <1>1. job = "none" /\ Queued = {}
    <2>1. job = "none"
      BY DEF UrbsInv, JobInv, TypeInv, JobOK
    <2> QED BY <2>1, AllAccounted DEF UrbsInv, JobInv, StallInv
  <1>2. ~KernelReceives /\ ~KernelEnds
    BY <1>1 DEF KernelReceives, KernelEnds
  <1>3. ~SubmitUrb /\ ~SubmitEndsEarly /\ ~SubmitFails /\ ~DiscardUrb /\ ~DiscardEnds /\ ~Cancel
    BY <1>1 DEF SubmitUrb, SubmitEndsEarly, SubmitFails, DiscardUrb, DiscardEnds, Cancel
  <1>4. ~Reap
    BY DEF Reap, ReapAbnormal, ReapNormal, ReapShort, ReapFailed, Retire
  <1> QED BY <1>2, <1>3, <1>4 DEF Next, Work, Idle

\* A transfer whose last URB comes back in order, full like the others, is full.
LEMMA FullTransfer ==
    ASSUME UrbsInv, PlaceInv, DataInv, [Next]_vars, reap_action = "NORMAL", ~PlainStall, job = "none", reported = "no",
           ReapNormal(LastUrb), num_retired = LastUrb, actual_length[LastUrb] = UrbLength
    PROVE  sent' = Length
  <1>1. DataInv' /\ transferred' = transferred + actual_length[LastUrb] /\ UNCHANGED <<sent, actual_length>>
    BY DataStep DEF ReapNormal, Retire
  <1>2. transferred = Off(LastUrb)
    BY Constants DEF PlaceInv
  <1>3. Off(LastUrb) + UrbLength = Length /\ Length \in Nat
    <2>1. LastUrb \in Nat /\ LastUrb + 1 = NumUrbs
      BY Constants
    <2>2. Off(NumUrbs) = Off(LastUrb) + UrbLength
      BY <2>1, OffFacts
    <2> QED BY <2>2, Constants DEF Off, Length
  <1>4. Length <= sent
    BY <1>1, <1>2, <1>3 DEF DataInv, InPlace
  <1>5. sent <= Length /\ sent \in Nat
    <2>1. LastUrb \in Urbs /\ NothingBehind(LastUrb)
      BY Constants DEF NothingBehind
    <2> QED BY <1>3, <2>1 DEF DataInv, Room, UrbsInv, TypeInv, KernelOK
  <1> QED BY <1>1, <1>3, <1>4, <1>5

LEMMA StatusStep ==
    ASSUME UrbsInv, PlaceInv, DataInv, ResultInv, StatusInv, [Next]_vars
    PROVE  StatusInv'
  <1>0. /\ KernelOK /\ TypeInv /\ XferOK /\ UrbInv /\ OrderInv /\ next \in 0 .. NumUrbs
        /\ Reasons /\ RetiredWell
    BY DEF UrbsInv, TypeInv, JobOK, ResultInv
  <1>1. Reasons'
    BY ResultStep DEF ResultInv
  <1>2. CASE reported # "no"
    <2>1. UNCHANGED vars
      BY <1>2, ReportIsLast
    <2> QED BY <2>1 DEF vars, StatusInv, Happened
  <1>3. CASE reported' = "no"
    BY <1>3 DEF StatusInv
  <1>4. CASE reported = "no" /\ reported' # "no"
    <2>1. Reap
      BY <1>4 DEF Next, Work, Idle, vars, SubmitUrb, SubmitEndsEarly, SubmitFails, DiscardUrb, DiscardEnds,
                  Cancel, KernelReceives, KernelEnds
    <2>2. PICK i \in Urbs : /\ ready[1] = i /\ Len(ready) > 0
                            /\ ReapAbnormal(i) \/ ReapNormal(i) \/ ReapShort(i) \/ ReapFailed(i)
      BY <1>0, <2>1, ReapFacts
    <2>3. /\ num_retired' = num_retired + 1 /\ job = "none"
          /\ UNCHANGED <<mode, urb_status, actual_length, next, cancelling, halted>>
      BY <1>0, <2>1, ReapFacts
    <2>4. reap_action = "NORMAL" /\ ~PlainStall =>
            /\ InOrder /\ next = NumUrbs /\ Behind /\ i = num_retired
            /\ i = LastUrb <=> num_retired' = NumUrbs
      <3>1. reap_action = "NORMAL" /\ ~PlainStall => InOrder /\ next = NumUrbs /\ Behind
        BY <2>3 DEF OrderInv, Disturbed, ResultInv, UrbsInv
      <3> QED BY <1>0, <2>2, <2>3, <3>1, HeadInOrder, Constants
    <2>5. CASE ReapAbnormal(i)
      <3>1. /\ reap_action' = reap_action /\ reap_action # "NORMAL"
            /\ reap_status' = IF reap_action # "COMPLETED_EARLY" /\ reap_status = "COMPLETED"
                                THEN "ERROR" ELSE reap_status
            /\ reported' = IF reap_action = "CANCELLED" THEN "CANCELLED" ELSE reap_status'
        BY <1>4, <2>5 DEF ReapAbnormal, Report
      <3>2. reap_action \in {"COMPLETED_EARLY", "SUBMIT_FAILED", "CANCELLED", "ERROR"}
        BY <1>0, <3>1 DEF XferOK
      <3>3. CASE reap_action = "CANCELLED"
        BY <1>1, <3>1, <3>3 DEF StatusInv, Reasons
      <3>4. CASE reap_action # "CANCELLED"
        <4>1. reported' = reap_status'
          BY <3>1, <3>4
        <4>2. reap_status' = "COMPLETED" => reap_action' = "COMPLETED_EARLY"
          BY <3>1
        <4>3. reap_status' # "CANCELLED"
          BY <1>0, <3>1 DEF XferOK
        <4>4. reap_action' # "CANCELLED"
          BY <3>1, <3>4
        <4> QED BY <1>1, <4>1, <4>2, <4>3, <4>4 DEF StatusInv, Reasons
      <3> QED BY <3>3, <3>4
    <2>6. CASE ReapNormal(i)
      <3>1. /\ reap_action = "NORMAL" /\ i = LastUrb
            /\ UNCHANGED <<reap_action, reap_status>> /\ reported' = reap_status
            /\ urb_status[i] \notin {"stall", "error"}
        BY <1>4, <2>6 DEF ReapNormal, Report
      <3>2. ASSUME reap_status = "COMPLETED" PROVE sent' = Length \/ Happened("short")'
        <4>0. ~PlainStall
          BY <3>2 DEF PlainStall
        <4>1. \A j \in Urbs : j < i => urb_status[j] = "ok"
          BY <1>0, <1>4, <2>4, <3>1, <3>2, <4>0 DEF RetiredWell
        <4>2. urb_status[i] # "discarded"
          BY <2>4, <3>1, <4>0, <4>1 DEF Behind, EarlyEnds
        <4>3. urb_status[i] \in {"ok", "short"}
          <5>1. 1 \in 1 .. Len(ready)
            BY <1>0, <2>2 DEF KernelOK
          <5>2. urb_status[i] \in Finished
            BY <2>2, <5>1 DEF UrbsInv, ReadyInv
          <5> QED BY <3>1, <4>2, <5>2 DEF Finished, EarlyEnds
        <4>4. CASE urb_status[i] = "short"
          BY <2>3, <4>4 DEF Happened
        <4>5. CASE urb_status[i] = "ok"
          <5>1. actual_length[i] = UrbLength
            BY <1>0, <4>5 DEF UrbInv
          <5> QED BY <1>4, <2>3, <2>4, <2>6, <3>1, <4>0, <5>1, FullTransfer
        <4> QED BY <4>3, <4>4, <4>5
      <3>3. reap_status \in {"COMPLETED", "STALL", "ERROR"}
        BY <1>0 DEF XferOK
      <3> QED BY <1>1, <3>1, <3>2, <3>3 DEF StatusInv, Reasons
    <2>7. CASE ReapShort(i)
      <3>1. /\ reap_action = "NORMAL" /\ i # LastUrb /\ num_retired' = NumUrbs
            /\ reported' = reap_status' /\ reap_status' = reap_status
        BY <1>4, <2>7 DEF ReapShort, WaitForRest, AllRetired, Report
      <3>2. reap_status = "STALL"
        BY <2>4, <3>1 DEF PlainStall
      <3> QED BY <1>1, <3>1, <3>2 DEF StatusInv, Reasons
    <2>8. CASE ReapFailed(i)
      <3>1. /\ reported' = reap_status' /\ reap_status' # "COMPLETED"
            /\ reap_action' \in {"NORMAL", "ERROR"}
        BY <1>4, <2>8 DEF ReapFailed, WaitForRest, Report
      <3>2. reap_status' \in {"STALL", "ERROR"}
        BY <1>0, <2>8, <3>1 DEF XferOK, ReapFailed
      <3> QED BY <1>1, <3>1, <3>2 DEF StatusInv, Reasons
    <2> QED BY <2>2, <2>5, <2>6, <2>7, <2>8
  <1> QED BY <1>2, <1>3, <1>4

\* linux_usbfs.c:2181-2205, 2237-2370: the status given to the callback is what happened to
\* the transfer: none is reported as completed of which data are missing, and none as
\* stalled, cancelled or failed that was not.
THEOREM StatusIsRight == Spec => []StatusTrue
  <1> DEFINE Inv == UrbsInv /\ PlaceInv /\ DataInv /\ ResultInv /\ StatusInv
  <1>1. Init => Inv
    <2>1. Init => UrbsInv /\ PlaceInv /\ DataInv
      BY UrbsInit, DataInit
    <2>2. Init => ResultInv /\ StatusInv
      BY Constants DEF Init, ResultInv, Reasons, RetiredWell, Behind, StatusInv
    <2> QED BY <2>1, <2>2
  <1>2. Inv /\ [Next]_vars => Inv'
    BY UrbsStep, PlaceStep, DataStep, ResultStep, StatusStep
  <1>3. Inv => StatusTrue
    BY StatusIsTrue
  <1> QED BY <1>1, <1>2, <1>3, PTL DEF Spec

=============================================================================
