------------------------------- MODULE R82xx ---------------------------------
(***************************************************************************)
(* The driver of the Rafael Micro tuners (tuner_r82xx.c) under librtlsdr's *)
(* setters, when transfers to the tuner fail.                              *)
(*                                                                         *)
(* The chip's registers cannot all be read: the driver keeps a shadow of   *)
(* them, changes single fields of a register in it, and leaves out a write *)
(* that would not change it.  The shadow is stored before the write, so a  *)
(* write that fails leaves the two apart.  The bus is locked for a whole   *)
(* setter: one is one step.  At most one transfer of a call fails, which   *)
(* may have reached the chip all the same; a driver's function returns at  *)
(* once then, librtlsdr's go on or return as they do.                      *)
(*                                                                         *)
(* Frequencies are in kHz.  A register is what matters in it to the        *)
(* frequency and to the path before the mixer: a field, or several of one  *)
(* register as a record.                                                   *)
(***************************************************************************)
EXTENDS Integers, Sequences, FiniteSetsExt

CONSTANTS
    Chips,          \* "R820T", "R828D"
    CalImr,         \* whether an initialisation calibrates the image rejection
    Freqs, Xtals, Bandwidths,   \* what the setters are called with; a correction is another Xtal
    SdmBase,        \* values of one of the two bytes of sdm: 256
    Width,          \* 2^32 Hz: an uint32_t holds less
    MaxFailures     \* bound: failing calls

\* A frequency is an uint32_t of Hz.  With a crystal beyond these nint would leave its byte.
ASSUME ConstantsAssumption ==
    /\ Chips \subseteq {"R820T", "R828D"} /\ CalImr \in BOOLEAN
    /\ Freqs \subseteq 1 .. Width - 1 /\ Bandwidths \subseteq Nat \ {0}
    /\ \A xtal \in Xtals : xtal \in Nat /\ 8000 <= xtal /\ xtal <= 68000
    /\ SdmBase \in Nat \ {0} /\ Width \in Nat /\ Width > 2 * 1900000
    /\ MaxFailures \in Nat

VARIABLES
    dev,            \* struct r82xx_priv, what of struct rtlsdr_dev it goes with, and the chip
    failures        \* calls in which a transfer failed

vars == <<dev, failures>>

-----------------------------------------------------------------------------
(***************************************************************************)
(* Tables.                                                                 *)
(***************************************************************************)
\* From which MHz on: R23 (open drain), R26 (multiplexer), R27 (tracking filter).
freq_ranges == <<
    <<0, 8, 2, \hdf>>, <<50, 8, 2, \hbe>>, <<55, 8, 2, \h8b>>, <<60, 8, 2, \h7b>>, <<65, 8, 2, \h69>>,
    <<70, 8, 2, \h58>>, <<75, 0, 2, \h44>>, <<90, 0, 2, \h34>>, <<110, 0, 2, \h24>>, <<140, 0, 2, \h14>>,
    <<180, 0, 2, \h13>>, <<250, 0, 2, \h11>>, <<280, 0, 2, 0>>, <<310, 0, \h41, 0>>, <<588, 0, \h40, 0>> >>

\* For each bandwidth: R10 and R11 (filters), and the IF.
r82xx_bws == <<
    <<400, \h0f, \he8, 1780>>, <<500, \h0f, \he9, 1710>>, <<620, \h0f, \hea, 1640>>, <<900, \h0f, \heb, 1500>>,
    <<1150, \h0f, \hec, 1380>>, <<1250, \h0f, \hed, 1340>>, <<1350, \h0f, \hee, 1300>>, <<1530, \h0e, \hef, 1260>>,
    <<1800, \h0f, \haf, 1370>>, <<2200, \h0f, \h8f, 1560>>, <<3000, \h04, \h8f, 2000>>, <<5000, \h0b, \h6b, 3570>> >>

Default_IF == 3570                                        \* R82XX_IF_FREQ

\* The registers after an initialisation and at the start of a calibration.
init_array ==
    [r05 |-> 0, r07 |-> 0, r0a |-> \h0b, r0b |-> \h6b, r10 |-> [refdiv2 |-> FALSE, div_num |-> 3],
     r12 |-> [more |-> FALSE, pw_sdm |-> TRUE, dither |-> TRUE],
     r14 |-> [ni |-> 15, si |-> 0], r15 |-> 0, r16 |-> (3 * SdmBase) \div 4,
     r17 |-> 0, r1a |-> [mux |-> \h40, slow |-> FALSE], r1b |-> 0]

calib_array ==
    [r05 |-> \h20, r07 |-> 0, r0a |-> \h0f, r0b |-> \he8, r10 |-> [refdiv2 |-> TRUE, div_num |-> 4],
     r12 |-> [more |-> FALSE, pw_sdm |-> TRUE, dither |-> TRUE],
     r14 |-> [ni |-> 23, si |-> 1], r15 |-> (11 * SdmBase) \div 16, r16 |-> (5 * SdmBase) \div 256,
     r17 |-> 0, r1a |-> [mux |-> 2, slow |-> TRUE], r1b |-> \h34]

\* r82xx_set_mux(): the first range whose successor begins above f, or the last one.
RangeOf(f) ==
    LET n == Len(freq_ranges)
    IN freq_ranges[Min({i \in 1 .. n : i < n => f \div 1000 < freq_ranges[i + 1][1]})]

\* r82xx_set_bandwidth(): the first row whose median with the next one is above bw, or the last.
RowOf(bw) ==
    LET n == Len(r82xx_bws)
    IN r82xx_bws[Min({i \in 1 .. n : i < n => 2 * bw < r82xx_bws[i][1] + r82xx_bws[i + 1][1]})]

(***************************************************************************)
(* The PLL's arithmetic.                                                   *)
(***************************************************************************)
SdmOne == SdmBase * SdmBase

VcoMin == 1770000

RefDiv2(xtal) == xtal > 24000
PllRef(xtal) == IF RefDiv2(xtal) THEN xtal \div 2 ELSE xtal

\* The least of 0 .. 5 that lifts f to where the VCO works; an uint32_t is shifted.
DivNum(f) == Min({n \in 0 .. 5 : n < 5 => (f * 2^(n + 1)) % Width >= VcoMin})

VcoFreq(f) == f * 2^(DivNum(f) + 1)

\* Mutant of VcoDiv: not rounded.
VcoDivCut(xtal, f) == (SdmOne * VcoFreq(f)) \div (2 * PllRef(xtal))

\* VCO over twice the reference, rounded to a fixed point number of nint and sdm.
VcoDiv(xtal, f) == (PllRef(xtal) + SdmOne * VcoFreq(f)) \div (2 * PllRef(xtal))

-----------------------------------------------------------------------------
(***************************************************************************)
(* Transfers.  d.left tells how many are left before the one that fails    *)
(* (negative: none does), d.reach whether that one arrives, and d.ok       *)
(* whether the function at hand has had none fail yet.                     *)
(***************************************************************************)
Arrives(d) == d.left # 0 \/ d.reach

Count(d) == [d EXCEPT !.ok = @ /\ d.left # 0, !.left = @ - 1]

\* A reading, or writes to registers that are left out here.
Transfer(d) == IF d.ok THEN Count(d) ELSE d

\* r82xx_write(): stores the shadow, then writes; one register, or all of them.
Write(d, r, val) ==
    IF ~d.ok THEN d
    ELSE Count([d EXCEPT !.regs[r] = val, !.chip[r] = IF Arrives(d) THEN val ELSE @])

WriteArray(d, array) ==
    IF ~d.ok THEN d
    ELSE Count([d EXCEPT !.regs = array, !.chip = IF Arrives(d) THEN array ELSE @])

\* Registers without other fields: r82xx_write_reg() does not look at the shadow.
Whole == {"r14", "r15", "r16", "r1b"}

\* r82xx_write_reg_mask(), and r82xx_write_reg().
WriteReg(d, r, val) == IF val = d.regs[r] /\ r \notin Whole THEN d ELSE Write(d, r, val)

(***************************************************************************)
(* tuner_r82xx.c.                                                          *)
(***************************************************************************)
SetMux(d, f) ==
    LET range == RangeOf(f)
        a == WriteReg(d, "r17", range[2])
        b == WriteReg(a, "r1a", [a.regs.r1a EXCEPT !.mux = range[3]])
    IN WriteReg(b, "r1b", range[4])

\* What r82xx_set_pll() writes before it looks for a lock: the reference's divider, how
\* the VCO locks, the mixer's divider, then nint and sdm.
SetReference(d) ==
    LET a == WriteReg(d, "r10", [d.regs.r10 EXCEPT !.refdiv2 = RefDiv2(d.xtal)])
        b == WriteReg(a, "r1a", [a.regs.r1a EXCEPT !.slow = FALSE])
    IN WriteReg(b, "r12", [b.regs.r12 EXCEPT !.more = FALSE])

SetDividers(d, f) ==
    LET nint == VcoDiv(d.xtal, f) \div SdmOne
        sdm == VcoDiv(d.xtal, f) % SdmOne
        ni == (nint - 13) \div 4
        a == WriteReg(d, "r10", [d.regs.r10 EXCEPT !.div_num = DivNum(f)])
        b == WriteReg(a, "r14", [ni |-> ni, si |-> nint - 4 * ni - 13])
        c == WriteReg(b, "r12", [b.regs.r12 EXCEPT !.pw_sdm = sdm # 0])
    IN WriteReg(WriteReg(c, "r16", sdm \div SdmBase), "r15", sdm % SdmBase)

\* Locked at once, with more current, or not: d.lock.
Lock(d) ==
    LET once == Transfer(d)
        twice == Transfer(WriteReg(once, "r12", [once.regs.r12 EXCEPT !.more = TRUE]))
        locked(e) == WriteReg(e, "r1a", [e.regs.r1a EXCEPT !.slow = TRUE])
    IN CASE d.lock = "once" -> locked(once)
         [] d.lock = "twice" -> locked(twice)
         [] d.lock = "never" -> [twice EXCEPT !.ok = FALSE]

SetPll(d, f) ==
    IF ~d.ok THEN d
    ELSE IF f < 25000 \/ f > 1900000 THEN [d EXCEPT !.ok = FALSE]
    ELSE Lock(SetDividers(SetReference(d), f))

\* The R828D has two inputs; priv->input remembers which one is in use.
SelectInput(d, f) ==
    LET air_cable1_in == IF f > 345000 THEN 0 ELSE \h60
    IN IF d.r828d /\ d.ok /\ air_cable1_in # d.input
         THEN WriteReg([d EXCEPT !.input = air_cable1_in], "r05", air_cable1_in)
         ELSE d

LoFor(d, f) == (IF d.sideband THEN f - d.int_freq ELSE f + d.int_freq) % Width

SetTunerFreq(d, f) == SetPll(SelectInput(SetMux(d, f), f), LoFor(d, f))

SetBandwidth(d, bw) ==
    LET row == RowOf(bw)
    IN IF ~d.ok THEN d
       ELSE WriteReg(WriteReg([d EXCEPT !.int_freq = row[4]], "r0a", row[2]), "r0b", row[3])

\* r82xx_imr(): the ring oscillator's frequency, which is received as an image.
RingFreq(xtal) ==
    LET n_ring == Min({n \in 0 .. 15 : n < 15 => (16 + n) * 8 * PllRef(xtal) >= 3100000})
    IN ((16 + n_ring) * 8 * PllRef(xtal)) \div 32

Calibrate(d) ==         \* the measurements change fields that the initialisation sets
    LET b == SetBandwidth(WriteArray(d, calib_array), 400)
    IN Transfer(SetTunerFreq(b, (RingFreq(d.xtal) - 2 * b.int_freq) % Width))

\* Mutant of Initialised: the input in use is not forgotten.
InitialisedOnly(d) == [d EXCEPT !.int_freq = Default_IF]

Initialised(d) == [d EXCEPT !.int_freq = Default_IF, !.input = 0]

TunerInit(d) ==
    LET w == WriteArray(IF CalImr THEN Calibrate(d) ELSE d, init_array)
        i == IF w.ok THEN Transfer(Initialised(w)) ELSE w
    IN [i EXCEPT !.halfInit = ~i.ok, !.halfBw = @ /\ ~i.ok]

\* Whole registers, whatever the shadow holds.
Standby(d) == Write(Write(Write(Write(d, "r05", \h20), "r07", 0), "r0a", 6), "r17", 0)

-----------------------------------------------------------------------------
(***************************************************************************)
(* librtlsdr.c.                                                            *)
(***************************************************************************)
\* rtlsdr_demod_write_reg(): done whether or not one before it failed.
Demod(d, inversion) == [Count(d) EXCEPT !.inversion = IF Arrives(d) THEN inversion ELSE @]

Torn == -1              \* an IF of which one byte is still the old one's

SetIf(d, f) == [Count(d) EXCEPT !.if_freq = IF Arrives(d) \/ f = @ THEN f ELSE Torn]

Anew(d) == [d EXCEPT !.ok = TRUE]

Fail(d) == [d EXCEPT !.half = d.freq # 0]     \* a setter returns before it tunes again

SetCenterFreq(d, f) ==
    LET t == IF d.ds THEN SetIf(Anew(d), f) ELSE SetTunerFreq(Anew(d), f)
    IN [t EXCEPT !.freq = IF t.ok THEN f ELSE 0, !.half = FALSE]

SetTunerBandwidth(d, bw) ==
    LET b == SetBandwidth(d, bw)
        h == [b EXCEPT !.halfBw = ~b.ok]
        i == IF h.ok THEN SetIf(h, h.int_freq) ELSE h
    IN IF i.ok THEN SetCenterFreq(i, d.freq) ELSE Fail(i)

SetTunerSideband(d, upper) ==
    LET s == WriteReg([d EXCEPT !.sideband = upper], "r07", IF upper THEN 1 ELSE 0)
        i == IF s.ok THEN Demod(s, ~upper) ELSE s
    IN IF i.ok THEN SetCenterFreq(i, d.freq) ELSE Fail(i)

SetXtal(d, xtal) ==
    LET x == [d EXCEPT !.xtal = xtal]
    IN IF d.xtal # xtal /\ d.freq # 0 THEN SetCenterFreq(x, d.freq) ELSE x

SetDirectSampling(d, on) ==
    LET s == [Demod(Standby(d), FALSE) EXCEPT !.ds = TRUE]
        t == [Demod(SetIf(TunerInit(d), Default_IF), TRUE) EXCEPT !.ds = FALSE]
    IN SetCenterFreq(IF on THEN s ELSE t, d.freq)

-----------------------------------------------------------------------------
(***************************************************************************)
(* The tuner after rtlsdr_open(), and one call at a time.                  *)
(***************************************************************************)
Init ==
    /\ \E r828d \in {c = "R828D" : c \in Chips}, xtal \in Xtals :
         dev = [left |-> -1, reach |-> FALSE, lock |-> "once", ok |-> TRUE,
                r828d |-> r828d, xtal |-> xtal, regs |-> init_array, chip |-> init_array,
                int_freq |-> Default_IF, input |-> 0, sideband |-> FALSE,
                freq |-> 0, ds |-> FALSE, if_freq |-> Default_IF, inversion |-> TRUE,
                half |-> FALSE, halfInit |-> FALSE, halfBw |-> FALSE]
    /\ failures = 0

AfterCall(d) == [d EXCEPT !.left = -1, !.reach = FALSE, !.lock = "once", !.ok = TRUE]

\* How many transfers a call makes that none fails of.
Transfers(d) == -1 - d.left

\* A call in which nothing fails; one in which a transfer fails, or the PLL to lock.
Call(Setter(_)) ==
    \/ /\ \E l \in {"once", "twice"} : dev' = AfterCall(Setter([dev EXCEPT !.lock = l]))
       /\ UNCHANGED failures
    \/ /\ failures < MaxFailures
       /\ failures' = failures + 1
       /\ \/ \E l \in {"once", "twice"} :
               \E k \in 0 .. Transfers(Setter([dev EXCEPT !.lock = l])) - 1, reach \in BOOLEAN :
                   dev' = AfterCall(Setter([dev EXCEPT !.left = k, !.reach = reach, !.lock = l]))
          \/ dev' = AfterCall(Setter([dev EXCEPT !.lock = "never"]))

Frequency == \E f \in Freqs : Call(LAMBDA d : SetCenterFreq(d, f))
Bandwidth == \E bw \in Bandwidths : Call(LAMBDA d : SetTunerBandwidth(d, bw))
Sideband == \E upper \in BOOLEAN : Call(LAMBDA d : SetTunerSideband(d, upper))
Crystal == \E xtal \in Xtals : Call(LAMBDA d : SetXtal(d, xtal))
DirectSampling == \E on \in BOOLEAN : Call(LAMBDA d : SetDirectSampling(d, on))
Dithering == \E on \in BOOLEAN : Call(LAMBDA d : WriteReg(d, "r12", [d.regs.r12 EXCEPT !.dither = on]))

Next == Frequency \/ Bandwidth \/ Sideband \/ Crystal \/ DirectSampling \/ Dithering

Spec == Init /\ [][Next]_vars

-----------------------------------------------------------------------------
(***************************************************************************)
(* Properties.                                                             *)
(***************************************************************************)
\* Every field has its type.
TypeOK ==
    /\ DOMAIN dev.regs = DOMAIN init_array /\ DOMAIN dev.chip = DOMAIN init_array
    /\ dev.freq \in Freqs \cup {0} /\ dev.xtal \in Xtals
    /\ {dev.r828d, dev.ok, dev.ds, dev.sideband, dev.inversion} \subseteq BOOLEAN
    /\ {dev.half, dev.halfInit, dev.halfBw} \subseteq BOOLEAN
    /\ dev.int_freq \in {r82xx_bws[i][4] : i \in DOMAIN r82xx_bws}
    /\ failures \in 0 .. MaxFailures

\* The driver knows what the chip's registers hold.
Known(rs) == \A r \in rs : dev.regs[r] = dev.chip[r]

\* The demodulator was told the IF and the sideband that the tuner's driver works with.
Agreed == dev.if_freq = dev.int_freq /\ dev.inversion = ~dev.sideband

\* The tuner is in use and librtlsdr reports a frequency.
Tuned == dev.freq # 0 /\ ~dev.ds

\* The chip's VCO is the divided reference times nint and sdm: within half a step of
\* the one that gives lo, and in its range wherever a divider gets it there.
VcoGives(d, lo) ==
    LET ref == IF d.chip.r10.refdiv2 THEN d.xtal \div 2 ELSE d.xtal
        sdm == IF d.chip.r12.pw_sdm THEN d.chip.r16 * SdmBase + d.chip.r15 ELSE 0
        vco == lo * 2^(d.chip.r10.div_num + 1)
        error == 2 * ref * ((4 * d.chip.r14.ni + d.chip.r14.si + 13) * SdmOne + sdm) - vco * SdmOne
    IN /\ - ref <= error /\ error <= ref
       /\ vco >= VcoMin \/ 64 * lo < VcoMin
       /\ vco <= 2 * 1900000

\* After any sequence of setters and failing transfers, what the chip's registers say
\* the LO is, and the IF, together receive the frequency that is reported -- if a write that
\* failed has not left one of the two PLL registers that are written by fields different
\* from the shadow, and if a setter that failed half-way has not left the demodulator with
\* another IF or sideband than the driver.  (All of these the next calls can leave as they are.)
Receives ==
    Tuned /\ ~dev.half /\ Agreed /\ Known({"r10", "r12"}) =>
        VcoGives(dev, IF dev.inversion THEN dev.freq + dev.if_freq ELSE dev.freq - dev.if_freq)

\* Nor do failures detune the path before the mixer: the tracking filter is always that of
\* the frequency; multiplexer, open drain, IF filter, sideband and the R828D's input are
\* so as long as their registers are known and IF and sideband agreed upon, unless what was
\* to set them gave up before its end.
PathFits ==
    Tuned =>
        LET range == RangeOf(dev.freq) IN
        /\ dev.chip.r1b = range[4]
        /\ Known({"r17"}) => dev.chip.r17 = range[2]
        /\ Known({"r1a"}) => dev.chip.r1a.mux = range[3]
        /\ Agreed /\ ~dev.halfInit =>
             /\ ~dev.halfBw /\ Known({"r0a", "r0b"}) =>
                  \E i \in DOMAIN r82xx_bws :
                      Tail(r82xx_bws[i]) = <<dev.chip.r0a, dev.chip.r0b, dev.if_freq>>
             /\ Known({"r07"}) /\ dev.inversion => dev.chip.r07 = 0
             /\ dev.r828d /\ Known({"r05"}) =>
                  dev.chip.r05 = IF dev.freq > 345000 THEN 0 ELSE \h60
=============================================================================
