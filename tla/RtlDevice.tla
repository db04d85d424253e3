------------------------------ MODULE RtlDevice ------------------------------
(***************************************************************************)
(* The tuning state of a librtlsdr device: what the setters of librtlsdr.c *)
(* keep in struct rtlsdr_dev and what they program into the demodulator    *)
(* (its IF and its spectrum inversion) and into the tuner (its LO, its     *)
(* filter).  A setter runs to its end before the next one: rtl_tcp calls   *)
(* them from one thread, command_worker.  USB transfers succeed; a tuner   *)
(* refuses to tune below its range.                                        *)
(*                                                                         *)
(* Setters call one another: they are operators from a device to a device  *)
(* here, and an action applies one of them.  set_center_freq and           *)
(* set_direct_sampling call each other, at most three deep: that recursion *)
(* is written out.  Frequencies are small numbers.                         *)
(***************************************************************************)
EXTENDS Integers

CONSTANTS
    Tuners,         \* "R82xx" (R820T, R828D) and "E4000" (zero IF)
    TunerMin,       \* the lowest frequency the tuner tunes to
    IfDefault,      \* the R82xx's IF after its initialisation (R82XX_IF_FREQ)
    Freqs, Rates, Bandwidths, Corrections, Xtals,     \* what the setters are called with
    NarrowIf(_),    \* the R82xx's IF for a bandwidth
    Inputs,         \* the ADC inputs rtlsdr_set_direct_sampling() is called with
    Modes,          \* the modes rtlsdr_set_ds_mode() is called with
    Thresholds

\* A crystal of 0 stands for the one there is.  No tuner goes down to half the highest
\* sample rate (1.6 MHz), nor to the highest IF (3.57 MHz).
ASSUME ConstantsAssumption ==
    /\ Tuners \subseteq {"R82xx", "E4000"}
    /\ TunerMin \in Nat /\ IfDefault \in 0 .. TunerMin
    /\ Freqs \subseteq Nat /\ Rates \subseteq Nat /\ Bandwidths \subseteq Nat
    /\ \A r \in Rates : r \div 2 < TunerMin
    /\ \A w \in Bandwidths \cup Rates \cup {0} : NarrowIf(w) \in 0 .. TunerMin
    /\ Corrections \subseteq Int /\ Xtals \subseteq Nat \ {0} /\ Thresholds \subseteq Nat
    /\ Inputs \subseteq 0 .. 2
    /\ Modes \subseteq {"IQ", "I", "Q", "I_BELOW", "Q_BELOW"}

VARIABLE dev

vars == <<dev>>

Below == {"I_BELOW", "Q_BELOW"}

Input == [IQ |-> 0, I |-> 1, Q |-> 2, I_BELOW |-> 1, Q_BELOW |-> 2]

\* The clocks that rtlsdr_get_xtal_freq() computes: a crystal and its correction.
RtlClock(d) == <<d.rtl_xtal, d.corr>>
TunerClock(d) == <<d.tun_xtal, d.corr>>

(***************************************************************************)
(* What is programmed.                                                     *)
(***************************************************************************)
SetIf(d, f) == [d EXCEPT !.if = f, !.ifClock = RtlClock(d)]

ReadClock(d) == [d EXCEPT !.vcoClock = TunerClock(d)]    \* into e4k_s and r82xx_c

LoFor(d, f) == IF ~d.r82xx THEN f ELSE IF d.sideband THEN f - d.int_freq ELSE f + d.int_freq

\* Tunes to f: dev->tuner->set_freq().
TunerSetFreq(d, f) ==
    IF f < TunerMin THEN [d EXCEPT !.ok = FALSE]
    ELSE [d EXCEPT !.lo = LoFor(d, f), !.loClock = d.vcoClock, !.ok = TRUE]

TunerInit(d) ==                                           \* dev->tuner->init()
    LET r == [ReadClock(d) EXCEPT !.filter = 0]
    IN IF d.r82xx THEN [r EXCEPT !.int_freq = IfDefault] ELSE r

(***************************************************************************)
(* The setters.                                                            *)
(***************************************************************************)
\* The ADC samples input on with the tuner standing by, or the tuner starts again.
SwitchInput(d, on) ==
    LET i == TunerInit(d)
    IN CASE on # 0 -> [d EXCEPT !.inversion = FALSE, !.ds = on]
         [] on = 0 /\ d.r82xx -> [SetIf(i, IfDefault) EXCEPT !.inversion = TRUE, !.ds = 0]
         [] on = 0 /\ ~d.r82xx -> [SetIf(i, 0) EXCEPT !.ds = 0]

\* rtlsdr_set_center_freq() once the input is chosen.
Tune(d, f) ==
    LET t == IF d.ds # 0 THEN [SetIf(d, f) EXCEPT !.ok = TRUE] ELSE TunerSetFreq(d, f - d.offs_freq)
    IN [t EXCEPT !.freq = IF t.ok THEN f ELSE 0]

\* rtlsdr_update_ds(): the input that the mode wants at frequency f.
Wanted(d, f) == IF d.mode \in Below /\ f >= d.threshold THEN 0 ELSE Input[d.mode]

\* Whether rtlsdr_update_ds() is called and switches.
Switches(d, f) == d.mode \in Below /\ d.ds # Wanted(d, f)

\* rtlsdr_set_direct_sampling(), which ends with rtlsdr_set_center_freq() for the frequency
\* there is.  Where that switches again, to what this frequency wants, the second
\* rtlsdr_set_direct_sampling() tunes and does not switch, and then the first one's
\* rtlsdr_set_center_freq() tunes once more.
SetDirectSampling(d, on) ==
    LET s == SwitchInput(d, on)
    IN IF Switches(s, d.freq) THEN Tune(Tune(SwitchInput(s, Wanted(s, d.freq)), d.freq), d.freq)
                              ELSE Tune(s, d.freq)

UpdateDs(d, f) == IF Switches(d, f) THEN SetDirectSampling(d, Wanted(d, f)) ELSE d

SetCenterFreq(d, f) == Tune(UpdateDs(d, f), f)

\* Mutant of Retune: a new correction takes effect when the frequency is next set.
RetuneLater(d) == d

\* Programs the frequency again, if there is one.
Retune(d) == IF d.freq # 0 THEN SetCenterFreq(d, d.freq) ELSE d

OffsetRetune(d) == IF d.freq > d.offs_freq THEN SetCenterFreq(d, d.freq) ELSE d

OffsetFor(d, on) == IF on THEN d.rate \div 2 ELSE 0

SetOffsetTuning(d, on) ==
    IF d.r82xx \/ d.ds # 0 THEN d                           \* returns -2 or -3
    ELSE LET o == [d EXCEPT !.offs_freq = OffsetFor(d, on)]
             i == SetIf(o, o.offs_freq)
             w == [i EXCEPT !.filter = IF on THEN 2 * i.offs_freq ELSE IF i.bw > 0 THEN i.bw ELSE i.rate]
         IN OffsetRetune(w)

SetSampleRate(d, rate) ==
    LET s == [d EXCEPT !.rate = rate]
    IN IF s.offs_freq # 0 THEN SetOffsetTuning(s, TRUE) ELSE s

SetFreqCorrection(d, ppm) ==
    IF d.corr = ppm THEN d                                \* returns -2
    ELSE Retune(ReadClock([d EXCEPT !.corr = ppm]))

\* rtl_freq 0: the RTL2832's crystal stays; tuner_freq 0: the tuner shares it.
SetXtalFreq(d, rtl_freq, tuner_freq) ==
    LET r == IF rtl_freq = 0 \/ d.rtl_xtal = rtl_freq THEN d
             ELSE LET x == [d EXCEPT !.rtl_xtal = rtl_freq]
                  IN IF x.rate # 0 THEN SetSampleRate(x, x.rate) ELSE x
    IN IF r.tun_xtal = tuner_freq THEN r
       ELSE Retune(ReadClock([r EXCEPT !.tun_xtal = IF tuner_freq = 0 THEN r.rtl_xtal ELSE tuner_freq]))

\* Mutant of AfterBandwidth: the LO does not follow the new IF.
AfterBandwidthOnlyIf(d) == IF d.r82xx THEN SetIf(d, d.int_freq) ELSE [d EXCEPT !.ok = TRUE]

\* r820t_set_bw() moves the IF with the bandwidth and tunes again.
AfterBandwidth(d) ==
    IF d.r82xx THEN SetCenterFreq(SetIf(d, d.int_freq), d.freq) ELSE [d EXCEPT !.ok = TRUE]

SetTunerBandwidth(d, bw) ==
    LET w == IF bw > 0 THEN bw ELSE d.rate
        f == [d EXCEPT !.filter = w, !.int_freq = IF d.r82xx THEN NarrowIf(w) ELSE d.int_freq]
        t == AfterBandwidth(f)
    IN [t EXCEPT !.bw = IF t.ok THEN bw ELSE d.bw]        \* kept when tuning again fails

SetTunerSideband(d, upper) ==
    IF ~d.r82xx THEN d
    ELSE SetCenterFreq([d EXCEPT !.sideband = upper, !.inversion = ~upper], d.freq)

SetDsMode(d, mode, threshold) ==
    IF d.freq = 0 THEN d                                  \* returns -2
    ELSE LET m == [d EXCEPT !.mode = mode, !.threshold = threshold]
             s == IF mode \in Below THEN m ELSE SetDirectSampling(m, Input[mode])
         IN SetCenterFreq(s, d.freq)

(***************************************************************************)
(* The device as rtlsdr_open() leaves it, and one call at a time.          *)
(***************************************************************************)
Opened(tuner, rtl, tun) ==
    LET r82xx == tuner = "R82xx"
        if == IF r82xx THEN IfDefault ELSE 0
    IN [r82xx |-> r82xx, rate |-> 0, freq |-> 0, bw |-> 0, offs_freq |-> 0, corr |-> 0,
        rtl_xtal |-> rtl, tun_xtal |-> tun, vcoClock |-> <<tun, 0>>,
        ds |-> 0, mode |-> "IQ", threshold |-> 0, sideband |-> FALSE,
        int_freq |-> if, if |-> if, ifClock |-> <<rtl, 0>>, lo |-> 0, loClock |-> <<tun, 0>>,
        inversion |-> r82xx, filter |-> 0, ok |-> TRUE]

Init ==
    \E tuner \in Tuners, rtl, tun \in Xtals :
      /\ tuner = "R82xx" \/ tun = rtl                   \* an R828D has its own crystal
      /\ dev = Opened(tuner, rtl, tun)

Frequency == \E f \in Freqs : dev' = SetCenterFreq(dev, f)
SampleRate == \E r \in Rates : dev' = SetSampleRate(dev, r)
Correction == \E p \in Corrections : dev' = SetFreqCorrection(dev, p)
Crystal == \E rtl, tun \in Xtals \cup {0} : dev' = SetXtalFreq(dev, rtl, tun)
Bandwidth == \E b \in Bandwidths : dev' = SetTunerBandwidth(dev, b)
Sideband == \E u \in BOOLEAN : dev' = SetTunerSideband(dev, u)
OffsetTuning == \E on \in BOOLEAN : dev' = SetOffsetTuning(dev, on)
DirectSampling == \E on \in Inputs : dev' = SetDirectSampling(dev, on)
DsMode == \E m \in Modes, t \in Thresholds : dev' = SetDsMode(dev, m, t)

Next ==
    \/ Frequency \/ SampleRate \/ Correction \/ Crystal \/ Bandwidth
    \/ Sideband \/ OffsetTuning \/ DirectSampling \/ DsMode

Spec == Init /\ [][Next]_vars

-----------------------------------------------------------------------------
(***************************************************************************)
(* Properties.                                                             *)
(***************************************************************************)

Clocks == Xtals \X (Corrections \cup {0})

Device ==
    [r82xx: BOOLEAN, rate: Rates \cup {0}, freq: Freqs \cup {0}, bw: Bandwidths \cup {0},
     offs_freq: {r \div 2 : r \in Rates \cup {0}}, corr: Corrections \cup {0},
     rtl_xtal: Xtals, tun_xtal: Xtals, vcoClock: Clocks,
     ds: 0 .. 2, mode: DOMAIN Input, threshold: Thresholds \cup {0}, sideband: BOOLEAN,
     int_freq: Nat, if: Nat, ifClock: Clocks, lo: Nat, loClock: Clocks,
     inversion: BOOLEAN, filter: Nat, ok: BOOLEAN]

\* The device has every field, of its type.
TypeOK == dev \in Device

\* The frequency at the centre of the samples: the IF itself in direct sampling,
\* else above or below the LO by the IF.
Center(d) ==
    IF d.ds # 0 THEN d.if ELSE IF d.inversion THEN d.lo - d.if ELSE d.lo + d.if

\* Direct sampling was turned off, which restores an IF and a sideband that are not
\* the ones the device was set to: offset tuning, or the upper sideband, is lost in
\* the demodulator and kept in the LO.
LeftDirectSampling(d) ==
    /\ d.ds = 0
    /\ IF d.r82xx THEN d.sideband /\ d.inversion ELSE d.if # d.offs_freq

\* Whatever sequence of setters was called, the LO and the IF together receive the
\* frequency that rtlsdr_get_center_freq() reports, or the one way to lose it was
\* taken.
TunedToFreq == dev.freq # 0 /\ ~LeftDirectSampling(dev) => Center(dev) = dev.freq

\* What the device is tuned by, the LO or in direct sampling the IF, was computed from the
\* clock as it is now.
Current(d) ==
    d.freq # 0 => IF d.ds # 0 THEN d.ifClock = RtlClock(d) ELSE d.loClock = TunerClock(d)

\* rtlsdr_set_xtal_freq() gives the RTL2832 a new crystal and the tuner the one it has.
NewRtlCrystal ==
    dev.ds # 0 /\ \E x \in Xtals \ {dev.rtl_xtal} : dev' = SetXtalFreq(dev, x, dev.tun_xtal)

\* A frequency correction or a new crystal reaches what the device is tuned by, whatever
\* setters come between.  One call makes the clock stale, and only in direct sampling: a
\* new crystal for the RTL2832 together with the tuner's old one.  Setting a frequency or
\* an input again, or going back to the tuner, puts that right.
ClockCurrent ==
    [][/\ Current(dev) => Current(dev') \/ NewRtlCrystal
       /\ Frequency \/ DirectSampling \/ dev'.ds = 0 => Current(dev')]_vars
=============================================================================
