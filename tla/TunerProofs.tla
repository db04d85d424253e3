----------------------------- MODULE TunerProofs ----------------------------
(***************************************************************************)
(* What librtlsdr tunes to, for all frequencies, rates, bandwidths and     *)
(* crystals: after any sequence of setters the LO and the IF together      *)
(* receive the frequency that is reported, both computed from the clock    *)
(* there is.                                                               *)
(***************************************************************************)
EXTENDS RtlDevice, Sequences, TLAPS, WellFoundedInduction

-----------------------------------------------------------------------------
(***************************************************************************)
(* The invariant, as two predicates on a device.                           *)
(***************************************************************************)
\* What holds between any two things a setter programs: the IF is the tuner driver's while
\* the tuner is in use, an R82xx has no offset and an E4000 no sideband, and the tuner's
\* driver knows its clock.
Wired(d) ==
    /\ d \in Device
    /\ d.int_freq <= TunerMin
    /\ d.r82xx => d.offs_freq = 0
    /\ d.r82xx /\ d.ds = 0 => d.if = d.int_freq /\ (d.inversion \/ d.sideband)
    /\ ~d.r82xx => ~d.sideband /\ ~d.inversion
    /\ d.vcoClock = TunerClock(d)

\* What a setter that programs a frequency leaves behind: an IF computed from the clock
\* there is, where it is fresh.
Tuned(d, fresh) ==
    d.freq # 0 =>
      IF d.ds # 0
        THEN d.if = d.freq /\ (fresh => d.ifClock = RtlClock(d))
        ELSE /\ d.offs_freq + TunerMin <= d.freq
             /\ d.lo = LoFor(d, d.freq - d.offs_freq)
             /\ d.loClock = TunerClock(d)

Inv == Wired(dev) /\ Tuned(dev, FALSE)

LEMMA ClockTypes ==
    ASSUME NEW d \in Device
    PROVE  RtlClock(d) \in Clocks /\ TunerClock(d) \in Clocks
  BY DEF RtlClock, TunerClock, Clocks, Device

\* An offset is at most half a sample rate, below all that a tuner tunes to.
LEMMA OffsetFacts ==
    ASSUME NEW d \in Device
    PROVE  d.offs_freq \in Nat /\ d.offs_freq <= TunerMin /\ (d.offs_freq # 0 => d.offs_freq < TunerMin)
  <1>1. PICK r \in Rates \cup {0} : d.offs_freq = r \div 2
    BY DEF Device
  <1>2. CASE r = 0
    BY <1>1, <1>2, ConstantsAssumption
  <1>3. CASE r \in Rates
    BY <1>1, <1>3, ConstantsAssumption
  <1> QED BY <1>1, <1>2, <1>3

LEMMA WantedFacts ==
    ASSUME NEW d \in Device, NEW f
    PROVE  Wanted(d, f) \in 0 .. 2
  BY DEF Wanted, Device, Input

-----------------------------------------------------------------------------
(***************************************************************************)
(* Tuning.                                                                 *)
(***************************************************************************)
LEMMA SetIfFacts ==
    ASSUME NEW d \in Device, NEW f \in Nat
    PROVE  /\ SetIf(d, f) \in Device
           /\ SetIf(d, f) = [d EXCEPT !.if = f, !.ifClock = RtlClock(d)]
  BY ClockTypes DEF SetIf, Device

\* Tuning changes nothing else of what matters here.
Kept(d, e) ==
    /\ e.r82xx = d.r82xx /\ e.ds = d.ds /\ e.offs_freq = d.offs_freq /\ e.int_freq = d.int_freq
    /\ e.inversion = d.inversion /\ e.sideband = d.sideband
    /\ e.rtl_xtal = d.rtl_xtal /\ e.tun_xtal = d.tun_xtal /\ e.corr = d.corr
    /\ e.vcoClock = d.vcoClock

LEMMA WiredKept ==
    ASSUME NEW d, NEW e \in Device, Wired(d), Kept(d, e), d.ds # 0 \/ e.if = d.if
    PROVE  Wired(e)
  BY DEF Wired, Kept, TunerClock

\* rtlsdr_set_center_freq() tunes to f, or reports that it could not.
LEMMA TuneFacts ==
    ASSUME NEW fresh \in BOOLEAN, NEW d, Wired(d), NEW f \in Freqs \cup {0}
    PROVE  /\ Wired(Tune(d, f)) /\ Tuned(Tune(d, f), fresh)
           /\ Tune(d, f).freq \in {0, f} /\ Kept(d, Tune(d, f))
  <1> DEFINE e == Tune(d, f)
  <1>1. d \in Device /\ f \in Nat /\ TunerMin \in Nat
    BY ConstantsAssumption DEF Wired
  <1>2. CASE d.ds # 0
    <2>1. e = [d EXCEPT !.if = f, !.ifClock = RtlClock(d), !.ok = TRUE, !.freq = f]
      BY <1>1, <1>2 DEF Tune, SetIf, Device
    <2>2. RtlClock(d) \in Clocks
      BY <1>1, ClockTypes
    <2> HIDE DEF e
    <2>3. e \in Device
      BY <1>1, <2>1, <2>2 DEF Device
    <2>4. Kept(d, e) /\ e.freq = f /\ e.if = f /\ e.ifClock = RtlClock(d)
      BY <1>1, <2>1 DEF Kept, Device
    <2>5. Wired(e)
      BY <1>2, <2>3, <2>4, WiredKept
    <2>6. Tuned(e, fresh)
      BY <1>2, <2>4 DEF Tuned, Kept, RtlClock
    <2> QED BY <2>4, <2>5, <2>6 DEF e
  <1>3. CASE d.ds = 0 /\ f - d.offs_freq < TunerMin
    <2>1. e = [d EXCEPT !.ok = FALSE, !.freq = 0]
      BY <1>1, <1>3 DEF Tune, TunerSetFreq, Device
    <2> HIDE DEF e
    <2>2. e \in Device
      BY <1>1, <2>1 DEF Device
    <2>3. Kept(d, e) /\ e.freq = 0 /\ e.if = d.if
      BY <1>1, <2>1 DEF Kept, Device
    <2> QED BY <2>2, <2>3, WiredKept DEF Tuned, e
  <1>4. CASE d.ds = 0 /\ ~(f - d.offs_freq < TunerMin)
    <2> DEFINE lo == LoFor(d, f - d.offs_freq)
    <2>1. e = [d EXCEPT !.lo = lo, !.loClock = d.vcoClock, !.ok = TRUE, !.freq = f]
      BY <1>1, <1>4 DEF Tune, TunerSetFreq, Device
    <2>2. d.offs_freq \in Nat /\ d.int_freq \in 0 .. TunerMin
      BY <1>1, OffsetFacts DEF Wired, Device
    <2>3. lo \in Nat
      BY <1>1, <1>4, <2>2 DEF LoFor
    <2> HIDE DEF e, lo
    <2>4. e \in Device
      BY <1>1, <2>1, <2>3 DEF Device
    <2>5. Kept(d, e) /\ e.freq = f /\ e.if = d.if /\ e.lo = lo /\ e.loClock = d.vcoClock
      BY <1>1, <2>1 DEF Kept, Device
    <2>6. Wired(e)
      BY <2>4, <2>5, WiredKept
    <2>7. LoFor(e, f - e.offs_freq) = lo
      BY <2>5 DEF LoFor, Kept, lo
    <2>8. Tuned(e, fresh)
      BY <1>1, <1>4, <2>2, <2>5, <2>7 DEF Tuned, Kept, Wired, TunerClock
    <2> QED BY <2>5, <2>6, <2>8 DEF e
  <1> QED BY <1>2, <1>3, <1>4

\* rtlsdr_set_direct_sampling() up to its tuning again.
LEMMA SwitchFacts ==
    ASSUME NEW d, Wired(d), NEW on \in 0 .. 2
    PROVE  Wired(SwitchInput(d, on)) /\ SwitchInput(d, on).freq = d.freq
  <1> DEFINE e == SwitchInput(d, on)
  <1>1. d \in Device /\ IfDefault \in 0 .. TunerMin /\ IfDefault \in Nat /\ TunerMin \in Nat
    BY ConstantsAssumption DEF Wired
  <1>2. RtlClock(d) \in Clocks /\ TunerClock(d) \in Clocks
    BY <1>1, ClockTypes
  <1>3. CASE on # 0
    <2>1. e = [d EXCEPT !.inversion = FALSE, !.ds = on]
      BY <1>3 DEF SwitchInput
    <2> HIDE DEF e
    <2>2. e \in Device
      BY <1>1, <2>1 DEF Device
    <2>3. /\ e.r82xx = d.r82xx /\ e.ds = on /\ e.offs_freq = d.offs_freq /\ e.int_freq = d.int_freq
          /\ e.inversion = FALSE /\ e.sideband = d.sideband
          /\ e.tun_xtal = d.tun_xtal /\ e.corr = d.corr /\ e.vcoClock = d.vcoClock /\ e.freq = d.freq
      BY <1>1, <2>1 DEF Device
    <2> QED BY <1>3, <2>2, <2>3 DEF Wired, TunerClock, e
  <1>4. CASE on = 0 /\ d.r82xx
    <2>1. e = [d EXCEPT !.vcoClock = TunerClock(d), !.filter = 0, !.int_freq = IfDefault,
                        !.if = IfDefault, !.ifClock = RtlClock(d), !.inversion = TRUE, !.ds = 0]
      BY <1>1, <1>4 DEF SwitchInput, TunerInit, ReadClock, SetIf, RtlClock, Device
    <2> DEFINE i == [d EXCEPT !.vcoClock = TunerClock(d), !.filter = 0, !.int_freq = IfDefault]
    <2>2. /\ i.r82xx = d.r82xx /\ i.offs_freq = d.offs_freq /\ i.int_freq = IfDefault
          /\ i.tun_xtal = d.tun_xtal /\ i.corr = d.corr /\ i.vcoClock = TunerClock(d) /\ i.freq = d.freq
      BY <1>1 DEF Device
    <2>3. e = [i EXCEPT !.if = IfDefault, !.ifClock = RtlClock(d), !.inversion = TRUE, !.ds = 0]
      BY <2>1
    <2>4. e \in Device
      <3>1. i \in Device
        BY <1>1, <1>2 DEF Device
      <3> DEFINE j == [i EXCEPT !.if = IfDefault, !.ifClock = RtlClock(d)]
      <3>2. e = [j EXCEPT !.inversion = TRUE, !.ds = 0]
        BY <2>3
      <3> HIDE DEF e, i
      <3>3. j \in Device
        <4>1. IfDefault \in Nat /\ RtlClock(d) \in Clocks
          BY <1>1, <1>2, ClockTypes, ConstantsAssumption
        <4> QED BY <3>1, <4>1 DEF Device
      <3>4. 0 \in 0 .. 2
        OBVIOUS
      <3> HIDE DEF j
      <3> QED BY <3>2, <3>3, <3>4 DEF Device
    <2> HIDE DEF e, i
    <2>5. /\ e.r82xx = i.r82xx /\ e.offs_freq = i.offs_freq /\ e.int_freq = i.int_freq /\ e.if = IfDefault
          /\ e.inversion /\ e.tun_xtal = i.tun_xtal /\ e.corr = i.corr
          /\ e.vcoClock = i.vcoClock /\ e.freq = i.freq
      BY <2>2, <2>3 DEF Device
    <2>6. TunerClock(e) = TunerClock(d)
      BY <2>2, <2>5 DEF TunerClock
    <2>7. e.r82xx /\ e.offs_freq = 0 /\ e.int_freq <= TunerMin
      BY <1>1, <1>4, <2>2, <2>5 DEF Wired
    <2>8. e.vcoClock = TunerClock(e)
      BY <2>2, <2>5, <2>6
    <2> QED BY <2>2, <2>4, <2>5, <2>7, <2>8 DEF Wired, e
  <1>5. CASE on = 0 /\ ~d.r82xx
    <2>1. e = [d EXCEPT !.vcoClock = TunerClock(d), !.filter = 0,
                        !.if = 0, !.ifClock = RtlClock(d), !.ds = 0]
      BY <1>1, <1>5 DEF SwitchInput, TunerInit, ReadClock, SetIf, RtlClock, Device
    <2>2. e \in Device
      <3> DEFINE i == [d EXCEPT !.vcoClock = TunerClock(d), !.filter = 0]
      <3>1. i \in Device
        BY <1>1, <1>2 DEF Device
      <3>2. e = [i EXCEPT !.if = 0, !.ifClock = RtlClock(d), !.ds = 0]
        BY <2>1
      <3> HIDE DEF e, i
      <3>3. 0 \in 0 .. 2 /\ 0 \in Nat
        OBVIOUS
      <3> QED BY <1>2, <3>1, <3>2, <3>3 DEF Device
    <2> HIDE DEF e
    <2>3. /\ e.r82xx = d.r82xx /\ e.int_freq = d.int_freq
          /\ e.inversion = d.inversion /\ e.sideband = d.sideband
          /\ e.tun_xtal = d.tun_xtal /\ e.corr = d.corr
          /\ e.vcoClock = TunerClock(d) /\ e.freq = d.freq
      BY <1>1, <2>1 DEF Device
    <2> QED BY <1>5, <2>2, <2>3 DEF Wired, TunerClock, e
  <1> QED BY <1>3, <1>4, <1>5

LEMMA TunedKept ==
    ASSUME NEW fresh \in BOOLEAN, NEW d, NEW e, Tuned(d, fresh), Kept(d, e),
           e.freq = d.freq, e.if = d.if, e.ifClock = d.ifClock,
           e.lo = d.lo, e.loClock = d.loClock
    PROVE  Tuned(e, fresh)
  BY DEF Tuned, Kept, LoFor, RtlClock, TunerClock

\* rtlsdr_set_direct_sampling(), with the switches its tuning causes.
LEMMA DirectSamplingFacts ==
    ASSUME NEW fresh \in BOOLEAN, NEW d, Wired(d), NEW on \in 0 .. 2
    PROVE  Wired(SetDirectSampling(d, on)) /\ Tuned(SetDirectSampling(d, on), fresh)
  <1> DEFINE s == SwitchInput(d, on)
             again == SwitchInput(s, Wanted(s, d.freq))
             once == Tune(again, d.freq)
  <1>1. d.freq \in Freqs \cup {0}
    BY DEF Wired, Device
  <1>2. Wired(s) /\ s.freq = d.freq
    BY SwitchFacts
  <1> HIDE DEF s
  <1>3. CASE Switches(s, d.freq)
    <2>1. Wanted(s, d.freq) \in 0 .. 2
      BY <1>2, WantedFacts DEF Wired
    <2>2. Wired(again)
      BY <1>2, <2>1, SwitchFacts
    <2> HIDE DEF again
    <2>3. Wired(once)
      BY <1>1, <2>2, TuneFacts
    <2> HIDE DEF once
    <2>4. Wired(Tune(once, d.freq)) /\ Tuned(Tune(once, d.freq), fresh)
      BY <1>1, <2>3, TuneFacts
    <2>5. SetDirectSampling(d, on) = Tune(once, d.freq)
      BY <1>2, <1>3 DEF SetDirectSampling, once, again, s
    <2> QED BY <2>4, <2>5
  <1>4. CASE ~Switches(s, d.freq)
    <2>1. SetDirectSampling(d, on) = Tune(s, d.freq)
      BY <1>4 DEF SetDirectSampling, s
    <2> QED BY <1>1, <1>2, <2>1, TuneFacts
  <1> QED BY <1>3, <1>4

LEMMA CenterFreqFacts ==
    ASSUME NEW fresh \in BOOLEAN, NEW d, Wired(d), NEW f \in Freqs \cup {0}
    PROVE  Wired(SetCenterFreq(d, f)) /\ Tuned(SetCenterFreq(d, f), fresh)
  <1>1. Wanted(d, f) \in 0 .. 2
    BY WantedFacts DEF Wired
  <1>2. Wired(UpdateDs(d, f))
    BY <1>1, DirectSamplingFacts DEF UpdateDs
  <1> QED BY <1>2, TuneFacts DEF SetCenterFreq

LEMMA RetuneFacts ==
    ASSUME NEW fresh \in BOOLEAN, NEW d, Wired(d)
    PROVE  Wired(Retune(d)) /\ Tuned(Retune(d), fresh)
  <1>1. d.freq \in Freqs \cup {0}
    BY DEF Wired, Device
  <1>2. CASE d.freq = 0
    BY <1>2 DEF Retune, Tuned
  <1>3. CASE d.freq # 0
    BY <1>1, <1>3, CenterFreqFacts DEF Retune
  <1> QED BY <1>2, <1>3

-----------------------------------------------------------------------------
(***************************************************************************)
(* The other setters.                                                      *)
(***************************************************************************)
\* A new offset always retunes what is tuned by the tuner.
LEMMA OffsetTuningFacts ==
    ASSUME NEW fresh \in BOOLEAN, NEW d, Wired(d), NEW on \in BOOLEAN
    PROVE  Wired(SetOffsetTuning(d, on)) /\ (Tuned(d, fresh) => Tuned(SetOffsetTuning(d, on), fresh))
  <1> DEFINE offs == OffsetFor(d, on)
             new == IF on THEN 2 * offs ELSE IF d.bw > 0 THEN d.bw ELSE d.rate
             w == [d EXCEPT !.offs_freq = offs, !.if = offs, !.ifClock = RtlClock(d), !.filter = new]
  <1>0. d \in Device /\ TunerMin \in Nat
    BY ConstantsAssumption DEF Wired
  <1>1. /\ d.freq \in Freqs \cup {0} /\ d.freq \in Nat /\ d.bw \in Nat
        /\ d.rate \in Rates \cup {0} /\ d.rate \in Nat /\ RtlClock(d) \in Clocks
    <2>1. d.freq \in Freqs \cup {0} /\ d.bw \in Bandwidths \cup {0} /\ d.rate \in Rates \cup {0}
      BY <1>0 DEF Device
    <2>2. Freqs \cup {0} \subseteq Nat /\ Bandwidths \cup {0} \subseteq Nat /\ Rates \cup {0} \subseteq Nat
      BY ConstantsAssumption
    <2>3. RtlClock(d) \in Clocks
      BY <1>0, ClockTypes
    <2> QED BY <2>1, <2>2, <2>3
  <1>2. CASE d.r82xx \/ d.ds # 0
    BY <1>2 DEF SetOffsetTuning
  <1>3. CASE ~d.r82xx /\ d.ds = 0
    <2>1. SetOffsetTuning(d, on) = OffsetRetune(w)
      BY <1>0, <1>1, <1>3 DEF SetOffsetTuning, SetIf, RtlClock, Device
    <2>2. offs \in {r \div 2 : r \in Rates \cup {0}} /\ offs \in Nat
      <3>1. PICK r \in Rates \cup {0} : offs = r \div 2
        <4>1. 0 \div 2 = 0
          OBVIOUS
        <4> QED BY <1>1, <4>1 DEF OffsetFor
      <3>2. r \in Nat
        BY ConstantsAssumption
      <3> QED BY <3>1, <3>2
    <2> HIDE DEF offs
    <2>3. new \in Nat
      BY <1>1, <2>2
    <2> HIDE DEF new
    <2>4. w \in Device
      BY <1>0, <1>1, <2>2, <2>3 DEF Device
    <2>5. /\ w.r82xx = d.r82xx /\ w.ds = d.ds /\ w.offs_freq = offs /\ w.int_freq = d.int_freq
          /\ w.inversion = d.inversion /\ w.sideband = d.sideband
          /\ w.tun_xtal = d.tun_xtal /\ w.corr = d.corr /\ w.vcoClock = d.vcoClock /\ w.freq = d.freq
      BY <1>0, <1>1 DEF Device
    <2> HIDE DEF w
    <2>6. Wired(w)
      BY <1>3, <2>4, <2>5 DEF Wired, TunerClock
    <2>7. CASE w.freq > w.offs_freq
      BY <1>1, <2>1, <2>5, <2>6, <2>7, CenterFreqFacts DEF OffsetRetune
    <2>8. CASE ~(w.freq > w.offs_freq)
      <3>1. SetOffsetTuning(d, on) = w
        BY <2>1, <2>8 DEF OffsetRetune
      <3>2. ASSUME Tuned(d, fresh) PROVE w.freq = 0
        <4>1. d.freq # 0 => d.offs_freq + TunerMin <= d.freq /\ d.offs_freq \in Nat
          BY <1>0, <1>1, <1>3, <3>2, OffsetFacts DEF Tuned
        <4>2. w.offs_freq \in Nat /\ (w.offs_freq # 0 => w.offs_freq < TunerMin)
          BY <2>4, OffsetFacts
        <4> QED BY <1>0, <1>1, <2>5, <2>8, <4>1, <4>2
      <3> QED BY <2>6, <3>1, <3>2 DEF Tuned
    <2> QED BY <2>7, <2>8
  <1> QED BY <1>2, <1>3

LEMMA SampleRateFacts ==
    ASSUME NEW fresh \in BOOLEAN, NEW d, Wired(d), NEW r \in Rates \cup {0}
    PROVE  Wired(SetSampleRate(d, r)) /\ (Tuned(d, fresh) => Tuned(SetSampleRate(d, r), fresh))
  <1> DEFINE s == [d EXCEPT !.rate = r]
  <1>1. d \in Device
    BY DEF Wired
  <1>2. s \in Device
    BY <1>1 DEF Device
  <1>3. /\ Kept(d, s) /\ s.freq = d.freq /\ s.if = d.if /\ s.ifClock = d.ifClock
        /\ s.lo = d.lo /\ s.loClock = d.loClock
    BY <1>1 DEF Kept, Device
  <1>4. SetSampleRate(d, r) = IF s.offs_freq # 0 THEN SetOffsetTuning(s, TRUE) ELSE s
    BY DEF SetSampleRate
  <1> HIDE DEF s
  <1>5. Wired(s) /\ (Tuned(d, fresh) => Tuned(s, fresh))
    BY <1>2, <1>3, WiredKept, TunedKept
  <1> QED BY <1>4, <1>5, OffsetTuningFacts

\* A tuner's driver that reads its clock again is told of a new correction or crystal.
LEMMA ReadClockFacts ==
    ASSUME NEW d \in Device, NEW e \in Device, Wired(e), e.freq = d.freq,
           d.r82xx = e.r82xx, d.ds = e.ds, d.offs_freq = e.offs_freq, d.int_freq = e.int_freq,
           d.if = e.if, d.inversion = e.inversion, d.sideband = e.sideband
    PROVE  Wired(ReadClock(d))
  <1> DEFINE c == ReadClock(d)
  <1>1. TunerClock(d) \in Clocks
    BY ClockTypes
  <1>2. c = [d EXCEPT !.vcoClock = TunerClock(d)]
    BY DEF ReadClock
  <1> HIDE DEF c
  <1>3. c \in Device
    BY <1>1, <1>2 DEF Device
  <1>4. /\ c.r82xx = d.r82xx /\ c.ds = d.ds /\ c.offs_freq = d.offs_freq /\ c.int_freq = d.int_freq
        /\ c.if = d.if /\ c.inversion = d.inversion /\ c.sideband = d.sideband
        /\ c.tun_xtal = d.tun_xtal /\ c.corr = d.corr /\ c.vcoClock = TunerClock(d)
    BY <1>2 DEF Device
  <1>5. c.vcoClock = TunerClock(c)
    BY <1>4 DEF TunerClock
  <1> QED BY <1>3, <1>4, <1>5 DEF Wired, c

LEMMA FreqCorrectionFacts ==
    ASSUME NEW fresh \in BOOLEAN, NEW d, Wired(d), Tuned(d, fresh), NEW ppm \in Corrections
    PROVE  Wired(SetFreqCorrection(d, ppm)) /\ Tuned(SetFreqCorrection(d, ppm), fresh)
  <1> DEFINE e == [d EXCEPT !.corr = ppm]
  <1>1. d \in Device
    BY DEF Wired
  <1>2. e \in Device
    BY <1>1 DEF Device
  <1>3. /\ e.r82xx = d.r82xx /\ e.ds = d.ds /\ e.offs_freq = d.offs_freq /\ e.int_freq = d.int_freq
        /\ e.if = d.if /\ e.inversion = d.inversion /\ e.sideband = d.sideband /\ e.freq = d.freq
    BY <1>1 DEF Device
  <1>4. SetFreqCorrection(d, ppm) = IF d.corr = ppm THEN d ELSE Retune(ReadClock(e))
    BY DEF SetFreqCorrection
  <1> HIDE DEF e
  <1>5. Wired(ReadClock(e))
    BY <1>1, <1>2, <1>3, ReadClockFacts
  <1> QED BY <1>4, <1>5, RetuneFacts

\* Of a new crystal the tuner is told after the sample rate was set again, if it was.  In
\* direct sampling the IF misses a new crystal of the RTL2832 if the tuner's stays.
LEMMA XtalFreqFacts ==
    ASSUME NEW fresh \in BOOLEAN, NEW d, Wired(d), Tuned(d, fresh),
           NEW rtl \in Xtals \cup {0}, NEW tun \in Xtals \cup {0}
    PROVE  /\ Wired(SetXtalFreq(d, rtl, tun))
           /\ \/ Tuned(SetXtalFreq(d, rtl, tun), fresh)
              \/ fresh /\ d.ds # 0 /\ rtl \in Xtals \ {d.rtl_xtal} /\ tun = d.tun_xtal
  <1> DEFINE y == [d EXCEPT !.rtl_xtal = rtl]
             r == IF rtl = 0 \/ d.rtl_xtal = rtl THEN d
                  ELSE IF y.rate # 0 THEN SetSampleRate(y, y.rate) ELSE y
             new == IF tun = 0 THEN r.rtl_xtal ELSE tun
             z == [r EXCEPT !.tun_xtal = new]
             missed == fresh /\ d.ds # 0 /\ rtl \in Xtals \ {d.rtl_xtal} /\ tun = d.tun_xtal
  <1>1. d \in Device
    BY DEF Wired
  <1>2. SetXtalFreq(d, rtl, tun) = IF r.tun_xtal = tun THEN r ELSE Retune(ReadClock(z))
    BY DEF SetXtalFreq
  <1>3. Wired(r) /\ (r.tun_xtal = tun => Tuned(r, fresh) \/ missed)
    <2>1. CASE rtl = 0 \/ d.rtl_xtal = rtl
      BY <2>1
    <2>2. CASE ~(rtl = 0 \/ d.rtl_xtal = rtl)
      <3>1. y \in Device
        BY <1>1, <2>2 DEF Device
      <3>2. /\ y.r82xx = d.r82xx /\ y.ds = d.ds /\ y.offs_freq = d.offs_freq /\ y.int_freq = d.int_freq
            /\ y.if = d.if /\ y.inversion = d.inversion /\ y.sideband = d.sideband
            /\ y.tun_xtal = d.tun_xtal /\ y.corr = d.corr /\ y.vcoClock = d.vcoClock
            /\ y.freq = d.freq /\ y.lo = d.lo /\ y.loClock = d.loClock
        BY <1>1 DEF Device
      <3>3. r = IF y.rate # 0 THEN SetSampleRate(y, y.rate) ELSE y
        BY <2>2
      <3> HIDE DEF y, r
      <3>4. Wired(y) /\ y.rate \in Rates \cup {0}
        <4>1. y.rate \in Rates \cup {0}
          BY <3>1 DEF Device
        <4> QED BY <3>1, <3>2, <4>1 DEF Wired, TunerClock
      <3>5. Wired(r) /\ (Tuned(y, fresh) => Tuned(r, fresh))
        BY <3>3, <3>4, SampleRateFacts
      <3>6. CASE d.ds = 0 \/ ~fresh
        <4>1. Tuned(y, fresh)
          BY <3>2, <3>6 DEF Tuned, LoFor, TunerClock
        <4> QED BY <3>5, <4>1
      <3>7. CASE d.ds # 0 /\ fresh
        <4>1. SetSampleRate(y, y.rate) = [y EXCEPT !.rate = y.rate]
          <5> DEFINE s == [y EXCEPT !.rate = y.rate]
          <5>1. s.ds = y.ds
            BY <3>1 DEF Device
          <5> HIDE DEF s
          <5>2. SetOffsetTuning(s, TRUE) = s
            BY <3>2, <3>7, <5>1 DEF SetOffsetTuning
          <5>3. SetSampleRate(y, y.rate) = IF s.offs_freq # 0 THEN SetOffsetTuning(s, TRUE) ELSE s
            BY DEF SetSampleRate, s
          <5> QED BY <5>2, <5>3 DEF s
        <4>2. r.tun_xtal = d.tun_xtal
          BY <3>1, <3>2, <3>3, <4>1 DEF Device
        <4>3. rtl \in Xtals \ {d.rtl_xtal}
          BY <2>2
        <4> QED BY <3>5, <3>7, <4>2, <4>3
      <3> QED BY <3>6, <3>7
    <2> QED BY <2>1, <2>2
  <1> HIDE DEF y, r, missed
  <1>4. CASE r.tun_xtal = tun
    BY <1>2, <1>3, <1>4 DEF missed
  <1>5. CASE r.tun_xtal # tun
    <2>1. r \in Device
      BY <1>3 DEF Wired
    <2>2. new \in Xtals
      <3>1. r.rtl_xtal \in Xtals
        BY <2>1 DEF Device
      <3> QED BY <3>1
    <2> HIDE DEF new
    <2>3. z \in Device
      BY <2>1, <2>2 DEF Device
    <2>4. /\ z.r82xx = r.r82xx /\ z.ds = r.ds /\ z.offs_freq = r.offs_freq /\ z.int_freq = r.int_freq
          /\ z.if = r.if /\ z.inversion = r.inversion /\ z.sideband = r.sideband /\ z.freq = r.freq
      BY <2>1 DEF Device
    <2> HIDE DEF z
    <2>5. Wired(ReadClock(z))
      BY <1>3, <2>1, <2>3, <2>4, ReadClockFacts
    <2> QED BY <1>2, <1>5, <2>5, RetuneFacts
  <1> QED BY <1>4, <1>5

\* The IF follows the bandwidth of an R82xx and the LO the IF.
LEMMA TunerBandwidthFacts ==
    ASSUME NEW fresh \in BOOLEAN, NEW d, Wired(d), Tuned(d, fresh), NEW bw \in Bandwidths
    PROVE  Wired(SetTunerBandwidth(d, bw)) /\ Tuned(SetTunerBandwidth(d, bw), fresh)
  <1> DEFINE width == IF bw > 0 THEN bw ELSE d.rate
             int_freq == IF d.r82xx THEN NarrowIf(width) ELSE d.int_freq
             f == [d EXCEPT !.filter = width, !.int_freq = int_freq]
             t == AfterBandwidth(f)
             b == [t EXCEPT !.bw = IF t.ok THEN bw ELSE d.bw]
  <1>1. d \in Device /\ TunerMin \in Nat
    BY ConstantsAssumption DEF Wired
  <1>2. SetTunerBandwidth(d, bw) = b
    BY DEF SetTunerBandwidth
  <1>3. width \in Bandwidths \cup Rates \cup {0} /\ width \in Nat
    <2>1. d.rate \in Rates \cup {0}
      BY <1>1 DEF Device
    <2>2. Bandwidths \cup Rates \cup {0} \subseteq Nat
      BY ConstantsAssumption
    <2> QED BY <2>1, <2>2
  <1> HIDE DEF width
  <1>4. int_freq \in Nat /\ int_freq <= TunerMin
    <2>1. NarrowIf(width) \in 0 .. TunerMin
      BY <1>3, ConstantsAssumption
    <2>2. d.int_freq \in Nat /\ d.int_freq <= TunerMin
      BY <1>1 DEF Wired, Device
    <2> QED BY <1>1, <2>1, <2>2
  <1>5. ~d.r82xx => int_freq = d.int_freq
    OBVIOUS
  <1> HIDE DEF int_freq
  <1>6. f \in Device
    BY <1>1, <1>3, <1>4 DEF Device
  <1>7. /\ f.r82xx = d.r82xx /\ f.ds = d.ds /\ f.offs_freq = d.offs_freq /\ f.int_freq = int_freq
        /\ f.if = d.if /\ f.inversion = d.inversion /\ f.sideband = d.sideband /\ f.freq = d.freq
        /\ f.rtl_xtal = d.rtl_xtal /\ f.tun_xtal = d.tun_xtal /\ f.corr = d.corr /\ f.vcoClock = d.vcoClock
        /\ f.ifClock = d.ifClock /\ f.lo = d.lo /\ f.loClock = d.loClock
    BY <1>1 DEF Device
  <1> HIDE DEF f
  <1>8. Wired(t) /\ Tuned(t, fresh)
    <2>1. CASE d.r82xx
      <3> DEFINE i == SetIf(f, f.int_freq)
      <3>1. i \in Device /\ i = [f EXCEPT !.if = f.int_freq, !.ifClock = RtlClock(f)]
        BY <1>4, <1>6, <1>7, SetIfFacts
      <3>2. Kept(f, i) /\ i.if = f.int_freq
        BY <1>6, <3>1 DEF Kept, Device
      <3>3. t = SetCenterFreq(i, f.freq)
        BY <1>7, <2>1 DEF AfterBandwidth
      <3> HIDE DEF i
      <3>4. Wired(i)
        BY <1>4, <1>7, <2>1, <3>1, <3>2 DEF Wired, Kept, TunerClock
      <3>5. f.freq \in Freqs \cup {0}
        BY <1>6 DEF Device
      <3>6. Wired(SetCenterFreq(i, f.freq)) /\ Tuned(SetCenterFreq(i, f.freq), fresh)
        BY <3>4, <3>5, CenterFreqFacts
      <3> QED BY <3>3, <3>6
    <2>2. CASE ~d.r82xx
      <3> DEFINE o == [f EXCEPT !.ok = TRUE]
      <3>1. t = o
        BY <1>7, <2>2 DEF AfterBandwidth
      <3>2. o \in Device
        BY <1>6 DEF Device
      <3>3. /\ Kept(f, o) /\ o.if = f.if /\ o.freq = f.freq /\ o.ifClock = f.ifClock
            /\ o.lo = f.lo /\ o.loClock = f.loClock
        BY <1>6 DEF Kept, Device
      <3> HIDE DEF o
      <3>4. Kept(d, o)
        BY <1>5, <1>7, <2>2, <3>3 DEF Kept
      <3> QED BY <1>7, <3>1, <3>2, <3>3, <3>4, WiredKept, TunedKept
    <2> QED BY <2>1, <2>2
  <1> HIDE DEF t
  <1>9. t \in Device
    BY <1>8 DEF Wired
  <1>10. b \in Device
    <2> DEFINE v == IF t.ok THEN bw ELSE d.bw
    <2>1. v \in Bandwidths \cup {0}
      BY <1>1 DEF Device
    <2>2. b = [t EXCEPT !.bw = v]
      OBVIOUS
    <2> HIDE DEF v, b
    <2> QED BY <1>9, <2>1, <2>2 DEF Device
  <1>11. /\ Kept(t, b) /\ b.freq = t.freq /\ b.if = t.if /\ b.ifClock = t.ifClock
         /\ b.lo = t.lo /\ b.loClock = t.loClock
    BY <1>9 DEF Kept, Device
  <1> QED BY <1>2, <1>8, <1>10, <1>11, WiredKept, TunedKept

LEMMA TunerSidebandFacts ==
    ASSUME NEW fresh \in BOOLEAN, NEW d, Wired(d), Tuned(d, fresh), NEW upper \in BOOLEAN
    PROVE  Wired(SetTunerSideband(d, upper)) /\ Tuned(SetTunerSideband(d, upper), fresh)
  <1> DEFINE e == [d EXCEPT !.sideband = upper, !.inversion = ~upper]
  <1>1. d \in Device
    BY DEF Wired
  <1>2. CASE ~d.r82xx
    BY <1>2 DEF SetTunerSideband
  <1>3. CASE d.r82xx
    <2>1. e \in Device
      <3> DEFINE lower == ~upper
                 u == [d EXCEPT !.sideband = upper]
      <3>1. lower \in BOOLEAN /\ e = [u EXCEPT !.inversion = lower]
        OBVIOUS
      <3>2. u \in Device
        BY <1>1 DEF Device
      <3> HIDE DEF lower, u, e
      <3> QED BY <3>1, <3>2 DEF Device
    <2>2. /\ e.r82xx = d.r82xx /\ e.ds = d.ds /\ e.offs_freq = d.offs_freq /\ e.int_freq = d.int_freq
          /\ e.if = d.if /\ e.tun_xtal = d.tun_xtal /\ e.corr = d.corr /\ e.vcoClock = d.vcoClock
      BY <1>1 DEF Device
    <2>3. e.inversion \/ e.sideband
      BY <1>1 DEF Device
    <2>4. SetTunerSideband(d, upper) = SetCenterFreq(e, d.freq)
      BY <1>3 DEF SetTunerSideband
    <2> HIDE DEF e
    <2>5. Wired(e)
      BY <1>3, <2>1, <2>2, <2>3 DEF Wired, TunerClock
    <2>6. d.freq \in Freqs \cup {0}
      BY <1>1 DEF Device
    <2> QED BY <2>4, <2>5, <2>6, CenterFreqFacts
  <1> QED BY <1>2, <1>3

LEMMA DsModeFacts ==
    ASSUME NEW fresh \in BOOLEAN, NEW d, Wired(d), Tuned(d, fresh), NEW m \in Modes, NEW h \in Thresholds
    PROVE  Wired(SetDsMode(d, m, h)) /\ Tuned(SetDsMode(d, m, h), fresh)
  <1> DEFINE e == [d EXCEPT !.mode = m, !.threshold = h]
             s == IF m \in Below THEN e ELSE SetDirectSampling(e, Input[m])
  <1>1. d \in Device /\ d.freq \in Freqs \cup {0}
    BY DEF Wired, Device
  <1>2. m \in DOMAIN Input /\ Input[m] \in 0 .. 2
    BY ConstantsAssumption DEF Input
  <1>3. e \in Device
    BY <1>1, <1>2 DEF Device
  <1>4. Kept(d, e) /\ e.if = d.if
    BY <1>1 DEF Kept, Device
  <1>5. SetDsMode(d, m, h) = IF d.freq = 0 THEN d ELSE SetCenterFreq(s, d.freq)
    BY DEF SetDsMode
  <1> HIDE DEF e
  <1>6. Wired(s)
    BY <1>2, <1>3, <1>4, WiredKept, DirectSamplingFacts
  <1> QED BY <1>1, <1>5, <1>6, CenterFreqFacts

-----------------------------------------------------------------------------
(***************************************************************************)
(* The invariant holds.                                                    *)
(***************************************************************************)
LEMMA InvInit == Init => Inv
  <1> SUFFICES ASSUME Init PROVE Inv
    OBVIOUS
  <1>1. PICK tuner \in Tuners, rtl, tun \in Xtals : dev = Opened(tuner, rtl, tun)
    BY DEF Init
  <1> DEFINE r82xx == tuner = "R82xx"
             if == IF r82xx THEN IfDefault ELSE 0
  <1>2. if \in Nat /\ if <= TunerMin /\ TunerMin \in Nat
    BY ConstantsAssumption
  <1>3. r82xx \in BOOLEAN
    OBVIOUS
  <1>4. <<tun, 0>> \in Clocks /\ <<rtl, 0>> \in Clocks
    BY DEF Clocks
  <1>5. 0 \in {r \div 2 : r \in Rates \cup {0}}
    <2>1. 0 \div 2 = 0
      OBVIOUS
    <2> QED BY <2>1
  <1>6. "IQ" \in DOMAIN Input
    BY DEF Input
  <1> HIDE DEF r82xx, if
  <1>7. /\ dev.r82xx = r82xx /\ dev.freq = 0 /\ dev.offs_freq = 0 /\ dev.int_freq = if /\ dev.if = if
        /\ dev.inversion = r82xx /\ ~dev.sideband /\ dev.vcoClock = <<tun, 0>>
        /\ dev.tun_xtal = tun /\ dev.corr = 0
    BY <1>1 DEF Opened, r82xx, if
  <1>8. dev \in Device
    <2>1. dev = [r82xx |-> r82xx, rate |-> 0, freq |-> 0, bw |-> 0, offs_freq |-> 0, corr |-> 0,
                 rtl_xtal |-> rtl, tun_xtal |-> tun, vcoClock |-> <<tun, 0>>,
                 ds |-> 0, mode |-> "IQ", threshold |-> 0, sideband |-> FALSE,
                 int_freq |-> if, if |-> if, ifClock |-> <<rtl, 0>>, lo |-> 0, loClock |-> <<tun, 0>>,
                 inversion |-> r82xx, filter |-> 0, ok |-> TRUE]
      BY <1>1 DEF Opened, r82xx, if
    <2> QED BY <1>2, <1>3, <1>4, <1>5, <1>6, <2>1 DEF Device
  <1> QED BY <1>2, <1>7, <1>8 DEF Inv, Wired, Tuned, TunerClock

\* A step keeps the IF's clock fresh, or not, but for the one call that makes it stale.
LEMMA StepFacts ==
    ASSUME NEW fresh \in BOOLEAN, Wired(dev), Tuned(dev, fresh), [Next]_vars
    PROVE  Wired(dev') /\ (Tuned(dev', fresh) \/ (fresh /\ NewRtlCrystal))
  <1>1. CASE Frequency
    BY <1>1, CenterFreqFacts DEF Frequency
  <1>2. CASE SampleRate
    BY <1>2, SampleRateFacts DEF SampleRate
  <1>3. CASE Correction
    BY <1>3, FreqCorrectionFacts DEF Correction
  <1>4. CASE Crystal
    BY <1>4, XtalFreqFacts DEF Crystal, NewRtlCrystal
  <1>5. CASE Bandwidth
    BY <1>5, TunerBandwidthFacts DEF Bandwidth
  <1>6. CASE Sideband
    BY <1>6, TunerSidebandFacts DEF Sideband
  <1>7. CASE OffsetTuning
    BY <1>7, OffsetTuningFacts DEF OffsetTuning
  <1>8. CASE DirectSampling
    <2>1. PICK on \in Inputs : dev' = SetDirectSampling(dev, on)
      BY <1>8 DEF DirectSampling
    <2>2. on \in 0 .. 2
      BY ConstantsAssumption
    <2> QED BY <2>1, <2>2, DirectSamplingFacts
  <1>9. CASE DsMode
    BY <1>9, DsModeFacts DEF DsMode
  <1>10. CASE UNCHANGED vars
    BY <1>10 DEF vars, Wired, Tuned, TunerClock, RtlClock, LoFor
  <1> QED BY <1>1, <1>2, <1>3, <1>4, <1>5, <1>6, <1>7, <1>8, <1>9, <1>10 DEF Next

LEMMA InvNext == Inv /\ [Next]_vars => Inv'
  <1> SUFFICES ASSUME Inv, [Next]_vars PROVE Inv'
    OBVIOUS
  <1>1. Wired(dev) /\ Tuned(dev, FALSE)
    BY DEF Inv
  <1>2. Wired(dev') /\ Tuned(dev', FALSE)
    BY <1>1, StepFacts
  <1> QED BY <1>2 DEF Inv, Wired, Tuned, TunerClock, RtlClock, LoFor

LEMMA InvAlways == Spec => []Inv
  BY InvInit, InvNext, PTL DEF Spec

-----------------------------------------------------------------------------
(***************************************************************************)
(* The theorems.                                                           *)
(***************************************************************************)
\* Every field that librtlsdr's setters store in struct rtlsdr_dev has its type.
THEOREM DeviceTypeCorrect == Spec => []TypeOK
  <1>1. Inv => TypeOK
    BY DEF Inv, Wired, TypeOK
  <1> QED BY <1>1, InvAlways, PTL

\* Whatever sequence of librtlsdr's setters was called, the LO and the IF together receive the
\* frequency that rtlsdr_get_center_freq() reports, unless direct sampling was left with
\* offset tuning on or the upper sideband chosen.
THEOREM TunedAsReported == Spec => []TunedToFreq
  <1>1. Inv => TunedToFreq
    <2> SUFFICES ASSUME Inv, dev.freq # 0, ~LeftDirectSampling(dev) PROVE Center(dev) = dev.freq
      BY DEF TunedToFreq
    <2>1. dev \in Device /\ dev.freq \in Nat /\ dev.int_freq \in Nat /\ dev.offs_freq \in Nat
      <3>1. dev \in Device
        BY DEF Inv, Wired
      <3>2. Freqs \cup {0} \subseteq Nat
        BY ConstantsAssumption
      <3>3. dev.freq \in Freqs \cup {0} /\ dev.int_freq \in Nat
        BY <3>1 DEF Device
      <3> QED BY <3>1, <3>2, <3>3, OffsetFacts
    <2>2. CASE dev.ds # 0
      BY <2>2 DEF Inv, Tuned, Center
    <2>3. CASE dev.ds = 0 /\ dev.r82xx
      <3>1. dev.lo = LoFor(dev, dev.freq) /\ dev.if = dev.int_freq
        BY <2>1, <2>3 DEF Inv, Tuned, Wired
      <3>2. dev.inversion <=> ~dev.sideband
        BY <2>3 DEF Inv, Wired, LeftDirectSampling
      <3>3. CASE dev.inversion
        BY <2>1, <2>3, <3>1, <3>2, <3>3 DEF Center, LoFor
      <3>4. CASE ~dev.inversion
        BY <2>1, <2>3, <3>1, <3>2, <3>4 DEF Center, LoFor
      <3> QED BY <3>3, <3>4
    <2>4. CASE dev.ds = 0 /\ ~dev.r82xx
      <3>1. dev.lo = dev.freq - dev.offs_freq
        BY <2>1, <2>4 DEF Inv, Tuned, LoFor
      <3>2. dev.if = dev.offs_freq /\ ~dev.inversion
        BY <2>4 DEF Inv, Wired, LeftDirectSampling
      <3> QED BY <2>1, <2>4, <3>1, <3>2 DEF Center
    <2> QED BY <2>2, <2>3, <2>4
  <1> QED BY <1>1, InvAlways, PTL

\* A frequency correction or a new crystal reaches what the device is tuned by, at once, but
\* for a new crystal of the RTL2832 given with the tuner's old one in direct sampling; the next
\* frequency that is set puts that right.
THEOREM ClockIsCurrent == Spec => ClockCurrent
  <1> DEFINE Kept1 == Current(dev) => Current(dev') \/ NewRtlCrystal
             Kept2 == Frequency \/ DirectSampling \/ dev'.ds = 0 => Current(dev')
  <1>1. ASSUME Inv, [Next]_vars PROVE Kept1
    <2> SUFFICES ASSUME Current(dev) PROVE Current(dev') \/ NewRtlCrystal
      OBVIOUS
    <2>1. Wired(dev) /\ Tuned(dev, TRUE)
      BY <1>1 DEF Inv, Tuned, Current
    <2>2. Tuned(dev', TRUE) \/ NewRtlCrystal
      BY <1>1, <2>1, StepFacts
    <2> QED BY <2>2 DEF Tuned, Current
  <1>2. ASSUME Inv, [Next]_vars PROVE Kept2
    <2>1. Wired(dev)
      BY <1>2 DEF Inv
    <2>2. CASE Frequency
      <3>1. Tuned(dev', TRUE)
        BY <2>1, <2>2, CenterFreqFacts DEF Frequency
      <3> QED BY <3>1 DEF Tuned, Current
    <2>3. CASE DirectSampling
      <3>1. PICK on \in Inputs : dev' = SetDirectSampling(dev, on)
        BY <2>3 DEF DirectSampling
      <3>2. on \in 0 .. 2
        BY ConstantsAssumption
      <3>3. Tuned(dev', TRUE)
        BY <2>1, <3>1, <3>2, DirectSamplingFacts
      <3> QED BY <3>3 DEF Tuned, Current
    <2>4. CASE dev'.ds = 0
      <3>1. Tuned(dev', FALSE)
        BY <1>2, StepFacts DEF Inv
      <3> QED BY <2>4, <3>1 DEF Tuned, Current
    <2> QED BY <2>2, <2>3, <2>4
  <1>3. ASSUME Inv, [Next]_vars PROVE [Kept1 /\ Kept2]_vars
    BY <1>1, <1>2, <1>3
  <1> QED BY <1>3, InvAlways, PTL DEF Spec, ClockCurrent

-----------------------------------------------------------------------------
(***************************************************************************)
(* The R82xx's driver: what it keeps true of the chip and of its shadow    *)
(* when transfers fail, for every table of frequencies and bandwidths the  *)
(* setters are called with, every crystal its PLL can divide and any       *)
(* number of failing calls.                                                *)
(***************************************************************************)
CONSTANTS Chips, CalImr, TunerFreqs, TunerXtals, TunerBandwidths, SdmBase, Width, MaxFailures

VARIABLES tuner, failures

R82 == INSTANCE R82xx WITH dev <- tuner, Freqs <- TunerFreqs, Xtals <- TunerXtals,
                           Bandwidths <- TunerBandwidths

Consts == R82!ConstantsAssumption

\* The registers, and the types of what is in them and of the driver's fields.
Registers == {"r05", "r07", "r0a", "r0b", "r10", "r12", "r14", "r15", "r16", "r17", "r1a", "r1b"}

Ifs == {R82!r82xx_bws[i][4] : i \in DOMAIN R82!r82xx_bws}

R10 == [refdiv2: BOOLEAN, div_num: 0 .. 5]
R12 == [more: BOOLEAN, pw_sdm: BOOLEAN, dither: BOOLEAN]
R14 == [ni: Int, si: Int]
R1a == [mux: Int, slow: BOOLEAN]

RegFile ==
    [r05: Int, r07: Int, r0a: Int, r0b: Int, r10: R10, r12: R12, r14: R14, r15: Int, r16: Int,
     r17: Int, r1a: R1a, r1b: Int]

Tuner ==
    [left: Int, reach: BOOLEAN, lock: {"once", "twice", "never"}, ok: BOOLEAN,
     r828d: BOOLEAN, xtal: TunerXtals, regs: RegFile, chip: RegFile,
     int_freq: Ifs, input: Int, sideband: BOOLEAN,
     freq: TunerFreqs \cup {0}, ds: BOOLEAN, if_freq: Int, inversion: BOOLEAN,
     half: BOOLEAN, halfInit: BOOLEAN, halfBw: BOOLEAN]

InputFor(f) == IF f > 345000 THEN 0 ELSE \h60

(***************************************************************************)
(* The invariant: the shadow agrees with the driver's fields, and the      *)
(* path and the PLL are programmed for the frequency that is reported.  A  *)
(* register that the driver writes whole holds in the chip what it was     *)
(* told, if the function went on; of one that is written by fields only    *)
(* the shadow is certain.                                                  *)
(***************************************************************************)
\* The IF filter's registers and the IF are of one row.
Row(d) == \E i \in DOMAIN R82!r82xx_bws : Tail(R82!r82xx_bws[i]) = <<d.regs.r0a, d.regs.r0b, d.int_freq>>

\* What the shadow says of the IF filters, of the sideband and of the input.
Shadowed(d) ==
    /\ ~d.ds /\ ~d.halfInit /\ ~d.halfBw => Row(d)
    /\ ~d.sideband => d.regs.r07 = 0
    /\ ~d.ds /\ ~d.halfInit => d.regs.r05 = d.input

\* The path before the mixer is that of f.
PathOf(d, f) ==
    /\ d.chip.r1b = R82!RangeOf(f)[4]
    /\ d.regs.r17 = R82!RangeOf(f)[2]
    /\ d.regs.r1a.mux = R82!RangeOf(f)[3]

\* The PLL's multiplier for lo, its integral part and its fraction.
Nint(d, lo) == R82!VcoDiv(d.xtal, lo) \div R82!SdmOne
Sdm(d, lo) == R82!VcoDiv(d.xtal, lo) % R82!SdmOne

\* The PLL is programmed for lo.
PllOf(d, lo) ==
    /\ lo \in Nat /\ 25000 <= lo /\ lo <= 1900000
    /\ d.regs.r10 = [refdiv2 |-> R82!RefDiv2(d.xtal), div_num |-> R82!DivNum(lo)]
    /\ d.regs.r12.pw_sdm = (Sdm(d, lo) # 0)
    /\ 4 * d.chip.r14.ni + d.chip.r14.si + 13 = Nint(d, lo)
    /\ d.chip.r16 = Sdm(d, lo) \div SdmBase
    /\ d.chip.r15 = Sdm(d, lo) % SdmBase

\* What is true of a tuner that is in use and reports a frequency.
Programmed(d) ==
    d.freq # 0 /\ ~d.ds =>
      /\ PathOf(d, d.freq)
      /\ ~d.halfInit /\ d.r828d => d.input = InputFor(d.freq)
      /\ ~d.half => PllOf(d, R82!LoFor(d, d.freq))

TypeOf(r) ==
    CASE r = "r10" -> R10
      [] r = "r12" -> R12
      [] r = "r14" -> R14
      [] r = "r1a" -> R1a
      [] OTHER -> Int

Flags == {"reach", "ok", "r828d", "sideband", "ds", "inversion", "half", "halfInit", "halfBw"}
Numbers == {"left", "input", "if_freq"}
Files == {"regs", "chip"}
Fields == Flags \cup Numbers \cup Files \cup {"lock", "xtal", "int_freq", "freq"}

LEMMA RegisterUpdate ==
    ASSUME NEW f \in RegFile, NEW r \in Registers, NEW val \in TypeOf(r)
    PROVE  /\ [f EXCEPT ![r] = val] \in RegFile
           /\ [f EXCEPT ![r] = val][r] = val
           /\ \A q \in Registers \ {r} : [f EXCEPT ![r] = val][q] = f[q]
  BY DEF RegFile, Registers, TypeOf

\* An update of one field.
Updated(d, e, f, v) ==
    /\ e \in Tuner
    /\ e[f] = v
    /\ \A g \in Fields \ {f} : e[g] = d[g]

LEMMA OtherFields ==
    ASSUME NEW d \in Tuner, NEW f \in Fields, NEW v
    PROVE  /\ [d EXCEPT ![f] = v][f] = v
           /\ \A g \in Fields \ {f} : [d EXCEPT ![f] = v][g] = d[g]
  BY DEF Tuner, Fields, Flags, Numbers, Files

LEMMA FlagUpdate ==
    ASSUME NEW d \in Tuner, NEW f \in Flags, NEW v \in BOOLEAN
    PROVE  Updated(d, [d EXCEPT ![f] = v], f, v)
  <1>1. [d EXCEPT ![f] = v] \in Tuner
    <2>1. CASE f \in {"reach", "ok", "r828d"}
      BY <2>1 DEF Tuner
    <2>2. CASE f \in {"sideband", "ds", "inversion"}
      BY <2>2 DEF Tuner
    <2>3. CASE f \in {"half", "halfInit", "halfBw"}
      BY <2>3 DEF Tuner
    <2> QED BY <2>1, <2>2, <2>3 DEF Flags
  <1> QED BY <1>1, OtherFields DEF Updated, Fields

LEMMA NumberUpdate ==
    ASSUME NEW d \in Tuner, NEW f \in Numbers, NEW v \in Int
    PROVE  Updated(d, [d EXCEPT ![f] = v], f, v)
  <1>1. [d EXCEPT ![f] = v] \in Tuner
    BY DEF Tuner, Numbers
  <1> QED BY <1>1, OtherFields DEF Updated, Fields

LEMMA FileUpdate ==
    ASSUME NEW d \in Tuner, NEW f \in Files, NEW v \in RegFile
    PROVE  Updated(d, [d EXCEPT ![f] = v], f, v)
  <1>1. [d EXCEPT ![f] = v] \in Tuner
    BY DEF Tuner, Files
  <1> QED BY <1>1, OtherFields DEF Updated, Fields

LEMMA IfUpdate ==
    ASSUME NEW d \in Tuner, NEW v \in Ifs
    PROVE  Updated(d, [d EXCEPT !.int_freq = v], "int_freq", v)
  <1>1. [d EXCEPT !.int_freq = v] \in Tuner
    BY DEF Tuner
  <1> QED BY <1>1, OtherFields DEF Updated, Fields

LEMMA FreqUpdate ==
    ASSUME NEW d \in Tuner, NEW v \in TunerFreqs \cup {0}
    PROVE  Updated(d, [d EXCEPT !.freq = v], "freq", v)
  <1>1. [d EXCEPT !.freq = v] \in Tuner
    BY DEF Tuner
  <1> QED BY <1>1, OtherFields DEF Updated, Fields

LEMMA XtalUpdate ==
    ASSUME NEW d \in Tuner, NEW v \in TunerXtals
    PROVE  Updated(d, [d EXCEPT !.xtal = v], "xtal", v)
  <1>1. [d EXCEPT !.xtal = v] \in Tuner
    BY DEF Tuner
  <1> QED BY <1>1, OtherFields DEF Updated, Fields

LEMMA LockUpdate ==
    ASSUME NEW d \in Tuner, NEW v \in {"once", "twice", "never"}
    PROVE  Updated(d, [d EXCEPT !.lock = v], "lock", v)
  <1>1. [d EXCEPT !.lock = v] \in Tuner
    BY DEF Tuner
  <1> QED BY <1>1, OtherFields DEF Updated, Fields

LEMMA TunerTypes ==
    ASSUME NEW d \in Tuner
    PROVE  /\ d.left \in Int /\ d.input \in Int /\ d.if_freq \in Int
           /\ d.regs \in RegFile /\ d.chip \in RegFile
           /\ d.int_freq \in Ifs /\ d.freq \in TunerFreqs \cup {0} /\ d.xtal \in TunerXtals
           /\ d.lock \in {"once", "twice", "never"}
  BY DEF Tuner

LEMMA FlagTypes ==
    ASSUME NEW d \in Tuner
    PROVE  /\ d.ok \in BOOLEAN /\ d.ds \in BOOLEAN /\ d.sideband \in BOOLEAN
           /\ d.inversion \in BOOLEAN /\ d.half \in BOOLEAN /\ d.halfInit \in BOOLEAN
           /\ d.halfBw \in BOOLEAN /\ d.r828d \in BOOLEAN
  BY DEF Tuner

\* From d to e nothing changed but fields in fs, registers in rs and how it went on.
Outcome == {"left", "ok", "regs", "chip"}

Changes(d, e, fs, rs) ==
    /\ e \in Tuner
    /\ \A f \in Fields \ (Outcome \cup fs) : e[f] = d[f]
    /\ \A r \in Registers \ rs : e.regs[r] = d.regs[r] /\ e.chip[r] = d.chip[r]
    /\ e.ok => d.ok

LEMMA ChangesMore ==
    ASSUME NEW d, NEW e, NEW fs, NEW gs, NEW rs, NEW qs,
           Changes(d, e, fs, rs), fs \subseteq gs, rs \subseteq qs
    PROVE  Changes(d, e, gs, qs)
  BY DEF Changes

LEMMA CountFacts ==
    ASSUME NEW d \in Tuner
    PROVE  /\ Changes(d, R82!Count(d), {}, {})
           /\ R82!Count(d).regs = d.regs /\ R82!Count(d).chip = d.chip
           /\ R82!Count(d).ok => R82!Arrives(d)
  <1> DEFINE ok == d.ok /\ d.left # 0
             a == [d EXCEPT !.ok = ok]
             e == [a EXCEPT !.left = d.left - 1]
  <1>1. ok \in BOOLEAN /\ (ok => d.ok /\ R82!Arrives(d))
    BY DEF R82!Arrives
  <1>2. R82!Count(d) = e
    BY DEF R82!Count
  <1> HIDE DEF ok
  <1>3. Updated(d, a, "ok", ok)
    BY <1>1, FlagUpdate DEF Flags
  <1>4. d.left - 1 \in Int /\ a \in Tuner
    BY <1>3, TunerTypes DEF Updated
  <1> HIDE DEF a
  <1>5. Updated(a, e, "left", d.left - 1)
    BY <1>4, NumberUpdate DEF Numbers
  <1> HIDE DEF e
  <1>6. \A f \in Fields \ {"left", "ok"} : e[f] = d[f]
    BY <1>3, <1>5 DEF Updated
  <1>7. e.ok = ok
    BY <1>3, <1>5 DEF Updated, Fields, Flags
  <1>8. e.regs = d.regs /\ e.chip = d.chip
    BY <1>6 DEF Fields, Files
  <1> QED BY <1>1, <1>2, <1>5, <1>6, <1>7, <1>8 DEF Changes, Outcome, Updated

LEMMA TransferFacts ==
    ASSUME NEW d \in Tuner
    PROVE  /\ Changes(d, R82!Transfer(d), {}, {})
           /\ R82!Transfer(d).regs = d.regs /\ R82!Transfer(d).chip = d.chip
  BY CountFacts DEF R82!Transfer, Changes

LEMMA WriteFacts ==
    ASSUME NEW d \in Tuner, NEW r \in Registers, NEW val \in TypeOf(r)
    PROVE  /\ Changes(d, R82!Write(d, r, val), {}, {r})
           /\ d.ok => R82!Write(d, r, val).regs[r] = val
           /\ ~d.ok => R82!Write(d, r, val) = d
           /\ R82!Write(d, r, val).ok => R82!Write(d, r, val).chip[r] = val
  <1>1. CASE ~d.ok
    BY <1>1 DEF R82!Write, Changes
  <1>2. CASE d.ok
    <2> DEFINE regs == [d.regs EXCEPT ![r] = val]
               chip == [d.chip EXCEPT ![r] = IF R82!Arrives(d) THEN val ELSE @]
               a == [d EXCEPT !.regs = regs]
               m == [a EXCEPT !.chip = chip]
    <2>0. d.regs \in RegFile /\ d.chip \in RegFile
      BY TunerTypes
    <2>1. /\ regs \in RegFile /\ regs[r] = val
          /\ \A q \in Registers \ {r} : regs[q] = d.regs[q]
      BY <2>0, RegisterUpdate
    <2>2. /\ chip \in RegFile /\ (R82!Arrives(d) => chip[r] = val)
          /\ \A q \in Registers \ {r} : chip[q] = d.chip[q]
      <3>1. CASE R82!Arrives(d)
        BY <2>0, <3>1, RegisterUpdate
      <3>2. CASE ~R82!Arrives(d)
        <4>1. chip = d.chip
          BY <2>0, <3>2 DEF RegFile
        <4> QED BY <2>0, <3>2, <4>1
      <3> QED BY <3>1, <3>2
    <2>3. R82!Write(d, r, val) = R82!Count(m)
      BY <1>2 DEF R82!Write
    <2> HIDE DEF regs, chip
    <2>4. a \in Tuner /\ a.regs = regs /\ \A f \in Fields \ {"regs"} : a[f] = d[f]
      <3>1. "regs" \in Files
        BY DEF Files
      <3>2. Updated(d, a, "regs", regs)
        BY <2>1, <3>1, FileUpdate
      <3> QED BY <3>2 DEF Updated
    <2> HIDE DEF a
    <2>5. m \in Tuner /\ m.chip = chip /\ \A f \in Fields \ {"chip"} : m[f] = a[f]
      <3>1. "chip" \in Files
        BY DEF Files
      <3>2. Updated(a, m, "chip", chip)
        BY <2>2, <2>4, <3>1, FileUpdate
      <3> QED BY <3>2 DEF Updated
    <2> HIDE DEF m
    <2>6. m.regs = regs /\ \A f \in Fields \ {"regs", "chip"} : m[f] = d[f]
      BY <2>4, <2>5 DEF Fields, Files
    <2>7. R82!Arrives(m) <=> R82!Arrives(d)
      BY <2>6 DEF R82!Arrives, Fields, Flags, Numbers
    <2>8. /\ Changes(m, R82!Count(m), {}, {})
          /\ R82!Count(m).regs = regs /\ R82!Count(m).chip = chip /\ (R82!Count(m).ok => R82!Arrives(d))
      BY <2>5, <2>6, <2>7, CountFacts
    <2>9. Changes(d, R82!Count(m), {}, {r})
      BY <1>2, <2>1, <2>2, <2>5, <2>6, <2>8 DEF Changes, Outcome
    <2> QED BY <1>2, <2>1, <2>2, <2>3, <2>8, <2>9
  <1> QED BY <1>1, <1>2

LEMMA WriteRegFacts ==
    ASSUME NEW d \in Tuner, NEW r \in Registers, NEW val \in TypeOf(r)
    PROVE  /\ Changes(d, R82!WriteReg(d, r, val), {}, {r})
           /\ d.ok => R82!WriteReg(d, r, val).regs[r] = val
           /\ ~d.ok => R82!WriteReg(d, r, val) = d
           /\ R82!WriteReg(d, r, val).ok /\ r \in R82!Whole => R82!WriteReg(d, r, val).chip[r] = val
  <1>1. CASE val = d.regs[r] /\ r \notin R82!Whole
    BY <1>1 DEF R82!WriteReg, Changes
  <1>2. CASE ~(val = d.regs[r] /\ r \notin R82!Whole)
    BY <1>2, WriteFacts DEF R82!WriteReg
  <1> QED BY <1>1, <1>2

-----------------------------------------------------------------------------
(***************************************************************************)
(* The least number of a set; the tables of ranges and of bandwidths.      *)
(***************************************************************************)
LEMMA HasLeast ==
    ASSUME NEW S \in SUBSET Nat, S # {}
    PROVE  \E x \in S : \A y \in S : x <= y
  <1>1. IsWellFoundedOn(OpToRel(<, Nat), Nat)
    BY NatLessThanWellFounded
  <1>2. PICK x \in S : \A y \in S : ~(<<y, x>> \in OpToRel(<, Nat))
    BY <1>1, WFMin
  <1>3. \A y \in S : x <= y
    <2> SUFFICES ASSUME NEW y \in S PROVE x <= y
      OBVIOUS
    <2>1. x \in Nat /\ y \in Nat /\ ~(y < x)
      BY <1>2 DEF OpToRel
    <2> QED BY <2>1
  <1> QED BY <1>3

LEMMA LeastIs ==
    ASSUME NEW S \in SUBSET Nat, NEW x \in S, \A y \in S : x <= y
    PROVE  R82!Min(S) = x
  <1> DEFINE P(z) == z \in S /\ \A y \in S : z <= y
  <1>1. P(x)
    OBVIOUS
  <1>2. R82!Min(S) = CHOOSE z : P(z)
    BY DEF R82!Min
  <1>3. P(CHOOSE z : P(z))
    <2> HIDE DEF P
    <2> QED BY <1>1
  <1>4. R82!Min(S) \in Nat /\ x \in Nat /\ R82!Min(S) <= x /\ x <= R82!Min(S)
    BY <1>1, <1>2, <1>3
  <1> QED BY <1>4

LEMMA LeastFacts ==
    ASSUME NEW S \in SUBSET Nat, S # {}
    PROVE  R82!Min(S) \in S /\ \A y \in S : R82!Min(S) <= y
  BY HasLeast, LeastIs

\* What the tables are made of.
LEMMA RowShape ==
    ASSUME NEW s \in Seq(Nat \X Nat \X Nat \X Nat), NEW i \in 1 .. Len(s)
    PROVE  /\ s[i][2] \in Nat /\ s[i][3] \in Nat /\ s[i][4] \in Nat
           /\ Tail(s[i]) = <<s[i][2], s[i][3], s[i][4]>>
  <1>1. s[i] \in Nat \X Nat \X Nat \X Nat
    OBVIOUS
  <1>2. ASSUME NEW a, NEW b, NEW c, NEW d
        PROVE  Tail(<<a, b, c, d>>) = <<b, c, d>>
    OBVIOUS
  <1>3. PICK t \in Nat \X Nat \X Nat \X Nat : t = s[i]
    BY <1>1
  <1>4. t = <<t[1], t[2], t[3], t[4]>> /\ t[2] \in Nat /\ t[3] \in Nat /\ t[4] \in Nat
    OBVIOUS
  <1>5. Tail(<<t[1], t[2], t[3], t[4]>>) = <<t[2], t[3], t[4]>>
    BY <1>2
  <1> QED BY <1>3, <1>4, <1>5

LEMMA Tables ==
    /\ Len(R82!freq_ranges) = 15 /\ R82!freq_ranges \in Seq(Nat \X Nat \X Nat \X Nat)
    /\ Len(R82!r82xx_bws) = 12 /\ R82!r82xx_bws \in Seq(Nat \X Nat \X Nat \X Nat)
    /\ DOMAIN R82!r82xx_bws = 1 .. 12
  <1>1. Len(R82!freq_ranges) = 15 /\ Len(R82!r82xx_bws) = 12 /\ DOMAIN R82!r82xx_bws = 1 .. 12
    BY DEF R82!freq_ranges, R82!r82xx_bws
  <1>2. R82!freq_ranges \in Seq(Nat \X Nat \X Nat \X Nat)
    BY DEF R82!freq_ranges
  <1>3. R82!r82xx_bws \in Seq(Nat \X Nat \X Nat \X Nat)
    BY DEF R82!r82xx_bws
  <1> QED BY <1>1, <1>2, <1>3

LEMMA IfOfRow ==
    ASSUME NEW i \in 1 .. 12
    PROVE  R82!r82xx_bws[i][4] \in Ifs
  BY Tables DEF Ifs

LEMMA IfRange ==
    /\ \A n \in Ifs : n \in Nat /\ 1 <= n /\ n <= 3570
    /\ 3570 \in Ifs
  <1>1. ASSUME NEW i \in 1 .. 12
        PROVE  R82!r82xx_bws[i][4] \in Nat /\ 1 <= R82!r82xx_bws[i][4] /\ R82!r82xx_bws[i][4] <= 3570
    <2>1. R82!r82xx_bws[i][4] \in Nat
      BY Tables, RowShape
    <2>2. 1 <= R82!r82xx_bws[i][4] /\ R82!r82xx_bws[i][4] <= 3570
      BY DEF R82!r82xx_bws
    <2> QED BY <2>1, <2>2
  <1>2. R82!r82xx_bws[12][4] = 3570
    BY DEF R82!r82xx_bws
  <1>3. R82!r82xx_bws[12][4] \in Ifs
    BY IfOfRow
  <1>4. \A n \in Ifs : n \in Nat /\ 1 <= n /\ n <= 3570
    <2> SUFFICES ASSUME NEW n \in Ifs PROVE n \in Nat /\ 1 <= n /\ n <= 3570
      OBVIOUS
    <2>1. PICK i \in 1 .. 12 : n = R82!r82xx_bws[i][4]
      BY Tables DEF Ifs
    <2> QED BY <1>1, <2>1
  <1> QED BY <1>2, <1>3, <1>4

LEMMA FreqRange ==
    ASSUME Consts, NEW f \in TunerFreqs \cup {0}
    PROVE  f \in Nat /\ f \in Int /\ f < Width
  <1>1. TunerFreqs \subseteq 1 .. Width - 1 /\ Width \in Nat /\ Width > 0
    BY DEF Consts
  <1> QED BY <1>1

LEMMA RangeTypes ==
    ASSUME NEW f \in Int
    PROVE  R82!RangeOf(f)[2] \in Int /\ R82!RangeOf(f)[3] \in Int /\ R82!RangeOf(f)[4] \in Int
  <1> DEFINE S == {i \in 1 .. Len(R82!freq_ranges) :
                        i < Len(R82!freq_ranges) => f \div 1000 < R82!freq_ranges[i + 1][1]}
  <1>1. R82!Min(S) \in 1 .. 15
    <2>1. S \subseteq 1 .. 15
      BY Tables
    <2>2. 15 \in S /\ S \in SUBSET Nat
      BY Tables
    <2> HIDE DEF S
    <2> QED BY <2>1, <2>2, LeastFacts
  <1>2. R82!RangeOf(f) = R82!freq_ranges[R82!Min(S)]
    BY DEF R82!RangeOf
  <1>3. R82!RangeOf(f)[2] \in Nat /\ R82!RangeOf(f)[3] \in Nat /\ R82!RangeOf(f)[4] \in Nat
    BY <1>1, <1>2, Tables, RowShape
  <1> QED BY <1>3

LEMMA RowTypes ==
    ASSUME NEW bw \in Int
    PROVE  \E i \in 1 .. 12 : R82!RowOf(bw) = R82!r82xx_bws[i]
  <1> DEFINE S == {i \in 1 .. Len(R82!r82xx_bws) :
                        i < Len(R82!r82xx_bws) => 2 * bw < R82!r82xx_bws[i][1] + R82!r82xx_bws[i + 1][1]}
  <1>1. R82!Min(S) \in 1 .. 12
    <2>1. S \subseteq 1 .. 12
      BY Tables
    <2>2. 12 \in S /\ S \in SUBSET Nat
      BY Tables
    <2> HIDE DEF S
    <2> QED BY <2>1, <2>2, LeastFacts
  <1>2. R82!RowOf(bw) = R82!r82xx_bws[R82!Min(S)]
    BY DEF R82!RowOf
  <1> QED BY <1>1, <1>2

-----------------------------------------------------------------------------
(***************************************************************************)
(* Registers of several fields; the multiplexer and the reference.         *)
(***************************************************************************)
LEMMA Composite ==
    ASSUME NEW g \in RegFile
    PROVE  /\ g.r10 \in R10
           /\ g.r12 \in R12
           /\ g.r14 \in R14
           /\ g.r1a \in R1a
           /\ g.r15 \in Int /\ g.r16 \in Int
  BY DEF RegFile

\* A change of one field of a register.
LEMMA FieldOfR12 ==
    ASSUME NEW x \in R12, NEW b \in BOOLEAN
    PROVE  /\ [x EXCEPT !.more = b] \in TypeOf("r12") /\ [x EXCEPT !.more = b].pw_sdm = x.pw_sdm
           /\ [x EXCEPT !.dither = b] \in TypeOf("r12") /\ [x EXCEPT !.dither = b].pw_sdm = x.pw_sdm
           /\ [x EXCEPT !.pw_sdm = b] \in TypeOf("r12") /\ [x EXCEPT !.pw_sdm = b].pw_sdm = b
  BY DEF TypeOf, R12

LEMMA MuxFacts ==
    ASSUME NEW d \in Tuner, NEW f \in Int
    PROVE  /\ Changes(d, R82!SetMux(d, f), {}, {"r17", "r1a", "r1b"})
           /\ R82!SetMux(d, f).ok => PathOf(R82!SetMux(d, f), f)
  <1> DEFINE range == R82!RangeOf(f)
             a == R82!WriteReg(d, "r17", range[2])
             v == [a.regs.r1a EXCEPT !.mux = range[3]]
             b == R82!WriteReg(a, "r1a", v)
             c == R82!WriteReg(b, "r1b", range[4])
  <1>1. range[2] \in Int /\ range[3] \in Int /\ range[4] \in Int
    BY RangeTypes
  <1>2. R82!SetMux(d, f) = c
    BY DEF R82!SetMux
  <1> HIDE DEF range
  <1>3. Changes(d, a, {}, {"r17"}) /\ (d.ok => a.regs.r17 = range[2])
    BY <1>1, WriteRegFacts DEF Registers, TypeOf
  <1>4. a \in Tuner /\ a.regs.r1a \in R1a
    BY <1>3, TunerTypes, Composite DEF Changes
  <1> HIDE DEF a
  <1>5. v \in TypeOf("r1a") /\ v.mux = range[3]
    BY <1>1, <1>4 DEF R1a, TypeOf
  <1> HIDE DEF v
  <1>6. Changes(a, b, {}, {"r1a"}) /\ (a.ok => b.regs.r1a = v)
    BY <1>4, <1>5, WriteRegFacts DEF Registers
  <1>7. b \in Tuner
    BY <1>6 DEF Changes
  <1> HIDE DEF b
  <1>8. Changes(b, c, {}, {"r1b"}) /\ (c.ok => c.chip.r1b = range[4])
    BY <1>1, <1>7, WriteRegFacts DEF Registers, TypeOf, R82!Whole
  <1> HIDE DEF c
  <1>9. Changes(d, c, {}, {"r17", "r1a", "r1b"})
    BY <1>3, <1>6, <1>8 DEF Changes
  <1>10. ASSUME c.ok PROVE PathOf(c, f)
    <2>1. a.ok /\ d.ok /\ b.ok
      BY <1>3, <1>6, <1>8, <1>10 DEF Changes
    <2>2. c.regs.r17 = range[2] /\ c.regs.r1a = v
      BY <1>3, <1>6, <1>8, <2>1 DEF Changes, Registers
    <2> QED BY <1>5, <1>8, <1>10, <2>2 DEF PathOf, range
  <1> QED BY <1>2, <1>9, <1>10

LEMMA ReferenceFacts ==
    ASSUME NEW d \in Tuner
    PROVE  /\ Changes(d, R82!SetReference(d), {}, {"r10", "r1a", "r12"})
           /\ R82!SetReference(d).regs.r1a.mux = d.regs.r1a.mux
           /\ R82!SetReference(d).ok => R82!SetReference(d).regs.r10.refdiv2 = R82!RefDiv2(d.xtal)
  <1> DEFINE u == [d.regs.r10 EXCEPT !.refdiv2 = R82!RefDiv2(d.xtal)]
             a == R82!WriteReg(d, "r10", u)
             v == [a.regs.r1a EXCEPT !.slow = FALSE]
             b == R82!WriteReg(a, "r1a", v)
             w == [b.regs.r12 EXCEPT !.more = FALSE]
             c == R82!WriteReg(b, "r12", w)
  <1>1. R82!SetReference(d) = c
    BY DEF R82!SetReference
  <1>2. u \in TypeOf("r10") /\ u.refdiv2 = R82!RefDiv2(d.xtal)
    <2>1. R82!RefDiv2(d.xtal) \in BOOLEAN
      BY DEF R82!RefDiv2
    <2>2. d.regs.r10 \in R10
      BY TunerTypes, Composite
    <2> QED BY <2>1, <2>2 DEF R10, TypeOf
  <1> HIDE DEF u
  <1>3. Changes(d, a, {}, {"r10"}) /\ (d.ok => a.regs.r10 = u)
    BY <1>2, WriteRegFacts DEF Registers
  <1>4. a \in Tuner /\ a.regs.r1a \in R1a
    BY <1>3, TunerTypes, Composite DEF Changes
  <1>5. a.regs.r1a = d.regs.r1a
    BY <1>3 DEF Changes, Registers
  <1> HIDE DEF a
  <1>6. v \in TypeOf("r1a") /\ v.mux = a.regs.r1a.mux
    BY <1>4 DEF R1a, TypeOf
  <1> HIDE DEF v
  <1>7. /\ Changes(a, b, {}, {"r1a"})
        /\ a.ok => b.regs.r1a = v
        /\ ~a.ok => b = a
    BY <1>4, <1>6, WriteRegFacts DEF Registers
  <1>8. b \in Tuner /\ b.regs.r12 \in R12
    BY <1>7, TunerTypes, Composite DEF Changes
  <1>9. b.regs.r1a.mux = d.regs.r1a.mux
    BY <1>4, <1>5, <1>6, <1>7, FlagTypes
  <1> HIDE DEF b
  <1>10. w \in TypeOf("r12")
    BY <1>8, FieldOfR12
  <1> HIDE DEF w
  <1>11. Changes(b, c, {}, {"r12"})
    BY <1>8, <1>10, WriteRegFacts DEF Registers
  <1> HIDE DEF c
  <1>12. Changes(d, c, {}, {"r10", "r1a", "r12"})
    BY <1>3, <1>7, <1>11 DEF Changes
  <1>13. c.regs.r1a.mux = d.regs.r1a.mux
    BY <1>9, <1>11 DEF Changes, Registers
  <1>14. c.ok => c.regs.r10.refdiv2 = R82!RefDiv2(d.xtal)
    <2> SUFFICES ASSUME c.ok PROVE c.regs.r10 = u
      BY <1>2
    <2>1. d.ok /\ a.ok /\ b.ok
      BY <1>3, <1>7, <1>11 DEF Changes
    <2> QED BY <1>3, <1>7, <1>11, <2>1 DEF Changes, Registers
  <1> QED BY <1>1, <1>12, <1>13, <1>14

-----------------------------------------------------------------------------
(***************************************************************************)
(* The PLL's dividers: nint and sdm are the VCO over twice the reference.  *)
(***************************************************************************)
LEMMA Reference ==
    ASSUME Consts, NEW xtal \in TunerXtals
    PROVE  R82!PllRef(xtal) \in Nat /\ R82!PllRef(xtal) >= 4000
  <1>1. xtal \in Nat /\ 8000 <= xtal /\ xtal <= 68000
    BY DEF Consts
  <1>2. xtal \div 2 \in Nat /\ xtal \div 2 >= 4000
    BY <1>1
  <1>3. CASE xtal > 24000
    BY <1>2, <1>3 DEF R82!PllRef, R82!RefDiv2
  <1>4. CASE ~(xtal > 24000)
    BY <1>1, <1>4 DEF R82!PllRef, R82!RefDiv2
  <1> QED BY <1>3, <1>4

LEMMA Powers ==
    ASSUME NEW f \in Int
    PROVE  /\ f * 2^(0 + 1) = 2 * f /\ f * 2^(1 + 1) = 4 * f /\ f * 2^(2 + 1) = 8 * f
           /\ f * 2^(3 + 1) = 16 * f /\ f * 2^(4 + 1) = 32 * f /\ f * 2^(5 + 1) = 64 * f
  <1>1. 2^(0 + 1) = 2 /\ 2^(1 + 1) = 4 /\ 2^(2 + 1) = 8 /\ 2^(3 + 1) = 16 /\ 2^(4 + 1) = 32 /\ 2^(5 + 1) = 64
    OBVIOUS
  <1> QED BY <1>1

LEMMA Divider ==
    ASSUME NEW f \in Nat
    PROVE  R82!DivNum(f) \in 0 .. 5 /\ R82!VcoFreq(f) \in Nat
  <1> DEFINE S == {n \in 0 .. 5 : n < 5 => (f * 2^(n + 1)) % Width >= R82!VcoMin}
  <1>1. R82!DivNum(f) \in S
    <2>1. 5 \in S /\ S \in SUBSET Nat
      OBVIOUS
    <2> HIDE DEF S
    <2>2. R82!Min(S) \in S
      BY <2>1, LeastFacts
    <2> QED BY <2>2 DEF R82!DivNum, S
  <1>2. R82!DivNum(f) \in 0 .. 5
    BY <1>1
  <1>3. \A n \in 0 .. 5 : f * 2^(n + 1) \in Nat
    <2> SUFFICES ASSUME NEW n \in 0 .. 5 PROVE f * 2^(n + 1) \in Nat
      OBVIOUS
    <2>1. n = 0 \/ n = 1 \/ n = 2 \/ n = 3 \/ n = 4 \/ n = 5
      OBVIOUS
    <2>2. /\ f * 2^(0 + 1) \in Nat /\ f * 2^(1 + 1) \in Nat /\ f * 2^(2 + 1) \in Nat
          /\ f * 2^(3 + 1) \in Nat /\ f * 2^(4 + 1) \in Nat /\ f * 2^(5 + 1) \in Nat
      BY Powers
    <2> QED BY <2>1, <2>2
  <1> QED BY <1>2, <1>3 DEF R82!VcoFreq

LEMMA FixedPoint ==
    ASSUME Consts
    PROVE  SdmBase \in Nat \ {0} /\ R82!SdmOne \in Nat \ {0}
  <1>1. SdmBase \in Nat \ {0}
    BY DEF Consts
  <1>2. SdmBase * SdmBase \in Nat /\ SdmBase * SdmBase # 0
    BY <1>1
  <1> QED BY <1>1, <1>2 DEF R82!SdmOne

LEMMA DivMod ==
    ASSUME NEW a \in Nat, NEW b \in Nat \ {0}
    PROVE  /\ a \div b \in Nat /\ a % b \in Nat /\ a % b < b
           /\ a = (b * (a \div b)) + (a % b)
  OBVIOUS

LEMMA VcoTypes ==
    ASSUME Consts, NEW d \in Tuner, NEW f \in Nat
    PROVE  /\ R82!VcoDiv(d.xtal, f) \in Nat
           /\ Nint(d, f) \in Nat /\ Sdm(d, f) \in Nat /\ Sdm(d, f) < R82!SdmOne
           /\ Sdm(d, f) \div SdmBase \in Nat /\ Sdm(d, f) % SdmBase \in Nat
           /\ R82!VcoDiv(d.xtal, f) = (R82!SdmOne * Nint(d, f)) + Sdm(d, f)
           /\ Sdm(d, f) = (SdmBase * (Sdm(d, f) \div SdmBase)) + (Sdm(d, f) % SdmBase)
  <1> DEFINE ref == R82!PllRef(d.xtal)
             v == R82!VcoFreq(f)
             q == R82!VcoDiv(d.xtal, f)
  <1>1. ref \in Nat /\ ref > 0 /\ v \in Nat /\ R82!SdmOne \in Nat \ {0} /\ SdmBase \in Nat \ {0}
    <2>1. d.xtal \in TunerXtals
      BY TunerTypes
    <2>2. ref \in Nat /\ ref >= 4000
      BY <2>1, Reference
    <2>3. v \in Nat /\ R82!SdmOne \in Nat \ {0} /\ SdmBase \in Nat \ {0}
      BY Divider, FixedPoint
    <2> HIDE DEF ref, v
    <2> QED BY <2>2, <2>3
  <1>2. q \in Nat
    <2>1. q = (ref + R82!SdmOne * v) \div (2 * ref)
      BY DEF R82!VcoDiv
    <2> HIDE DEF q, ref, v
    <2>2. R82!SdmOne * v \in Nat
      BY <1>1
    <2>3. ref + R82!SdmOne * v \in Nat /\ 2 * ref \in Nat /\ 2 * ref > 0
      BY <1>1, <2>2
    <2> QED BY <2>1, <2>3
  <1> HIDE DEF q
  <1>3. /\ q \div R82!SdmOne \in Nat /\ q % R82!SdmOne \in Nat /\ q % R82!SdmOne < R82!SdmOne
        /\ q = (R82!SdmOne * (q \div R82!SdmOne)) + (q % R82!SdmOne)
    BY <1>1, <1>2, DivMod
  <1>4. Nint(d, f) = q \div R82!SdmOne /\ Sdm(d, f) = q % R82!SdmOne
    BY DEF Nint, Sdm, q
  <1>5. Nint(d, f) \in Nat /\ Sdm(d, f) \in Nat /\ Sdm(d, f) < R82!SdmOne
    BY <1>3, <1>4
  <1>6. /\ Sdm(d, f) \div SdmBase \in Nat /\ Sdm(d, f) % SdmBase \in Nat
        /\ Sdm(d, f) = (SdmBase * (Sdm(d, f) \div SdmBase)) + (Sdm(d, f) % SdmBase)
    <2>1. PICK s \in Nat : s = Sdm(d, f)
      BY <1>5
    <2>2. /\ s \div SdmBase \in Nat /\ s % SdmBase \in Nat
          /\ s = (SdmBase * (s \div SdmBase)) + (s % SdmBase)
      BY <1>1, DivMod
    <2> QED BY <2>1, <2>2
  <1>7. q = (R82!SdmOne * Nint(d, f)) + Sdm(d, f)
    BY <1>3, <1>4
  <1> QED BY <1>2, <1>5, <1>6, <1>7 DEF q

LEMMA DividersFacts ==
    ASSUME Consts, NEW d \in Tuner, NEW f \in Nat
    PROVE  /\ Changes(d, R82!SetDividers(d, f), {}, {"r10", "r12", "r14", "r15", "r16"})
           /\ R82!SetDividers(d, f).ok =>
                /\ R82!SetDividers(d, f).regs.r10 = [refdiv2 |-> d.regs.r10.refdiv2, div_num |-> R82!DivNum(f)]
                /\ R82!SetDividers(d, f).regs.r12.pw_sdm = (Sdm(d, f) # 0)
                /\ 4 * R82!SetDividers(d, f).chip.r14.ni + R82!SetDividers(d, f).chip.r14.si + 13 = Nint(d, f)
                /\ R82!SetDividers(d, f).chip.r16 = Sdm(d, f) \div SdmBase
                /\ R82!SetDividers(d, f).chip.r15 = Sdm(d, f) % SdmBase
  <1> DEFINE nint == Nint(d, f)
             sdm == Sdm(d, f)
             pw == sdm # 0
             ni == (nint - 13) \div 4
             u == [d.regs.r10 EXCEPT !.div_num = R82!DivNum(f)]
             a == R82!WriteReg(d, "r10", u)
             v == [ni |-> ni, si |-> nint - 4 * ni - 13]
             b == R82!WriteReg(a, "r14", v)
             w == [b.regs.r12 EXCEPT !.pw_sdm = pw]
             c == R82!WriteReg(b, "r12", w)
             g == R82!WriteReg(c, "r16", sdm \div SdmBase)
             h == R82!WriteReg(g, "r15", sdm % SdmBase)
  <1>1. R82!SetDividers(d, f) = h
    BY DEF R82!SetDividers, Nint, Sdm
  <1>2. nint \in Nat /\ sdm \div SdmBase \in Nat /\ sdm % SdmBase \in Nat /\ pw \in BOOLEAN
    <2>1. pw \in BOOLEAN
      OBVIOUS
    <2> HIDE DEF pw
    <2> QED BY <2>1, VcoTypes
  <1> HIDE DEF nint, sdm, pw
  <1>3. u \in TypeOf("r10") /\ u = [refdiv2 |-> d.regs.r10.refdiv2, div_num |-> R82!DivNum(f)]
    <2>1. d.regs.r10 \in R10 /\ R82!DivNum(f) \in 0 .. 5
      BY TunerTypes, Composite, Divider
    <2> QED BY <2>1 DEF R10, TypeOf
  <1> HIDE DEF u
  <1>4. Changes(d, a, {}, {"r10"}) /\ (d.ok => a.regs.r10 = u)
    BY <1>3, WriteRegFacts DEF Registers
  <1>5. a \in Tuner
    BY <1>4 DEF Changes
  <1> HIDE DEF a
  <1>6. v \in TypeOf("r14") /\ 4 * v.ni + v.si + 13 = nint
    <2>1. nint - 13 \in Int /\ ni \in Int /\ nint - 4 * ni - 13 \in Int
      BY <1>2
    <2> HIDE DEF ni
    <2> QED BY <1>2, <2>1 DEF TypeOf, R14
  <1> HIDE DEF v
  <1>7. /\ Changes(a, b, {}, {"r14"})
        /\ b.ok => b.chip.r14 = v
    BY <1>5, <1>6, WriteRegFacts DEF Registers, R82!Whole
  <1>8. b \in Tuner /\ b.regs.r12 \in R12
    BY <1>7, TunerTypes, Composite DEF Changes
  <1> HIDE DEF b
  <1>9. w \in TypeOf("r12") /\ w.pw_sdm = pw
    <2>1. w \in TypeOf("r12")
      BY <1>2, <1>8 DEF R12, TypeOf
    <2>2. w.pw_sdm = pw
      BY <1>8 DEF R12
    <2> QED BY <2>1, <2>2
  <1> HIDE DEF w
  <1>10. Changes(b, c, {}, {"r12"}) /\ (b.ok => c.regs.r12 = w)
    BY <1>8, <1>9, WriteRegFacts DEF Registers
  <1>11. c \in Tuner
    BY <1>10 DEF Changes
  <1> HIDE DEF c
  <1>12. Changes(c, g, {}, {"r16"}) /\ (g.ok => g.chip.r16 = sdm \div SdmBase)
    BY <1>2, <1>11, WriteRegFacts DEF Registers, TypeOf, R82!Whole
  <1>13. g \in Tuner
    BY <1>12 DEF Changes
  <1> HIDE DEF g
  <1>14. Changes(g, h, {}, {"r15"}) /\ (h.ok => h.chip.r15 = sdm % SdmBase)
    BY <1>2, <1>13, WriteRegFacts DEF Registers, TypeOf, R82!Whole
  <1> HIDE DEF h
  <1>15. Changes(d, h, {}, {"r10", "r12", "r14", "r15", "r16"})
    <2>1. Changes(d, b, {}, {"r10", "r14"})
      BY <1>4, <1>7 DEF Changes
    <2>2. Changes(b, g, {}, {"r12", "r16"})
      BY <1>10, <1>12 DEF Changes
    <2>3. Changes(d, g, {}, {"r10", "r14", "r12", "r16"})
      BY <2>1, <2>2 DEF Changes
    <2> QED BY <1>14, <2>3 DEF Changes
  <1>16. ASSUME h.ok
         PROVE  h.regs.r10 = u /\ h.regs.r12 = w /\ h.chip.r14 = v /\ h.chip.r16 = g.chip.r16
    <2>1. g.ok /\ c.ok /\ b.ok /\ a.ok /\ d.ok
      BY <1>4, <1>7, <1>10, <1>12, <1>14, <1>16 DEF Changes
    <2>2. h.regs.r10 = u
      BY <1>4, <1>7, <1>10, <1>12, <1>14, <2>1 DEF Changes, Registers
    <2>3. h.regs.r12 = w
      BY <1>10, <1>12, <1>14, <2>1 DEF Changes, Registers
    <2>4. h.chip.r14 = v
      BY <1>7, <1>10, <1>12, <1>14, <2>1 DEF Changes, Registers
    <2>5. h.chip.r16 = g.chip.r16
      BY <1>14 DEF Changes, Registers
    <2> QED BY <2>2, <2>3, <2>4, <2>5
  <1>17. ASSUME h.ok PROVE g.ok
    BY <1>14, <1>17 DEF Changes
  <1>18. h.ok => /\ h.regs.r10 = [refdiv2 |-> d.regs.r10.refdiv2, div_num |-> R82!DivNum(f)]
                 /\ h.regs.r12.pw_sdm = pw
                 /\ 4 * h.chip.r14.ni + h.chip.r14.si + 13 = nint
                 /\ h.chip.r16 = sdm \div SdmBase
                 /\ h.chip.r15 = sdm % SdmBase
    BY <1>3, <1>6, <1>9, <1>12, <1>14, <1>16, <1>17
  <1> QED BY <1>1, <1>15, <1>18 DEF nint, sdm, pw

-----------------------------------------------------------------------------
(***************************************************************************)
(* The PLL: what did not change, the lock, the whole of r82xx_set_pll().   *)
(***************************************************************************)
\* What Changes leaves of the fields, one by one.
LEMMA Same ==
    ASSUME NEW d, NEW e, NEW fs, NEW rs, Changes(d, e, fs, rs)
    PROVE  /\ "input" \notin fs => e.input = d.input
           /\ "int_freq" \notin fs => e.int_freq = d.int_freq
           /\ "sideband" \notin fs => e.sideband = d.sideband
           /\ "freq" \notin fs => e.freq = d.freq
           /\ "ds" \notin fs => e.ds = d.ds
           /\ "half" \notin fs => e.half = d.half
           /\ "halfInit" \notin fs => e.halfInit = d.halfInit
           /\ "halfBw" \notin fs => e.halfBw = d.halfBw
           /\ "xtal" \notin fs => e.xtal = d.xtal
           /\ "r828d" \notin fs => e.r828d = d.r828d
  <1>1. \A f \in Fields \ Outcome : f \notin fs => e[f] = d[f]
    BY DEF Changes
  <1>2. /\ {"input", "int_freq", "sideband", "freq", "ds"} \subseteq Fields \ Outcome
        /\ {"half", "halfInit", "halfBw", "xtal", "r828d"} \subseteq Fields \ Outcome
    BY DEF Fields, Flags, Numbers, Files, Outcome
  <1> QED BY <1>1, <1>2

LEMMA LockFacts ==
    ASSUME NEW d \in Tuner
    PROVE  /\ Changes(d, R82!Lock(d), {}, {"r12", "r1a"})
           /\ R82!Lock(d).regs.r1a.mux = d.regs.r1a.mux
           /\ R82!Lock(d).regs.r12.pw_sdm = d.regs.r12.pw_sdm
  <1> DEFINE Stays(e) == /\ Changes(d, e, {}, {"r12", "r1a"})
                        /\ e.regs.r1a.mux = d.regs.r1a.mux
                        /\ e.regs.r12.pw_sdm = d.regs.r12.pw_sdm
             once == R82!Transfer(d)
             w == [once.regs.r12 EXCEPT !.more = TRUE]
             more == R82!WriteReg(once, "r12", w)
             twice == R82!Transfer(more)
             locked(e) == R82!WriteReg(e, "r1a", [e.regs.r1a EXCEPT !.slow = TRUE])
  <1>1. /\ d.lock = "once" => R82!Lock(d) = locked(once)
        /\ d.lock = "twice" => R82!Lock(d) = locked(twice)
        /\ d.lock = "never" => R82!Lock(d) = [twice EXCEPT !.ok = FALSE]
    BY DEF R82!Lock
  <1>2. d.lock \in {"once", "twice", "never"}
    BY TunerTypes
  <1>3. once \in Tuner /\ Changes(d, once, {}, {}) /\ once.regs = d.regs
    BY TransferFacts DEF Changes
  <1>4. Stays(once)
    BY <1>3, ChangesMore
  <1> HIDE DEF once
  <1>5. w \in TypeOf("r12") /\ w.pw_sdm = d.regs.r12.pw_sdm
    <2>1. once.regs.r12 \in R12 /\ once.regs.r12 = d.regs.r12
      BY <1>3, TunerTypes, Composite
    <2> QED BY <2>1, FieldOfR12
  <1> HIDE DEF w
  <1>6. Stays(more) /\ more \in Tuner
    <2>1. /\ Changes(once, more, {}, {"r12"})
          /\ once.ok => more.regs.r12 = w
          /\ ~once.ok => more = once
      BY <1>3, <1>5, WriteRegFacts DEF Registers
    <2> HIDE DEF more
    <2>2. Changes(d, more, {}, {"r12", "r1a"}) /\ more \in Tuner
      BY <1>3, <2>1 DEF Changes
    <2>3. more.regs.r1a = d.regs.r1a
      BY <1>3, <2>1 DEF Changes, Registers
    <2>4. more.regs.r12.pw_sdm = d.regs.r12.pw_sdm
      BY <1>3, <1>5, <2>1, FlagTypes
    <2> QED BY <2>2, <2>3, <2>4
  <1> HIDE DEF more
  <1>7. Stays(twice) /\ twice \in Tuner
    <2>1. Changes(more, twice, {}, {}) /\ twice.regs = more.regs
      BY <1>6, TransferFacts
    <2> HIDE DEF twice
    <2>2. Changes(d, twice, {}, {"r12", "r1a"}) /\ twice \in Tuner
      BY <1>6, <2>1 DEF Changes
    <2> QED BY <1>6, <2>1, <2>2
  <1> HIDE DEF twice
  <1>8. ASSUME NEW e \in Tuner, Stays(e)
        PROVE  Stays(locked(e))
    <2> DEFINE v == [e.regs.r1a EXCEPT !.slow = TRUE]
               h == R82!WriteReg(e, "r1a", v)
    <2>1. v \in TypeOf("r1a") /\ v.mux = e.regs.r1a.mux
      <3>1. e.regs.r1a \in R1a
        BY TunerTypes, Composite
      <3> QED BY <3>1 DEF R1a, TypeOf
    <2> HIDE DEF v
    <2>2. /\ Changes(e, h, {}, {"r1a"})
          /\ e.ok => h.regs.r1a = v
          /\ ~e.ok => h = e
      BY <2>1, WriteRegFacts DEF Registers
    <2> HIDE DEF h
    <2>3. Changes(d, h, {}, {"r12", "r1a"})
      BY <1>8, <2>2 DEF Changes
    <2>4. h.regs.r1a.mux = d.regs.r1a.mux
      BY <1>8, <2>1, <2>2, FlagTypes
    <2>5. h.regs.r12.pw_sdm = d.regs.r12.pw_sdm
      BY <1>8, <2>2 DEF Changes, Registers
    <2> QED BY <2>3, <2>4, <2>5 DEF h, v
  <1>9. Stays([twice EXCEPT !.ok = FALSE])
    <2> DEFINE h == [twice EXCEPT !.ok = FALSE]
    <2>1. Updated(twice, h, "ok", FALSE)
      BY <1>7, FlagUpdate DEF Flags
    <2> HIDE DEF h
    <2>2. h \in Tuner /\ h.ok = FALSE /\ h.regs = twice.regs /\ h.chip = twice.chip
      BY <2>1 DEF Updated, Fields, Files, Flags
    <2>3. Changes(twice, h, {}, {})
      BY <2>1, <2>2 DEF Changes, Updated, Outcome
    <2>4. Changes(d, h, {}, {"r12", "r1a"})
      BY <1>7, <2>3 DEF Changes
    <2> QED BY <1>7, <2>2, <2>4 DEF h
  <1>10. Stays(R82!Lock(d))
    <2>1. CASE d.lock = "once"
      BY <1>1, <1>3, <1>4, <1>8, <2>1
    <2>2. CASE d.lock = "twice"
      BY <1>1, <1>7, <1>8, <2>2
    <2>3. CASE d.lock = "never"
      BY <1>1, <1>9, <2>3
    <2> QED BY <1>2, <2>1, <2>2, <2>3
  <1> QED BY <1>10

PllRegs == {"r10", "r12", "r14", "r15", "r16", "r1a"}

LEMMA PllFacts ==
    ASSUME Consts, NEW d \in Tuner, NEW f \in Nat
    PROVE  /\ Changes(d, R82!SetPll(d, f), {}, PllRegs)
           /\ R82!SetPll(d, f).regs.r1a.mux = d.regs.r1a.mux
           /\ R82!SetPll(d, f).ok => PllOf(R82!SetPll(d, f), f)
  <1>1. CASE ~d.ok
    BY <1>1 DEF R82!SetPll, Changes
  <1>2. CASE d.ok /\ (f < 25000 \/ f > 1900000)
    <2> DEFINE h == [d EXCEPT !.ok = FALSE]
    <2>1. R82!SetPll(d, f) = h
      BY <1>2 DEF R82!SetPll
    <2>2. Updated(d, h, "ok", FALSE)
      <3>1. "ok" \in Flags /\ FALSE \in BOOLEAN
        BY DEF Flags
      <3> QED BY <3>1, FlagUpdate
    <2> HIDE DEF h
    <2>3. h \in Tuner /\ h.ok = FALSE /\ h.regs = d.regs /\ h.chip = d.chip
      BY <2>2 DEF Updated, Fields, Files, Flags
    <2>4. Changes(d, h, {}, PllRegs)
      BY <2>2, <2>3 DEF Changes, Updated, Outcome
    <2> QED BY <2>1, <2>3, <2>4
  <1>3. CASE d.ok /\ ~(f < 25000 \/ f > 1900000)
    <2> DEFINE a == R82!SetReference(d)
               b == R82!SetDividers(a, f)
               c == R82!Lock(b)
    <2>1. R82!SetPll(d, f) = c
      BY <1>3 DEF R82!SetPll
    <2>2. /\ Changes(d, a, {}, {"r10", "r1a", "r12"})
          /\ a.regs.r1a.mux = d.regs.r1a.mux
          /\ a.ok => a.regs.r10.refdiv2 = R82!RefDiv2(d.xtal)
      BY ReferenceFacts
    <2>3. a \in Tuner /\ a.xtal = d.xtal
      <3>1. a \in Tuner
        BY <2>2 DEF Changes
      <3>2. a.xtal = d.xtal
        BY <2>2, Same
      <3> QED BY <3>1, <3>2
    <2> HIDE DEF a
    <2>4. /\ Changes(a, b, {}, {"r10", "r12", "r14", "r15", "r16"})
          /\ b.ok =>
               /\ b.regs.r10 = [refdiv2 |-> a.regs.r10.refdiv2, div_num |-> R82!DivNum(f)]
               /\ b.regs.r12.pw_sdm = (Sdm(a, f) # 0)
               /\ 4 * b.chip.r14.ni + b.chip.r14.si + 13 = Nint(a, f)
               /\ b.chip.r16 = Sdm(a, f) \div SdmBase
               /\ b.chip.r15 = Sdm(a, f) % SdmBase
      BY <2>3, DividersFacts
    <2>5. b \in Tuner
      BY <2>4 DEF Changes
    <2> HIDE DEF b
    <2>6. /\ Changes(b, c, {}, {"r12", "r1a"})
          /\ c.regs.r1a.mux = b.regs.r1a.mux
          /\ c.regs.r12.pw_sdm = b.regs.r12.pw_sdm
      BY <2>5, LockFacts
    <2> HIDE DEF c
    <2>7. Changes(d, c, {}, PllRegs)
      <3>1. Changes(d, b, {}, PllRegs)
        BY <2>2, <2>4 DEF Changes, PllRegs
      <3> QED BY <2>6, <3>1 DEF Changes, PllRegs
    <2>8. c.regs.r1a.mux = d.regs.r1a.mux
      <3>1. b.regs.r1a = a.regs.r1a
        BY <2>4 DEF Changes, Registers
      <3> QED BY <2>2, <2>6, <3>1
    <2>9. ASSUME c.ok PROVE PllOf(c, f)
      <3>1. b.ok /\ a.ok
        BY <2>4, <2>6, <2>9 DEF Changes
      <3>2. c.xtal = d.xtal
        BY <2>7, Same
      <3>3. Sdm(a, f) = Sdm(c, f) /\ Nint(a, f) = Nint(c, f)
        BY <2>3, <3>2 DEF Sdm, Nint
      <3>4. c.regs.r10 = b.regs.r10 /\ c.chip.r14 = b.chip.r14 /\ c.chip.r15 = b.chip.r15 /\ c.chip.r16 = b.chip.r16
        BY <2>6 DEF Changes, Registers
      <3>5. c.regs.r10 = [refdiv2 |-> R82!RefDiv2(c.xtal), div_num |-> R82!DivNum(f)]
        BY <2>2, <2>4, <3>1, <3>2, <3>4
      <3>6. c.regs.r12.pw_sdm = (Sdm(c, f) # 0)
        BY <2>4, <2>6, <3>1, <3>3
      <3>7. /\ 4 * c.chip.r14.ni + c.chip.r14.si + 13 = Nint(c, f)
            /\ c.chip.r16 = Sdm(c, f) \div SdmBase
            /\ c.chip.r15 = Sdm(c, f) % SdmBase
        BY <2>4, <3>1, <3>3, <3>4
      <3>8. f \in Nat /\ 25000 <= f /\ f <= 1900000
        BY <1>3
      <3> QED BY <3>5, <3>6, <3>7, <3>8 DEF PllOf
    <2> QED BY <2>1, <2>7, <2>8, <2>9
  <1> QED BY <1>1, <1>2, <1>3

-----------------------------------------------------------------------------
(***************************************************************************)
(* Tuning and the bandwidth.                                               *)
(***************************************************************************)
LEMMA SelectFacts ==
    ASSUME NEW d \in Tuner, NEW f \in Int
    PROVE  /\ Changes(d, R82!SelectInput(d, f), {"input"}, {"r05"})
           /\ d.regs.r05 = d.input => R82!SelectInput(d, f).regs.r05 = R82!SelectInput(d, f).input
           /\ R82!SelectInput(d, f).ok /\ R82!SelectInput(d, f).r828d => R82!SelectInput(d, f).input = InputFor(f)
  <1> DEFINE x == InputFor(f)
             m == [d EXCEPT !.input = x]
             e == R82!WriteReg(m, "r05", x)
  <1>1. CASE ~(d.r828d /\ d.ok /\ x # d.input)
    <2>1. R82!SelectInput(d, f) = d
      BY <1>1 DEF R82!SelectInput, InputFor
    <2> QED BY <1>1, <2>1 DEF Changes
  <1>2. CASE d.r828d /\ d.ok /\ x # d.input
    <2>1. R82!SelectInput(d, f) = e
      BY <1>2 DEF R82!SelectInput, InputFor
    <2>2. x \in Int
      BY DEF InputFor
    <2> HIDE DEF x
    <2>3. Updated(d, m, "input", x)
      BY <2>2, NumberUpdate DEF Numbers
    <2> HIDE DEF m
    <2>4. m \in Tuner /\ m.input = x /\ m.ok = d.ok /\ m.regs = d.regs /\ m.chip = d.chip
      BY <2>3 DEF Updated, Fields, Files, Flags, Numbers
    <2>5. Changes(d, m, {"input"}, {})
      BY <2>3, <2>4 DEF Changes, Updated, Outcome
    <2>6. Changes(m, e, {}, {"r05"}) /\ (m.ok => e.regs.r05 = x)
      BY <2>2, <2>4, WriteRegFacts DEF Registers, TypeOf
    <2> HIDE DEF e
    <2>7. Changes(d, e, {"input"}, {"r05"})
      BY <2>5, <2>6 DEF Changes
    <2>8. e.input = x
      BY <2>4, <2>6, Same
    <2>9. e.regs.r05 = x
      BY <1>2, <2>4, <2>6
    <2> QED BY <2>1, <2>7, <2>8, <2>9 DEF x
  <1> QED BY <1>1, <1>2

LEMMA LoTypes ==
    ASSUME Consts, NEW d \in Tuner, NEW f \in Nat
    PROVE  R82!LoFor(d, f) \in Nat /\ R82!LoFor(d, f) < Width
  <1>1. d.int_freq \in Nat /\ Width \in Nat /\ Width > 0
    BY TunerTypes, IfRange DEF Consts
  <1>2. \A n \in Int : n % Width \in Nat /\ n % Width < Width
    BY <1>1
  <1>3. f - d.int_freq \in Int /\ f + d.int_freq \in Int
    BY <1>1
  <1> QED BY <1>2, <1>3 DEF R82!LoFor

TuneRegs == PllRegs \cup {"r05", "r17", "r1b"}

LEMMA TuneTunerFacts ==
    ASSUME Consts, NEW d \in Tuner, NEW f \in Nat
    PROVE  LET e == R82!SetTunerFreq(d, f) IN
           /\ Changes(d, e, {"input"}, TuneRegs)
           /\ d.regs.r05 = d.input => e.regs.r05 = e.input
           /\ e.ok => /\ PathOf(e, f)
                      /\ PllOf(e, R82!LoFor(e, f))
                      /\ e.r828d => e.input = InputFor(f)
  <1> DEFINE lo == R82!LoFor(d, f)
             a == R82!SetMux(d, f)
             b == R82!SelectInput(a, f)
             e == R82!SetPll(b, lo)
  <1>1. R82!SetTunerFreq(d, f) = e
    BY DEF R82!SetTunerFreq
  <1>2. lo \in Nat
    BY LoTypes
  <1>3. Changes(d, a, {}, {"r17", "r1a", "r1b"}) /\ (a.ok => PathOf(a, f))
    BY MuxFacts
  <1>4. a \in Tuner
    BY <1>3 DEF Changes
  <1> HIDE DEF a
  <1>5. /\ Changes(a, b, {"input"}, {"r05"})
        /\ a.regs.r05 = a.input => b.regs.r05 = b.input
        /\ b.ok /\ b.r828d => b.input = InputFor(f)
    BY <1>4, SelectFacts
  <1>6. b \in Tuner
    BY <1>5 DEF Changes
  <1> HIDE DEF b, lo
  <1>7. /\ Changes(b, e, {}, PllRegs)
        /\ e.regs.r1a.mux = b.regs.r1a.mux
        /\ e.ok => PllOf(e, lo)
    BY <1>2, <1>6, PllFacts
  <1> HIDE DEF e
  <1>8. Changes(d, e, {"input"}, TuneRegs)
    <2>1. Changes(d, b, {"input"}, {"r17", "r1a", "r1b", "r05"})
      BY <1>3, <1>5 DEF Changes
    <2> QED BY <1>7, <2>1 DEF Changes, TuneRegs, PllRegs
  <1>9. ASSUME d.regs.r05 = d.input PROVE e.regs.r05 = e.input
    <2>1. a.regs.r05 = d.regs.r05 /\ a.input = d.input
      <3>1. a.regs.r05 = d.regs.r05
        BY <1>3 DEF Changes, Registers
      <3>2. a.input = d.input
        BY <1>3, Same
      <3> QED BY <3>1, <3>2
    <2>2. e.regs.r05 = b.regs.r05 /\ e.input = b.input
      <3>1. e.regs.r05 = b.regs.r05
        BY <1>7 DEF Changes, Registers, PllRegs
      <3>2. e.input = b.input
        BY <1>7, Same
      <3> QED BY <3>1, <3>2
    <2> QED BY <1>5, <1>9, <2>1, <2>2
  <1>10. ASSUME e.ok
         PROVE  PathOf(e, f) /\ PllOf(e, R82!LoFor(e, f)) /\ (e.r828d => e.input = InputFor(f))
    <2>1. b.ok /\ a.ok
      BY <1>5, <1>7, <1>10 DEF Changes
    <2>2. PathOf(e, f)
      <3>1. /\ b.chip.r1b = a.chip.r1b /\ e.chip.r1b = b.chip.r1b
            /\ b.regs.r17 = a.regs.r17 /\ e.regs.r17 = b.regs.r17
            /\ b.regs.r1a = a.regs.r1a
        BY <1>5, <1>7 DEF Changes, Registers, PllRegs
      <3> QED BY <1>3, <1>7, <2>1, <3>1 DEF PathOf
    <2>3. R82!LoFor(e, f) = lo
      <3>1. e.sideband = d.sideband /\ e.int_freq = d.int_freq
        BY <1>8, Same
      <3> QED BY <3>1 DEF R82!LoFor, lo
    <2>4. e.r828d = b.r828d /\ e.input = b.input
      BY <1>7, Same
    <2> QED BY <1>5, <1>7, <1>10, <2>1, <2>2, <2>3, <2>4
  <1> QED BY <1>1, <1>8, <1>9, <1>10

LEMMA BandwidthFacts ==
    ASSUME NEW d \in Tuner, NEW bw \in Int
    PROVE  /\ Changes(d, R82!SetBandwidth(d, bw), {"int_freq"}, {"r0a", "r0b"})
           /\ R82!SetBandwidth(d, bw).ok => Row(R82!SetBandwidth(d, bw))
  <1>1. CASE ~d.ok
    BY <1>1 DEF R82!SetBandwidth, Changes
  <1>2. CASE d.ok
    <2> DEFINE row == R82!RowOf(bw)
               m == [d EXCEPT !.int_freq = row[4]]
               a == R82!WriteReg(m, "r0a", row[2])
               e == R82!WriteReg(a, "r0b", row[3])
    <2>1. R82!SetBandwidth(d, bw) = e
      BY <1>2 DEF R82!SetBandwidth
    <2>2. PICK i \in 1 .. 12 : row = R82!r82xx_bws[i]
      BY RowTypes
    <2> HIDE DEF row
    <2>3. row[2] \in Int /\ row[3] \in Int /\ row[4] \in Ifs /\ Tail(row) = <<row[2], row[3], row[4]>>
      <3>1. R82!r82xx_bws[i][4] \in Ifs
        BY IfOfRow
      <3>2. /\ R82!r82xx_bws[i][2] \in Nat /\ R82!r82xx_bws[i][3] \in Nat
            /\ Tail(R82!r82xx_bws[i]) = <<R82!r82xx_bws[i][2], R82!r82xx_bws[i][3], R82!r82xx_bws[i][4]>>
        BY Tables, RowShape
      <3> QED BY <2>2, <3>1, <3>2
    <2>4. Updated(d, m, "int_freq", row[4])
      BY <2>3, IfUpdate
    <2> HIDE DEF m
    <2>5. m \in Tuner /\ m.int_freq = row[4] /\ m.ok = d.ok /\ m.regs = d.regs /\ m.chip = d.chip
      BY <2>4 DEF Updated, Fields, Files, Flags, Numbers
    <2>6. Changes(d, m, {"int_freq"}, {})
      BY <2>4, <2>5 DEF Changes, Updated, Outcome
    <2>7. Changes(m, a, {}, {"r0a"}) /\ (m.ok => a.regs.r0a = row[2])
      BY <2>3, <2>5, WriteRegFacts DEF Registers, TypeOf
    <2>8. a \in Tuner
      BY <2>7 DEF Changes
    <2> HIDE DEF a
    <2>9. Changes(a, e, {}, {"r0b"}) /\ (a.ok => e.regs.r0b = row[3])
      BY <2>3, <2>8, WriteRegFacts DEF Registers, TypeOf
    <2> HIDE DEF e
    <2>10. Changes(d, e, {"int_freq"}, {"r0a", "r0b"})
      BY <2>6, <2>7, <2>9 DEF Changes
    <2>11. ASSUME e.ok PROVE Row(e)
      <3>1. a.ok /\ m.ok
        BY <2>7, <2>9, <2>11 DEF Changes
      <3>2. e.regs.r0a = row[2]
        BY <2>7, <2>9, <3>1 DEF Changes, Registers
      <3>3. e.regs.r0b = row[3]
        BY <2>9, <3>1
      <3>4. a.int_freq = m.int_freq /\ e.int_freq = a.int_freq
        BY <2>7, <2>9, Same
      <3>5. Tail(R82!r82xx_bws[i]) = <<e.regs.r0a, e.regs.r0b, e.int_freq>>
        BY <2>2, <2>3, <2>5, <3>2, <3>3, <3>4
      <3> QED BY <3>5, Tables DEF Row
    <2> QED BY <2>1, <2>10, <2>11
  <1> QED BY <1>1, <1>2

-----------------------------------------------------------------------------
(***************************************************************************)
(* Calibration and initialisation write every register.                    *)
(***************************************************************************)
LEMMA ArrayFacts ==
    ASSUME NEW d \in Tuner, NEW array \in RegFile
    PROVE  /\ Changes(d, R82!WriteArray(d, array), {}, Registers)
           /\ d.ok => R82!WriteArray(d, array).regs = array
           /\ ~d.ok => R82!WriteArray(d, array) = d
  <1>1. CASE ~d.ok
    BY <1>1 DEF R82!WriteArray, Changes
  <1>2. CASE d.ok
    <2> DEFINE chip == IF R82!Arrives(d) THEN array ELSE d.chip
               a == [d EXCEPT !.regs = array]
               m == [a EXCEPT !.chip = chip]
    <2>1. chip \in RegFile
      BY TunerTypes
    <2>2. R82!WriteArray(d, array) = R82!Count(m)
      BY <1>2 DEF R82!WriteArray
    <2> HIDE DEF chip
    <2>3. a \in Tuner /\ a.regs = array /\ \A f \in Fields \ {"regs"} : a[f] = d[f]
      <3>1. "regs" \in Files
        BY DEF Files
      <3>2. Updated(d, a, "regs", array)
        BY <3>1, FileUpdate
      <3> QED BY <3>2 DEF Updated
    <2> HIDE DEF a
    <2>4. m \in Tuner /\ m.chip = chip /\ \A f \in Fields \ {"chip"} : m[f] = a[f]
      <3>1. "chip" \in Files
        BY DEF Files
      <3>2. Updated(a, m, "chip", chip)
        BY <2>1, <2>3, <3>1, FileUpdate
      <3> QED BY <3>2 DEF Updated
    <2> HIDE DEF m
    <2>5. m.regs = array /\ \A f \in Fields \ {"regs", "chip"} : m[f] = d[f]
      BY <2>3, <2>4 DEF Fields, Files
    <2>6. Changes(m, R82!Count(m), {}, {}) /\ R82!Count(m).regs = array
      BY <2>4, <2>5, CountFacts
    <2>7. Changes(d, R82!Count(m), {}, Registers)
      BY <1>2, <2>4, <2>5, <2>6 DEF Changes, Outcome
    <2> QED BY <1>2, <2>2, <2>6, <2>7
  <1> QED BY <1>1, <1>2

LEMMA Arrays ==
    ASSUME Consts
    PROVE  /\ R82!init_array \in RegFile /\ R82!calib_array \in RegFile
           /\ R82!init_array.r05 = 0 /\ R82!init_array.r07 = 0 /\ R82!calib_array.r07 = 0
           /\ R82!init_array.r0a = \h0b /\ R82!init_array.r0b = \h6b
  <1>1. /\ SdmBase \in Nat /\ (3 * SdmBase) \div 4 \in Int
        /\ (11 * SdmBase) \div 16 \in Int /\ (5 * SdmBase) \div 256 \in Int
    BY DEF Consts
  <1>2. R82!init_array \in RegFile
    BY <1>1 DEF R82!init_array, RegFile, R10, R12, R14, R1a
  <1>4. R82!calib_array \in RegFile
    BY <1>1 DEF R82!calib_array, RegFile, R10, R12, R14, R1a
  <1>5. R82!calib_array.r07 = 0
    BY DEF R82!calib_array
  <1>6. /\ R82!init_array.r05 = 0 /\ R82!init_array.r07 = 0
        /\ R82!init_array.r0a = \h0b /\ R82!init_array.r0b = \h6b
    BY DEF R82!init_array
  <1> QED BY <1>2, <1>4, <1>5, <1>6

LEMMA RingTypes ==
    ASSUME Consts, NEW xtal \in TunerXtals
    PROVE  R82!RingFreq(xtal) \in Int
  <1> DEFINE S == {n \in 0 .. 15 : n < 15 => (16 + n) * 8 * R82!PllRef(xtal) >= 3100000}
             m == R82!Min(S)
  <1>1. m \in 0 .. 15
    <2>1. S \subseteq 0 .. 15 /\ 15 \in S
      OBVIOUS
    <2> HIDE DEF S
    <2>2. S \in SUBSET Nat /\ S # {}
      BY <2>1
    <2> QED BY <2>1, <2>2, LeastFacts
  <1>2. R82!RingFreq(xtal) = ((16 + m) * 8 * R82!PllRef(xtal)) \div 32
    BY DEF R82!RingFreq
  <1> HIDE DEF m
  <1>3. (16 + m) * 8 * R82!PllRef(xtal) \in Int
    BY <1>1, Reference
  <1>4. \A n \in Int : n \div 32 \in Int
    OBVIOUS
  <1> QED BY <1>2, <1>3, <1>4

\* R7 is cleared or left.
Clears(d, e) == e.regs.r07 = 0 \/ e.regs.r07 = d.regs.r07

LEMMA CalibrateFacts ==
    ASSUME Consts, NEW d \in Tuner
    PROVE  Changes(d, R82!Calibrate(d), {"int_freq", "input"}, Registers) /\ Clears(d, R82!Calibrate(d))
  <1> DEFINE a == R82!WriteArray(d, R82!calib_array)
             b == R82!SetBandwidth(a, 400)
             f == (R82!RingFreq(d.xtal) - 2 * b.int_freq) % Width
             c == R82!SetTunerFreq(b, f)
             e == R82!Transfer(c)
  <1>1. R82!Calibrate(d) = e
    BY DEF R82!Calibrate
  <1>2. /\ Changes(d, a, {}, Registers)
        /\ d.ok => a.regs = R82!calib_array
        /\ ~d.ok => a = d
    BY Arrays, ArrayFacts
  <1>3. a \in Tuner /\ Clears(d, a)
    BY <1>2, Arrays, FlagTypes DEF Changes, Clears
  <1> HIDE DEF a
  <1>4. Changes(a, b, {"int_freq"}, {"r0a", "r0b"})
    BY <1>3, BandwidthFacts
  <1>5. b \in Tuner
    BY <1>4 DEF Changes
  <1> HIDE DEF b
  <1>6. f \in Nat
    <2>1. R82!RingFreq(d.xtal) - 2 * b.int_freq \in Int
      BY <1>5, RingTypes, TunerTypes, IfRange
    <2>2. \A n \in Int : n % Width \in Nat
      BY DEF Consts
    <2> QED BY <2>1, <2>2
  <1> HIDE DEF f
  <1>7. Changes(b, c, {"input"}, TuneRegs)
    BY <1>5, <1>6, TuneTunerFacts
  <1>8. c \in Tuner
    BY <1>7 DEF Changes
  <1> HIDE DEF c
  <1>9. Changes(c, e, {}, {}) /\ e.regs = c.regs
    BY <1>8, TransferFacts
  <1> HIDE DEF e
  <1>10. Changes(d, e, {"int_freq", "input"}, Registers)
    <2>1. Changes(d, b, {"int_freq"}, Registers)
      BY <1>2, <1>4 DEF Changes
    <2>2. Changes(b, e, {"input"}, Registers)
      BY <1>7, <1>9 DEF Changes
    <2> QED BY <2>1, <2>2 DEF Changes
  <1>11. e.regs.r07 = a.regs.r07
    <2>1. b.regs.r07 = a.regs.r07
      BY <1>4 DEF Changes, Registers
    <2>2. c.regs.r07 = b.regs.r07
      BY <1>7 DEF Changes, Registers, TuneRegs, PllRegs
    <2> QED BY <1>9, <2>1, <2>2
  <1> QED BY <1>1, <1>3, <1>10, <1>11 DEF Clears

LEMMA InitFacts ==
    ASSUME Consts, NEW d \in Tuner
    PROVE  LET e == R82!TunerInit(d) IN
           /\ Changes(d, e, {"int_freq", "input", "halfInit", "halfBw"}, Registers)
           /\ Clears(d, e)
           /\ ~e.halfInit => e.regs = R82!init_array /\ e.int_freq = 3570 /\ e.input = 0
  <1> DEFINE fs == {"int_freq", "input"}
             c == IF CalImr THEN R82!Calibrate(d) ELSE d
             w == R82!WriteArray(c, R82!init_array)
             m == [w EXCEPT !.int_freq = 3570]
             n == [m EXCEPT !.input = 0]
             i == IF w.ok THEN R82!Transfer(n) ELSE w
             h == [i EXCEPT !.halfInit = ~i.ok]
             bw == i.halfBw /\ ~i.ok
             e == [h EXCEPT !.halfBw = bw]
  <1>1. Changes(d, c, fs, Registers) /\ Clears(d, c) /\ c \in Tuner
    <2>1. Changes(d, d, fs, Registers) /\ Clears(d, d)
      BY DEF Changes, Clears
    <2>2. Changes(d, c, fs, Registers) /\ Clears(d, c)
      BY <2>1, CalibrateFacts
    <2> QED BY <2>2 DEF Changes
  <1> HIDE DEF c
  <1>2. /\ Changes(c, w, {}, Registers)
        /\ c.ok => w.regs = R82!init_array
        /\ ~c.ok => w = c
    BY <1>1, Arrays, ArrayFacts
  <1> HIDE DEF w
  <1>3. w \in Tuner /\ Clears(c, w) /\ (w.ok => w.regs = R82!init_array) /\ Changes(d, w, fs, Registers)
    <2>1. w \in Tuner /\ (w.ok => c.ok)
      BY <1>2 DEF Changes
    <2>2. Clears(c, w)
      BY <1>1, <1>2, Arrays, FlagTypes DEF Clears
    <2>3. Changes(d, w, fs, Registers)
      BY <1>1, <1>2 DEF Changes
    <2> QED BY <1>2, <2>1, <2>2, <2>3
  <1>4. Clears(d, w)
    BY <1>1, <1>3 DEF Clears
  <1>5. /\ n \in Tuner /\ n.int_freq = 3570 /\ n.input = 0 /\ n.regs = w.regs /\ n.ok = w.ok
        /\ Changes(w, n, fs, {})
    <2>1. 3570 \in Ifs /\ 0 \in Int
      BY IfRange
    <2>2. Updated(w, m, "int_freq", 3570)
      BY <1>3, <2>1, IfUpdate
    <2> HIDE DEF m
    <2>3. Updated(m, n, "input", 0)
      <3>1. m \in Tuner
        BY <2>2 DEF Updated
      <3> QED BY <2>1, <3>1, NumberUpdate DEF Numbers
    <2> HIDE DEF n
    <2>4. n \in Tuner /\ n.input = 0 /\ \A g \in Fields \ fs : n[g] = w[g]
      BY <2>2, <2>3 DEF Updated
    <2>5. n.int_freq = 3570
      BY <2>2, <2>3 DEF Updated, Fields
    <2>6. n.regs = w.regs /\ n.chip = w.chip /\ n.ok = w.ok
      BY <2>4 DEF Fields, Files, Flags
    <2> QED BY <2>4, <2>5, <2>6 DEF Changes
  <1>6. R82!Initialised(w) = n
    BY DEF R82!Initialised, R82!Default_IF
  <1> HIDE DEF m, n
  <1>7. i \in Tuner /\ Changes(d, i, fs, Registers) /\ Clears(d, i)
    <2>1. CASE w.ok
      <3>1. i = R82!Transfer(n)
        BY <2>1
      <3> HIDE DEF i
      <3>2. i \in Tuner /\ Changes(n, i, {}, {}) /\ i.regs = w.regs
        BY <1>5, <3>1, TransferFacts DEF Changes
      <3>3. Changes(d, i, fs, Registers)
        BY <1>3, <1>5, <3>2 DEF Changes
      <3> QED BY <1>4, <3>2, <3>3 DEF Clears
    <2>2. CASE ~w.ok
      BY <1>3, <1>4, <2>2
    <2> QED BY <2>1, <2>2
  <1>8. ASSUME i.ok PROVE i.regs = R82!init_array /\ i.int_freq = 3570 /\ i.input = 0
    <2>1. w.ok
      BY <1>8
    <2>2. i = R82!Transfer(n)
      BY <2>1
    <2> HIDE DEF i
    <2>3. Changes(n, i, {}, {}) /\ i.regs = n.regs
      BY <1>5, <2>2, TransferFacts
    <2>4. i.int_freq = n.int_freq /\ i.input = n.input
      BY <2>3, Same
    <2> QED BY <1>3, <1>5, <2>1, <2>3, <2>4
  <1>9. R82!TunerInit(d) = e
    <2>1. R82!TunerInit(d) = [i EXCEPT !.halfInit = ~i.ok, !.halfBw = @ /\ ~i.ok]
      BY <1>6 DEF R82!TunerInit, c, w
    <2> HIDE DEF i
    <2> QED BY <2>1
  <1> HIDE DEF i
  <1>10. (~i.ok) \in BOOLEAN /\ bw \in BOOLEAN
    OBVIOUS
  <1> HIDE DEF bw
  <1>11. Updated(i, h, "halfInit", ~i.ok)
    BY <1>7, <1>10, FlagUpdate DEF Flags
  <1> HIDE DEF h
  <1>12. Updated(h, e, "halfBw", bw)
    <2>1. h \in Tuner
      BY <1>11 DEF Updated
    <2> QED BY <1>10, <2>1, FlagUpdate DEF Flags
  <1> HIDE DEF e
  <1>13. /\ e \in Tuner /\ \A g \in Fields \ {"halfInit", "halfBw"} : e[g] = i[g]
    BY <1>11, <1>12 DEF Updated
  <1>14. e.halfInit = ~i.ok
    BY <1>11, <1>12 DEF Updated, Fields, Flags
  <1>15. /\ e.regs = i.regs /\ e.chip = i.chip /\ e.ok = i.ok
         /\ e.int_freq = i.int_freq /\ e.input = i.input
    BY <1>13 DEF Fields, Flags, Files, Numbers
  <1>16. Changes(d, e, {"int_freq", "input", "halfInit", "halfBw"}, Registers)
    BY <1>7, <1>13, <1>15 DEF Changes
  <1>17. Clears(d, e)
    BY <1>7, <1>15 DEF Clears
  <1>18. ~e.halfInit => e.regs = R82!init_array /\ e.int_freq = 3570 /\ e.input = 0
    <2>1. ~e.halfInit => i.ok
      BY <1>14
    <2> QED BY <1>8, <1>15, <2>1
  <1> QED BY <1>9, <1>16, <1>17, <1>18

-----------------------------------------------------------------------------
(***************************************************************************)
(* Standby, the demodulator's registers, and what the invariant depends on.*)
(***************************************************************************)
LEMMA StandbyFacts ==
    ASSUME NEW d \in Tuner
    PROVE  Changes(d, R82!Standby(d), {}, {"r05", "r07", "r0a", "r17"}) /\ Clears(d, R82!Standby(d))
  <1> DEFINE a == R82!Write(d, "r05", \h20)
             b == R82!Write(a, "r07", 0)
             c == R82!Write(b, "r0a", 6)
             e == R82!Write(c, "r17", 0)
  <1>1. R82!Standby(d) = e
    BY DEF R82!Standby
  <1>2. Changes(d, a, {}, {"r05"})
    BY WriteFacts DEF Registers, TypeOf
  <1>3. a \in Tuner
    BY <1>2 DEF Changes
  <1> HIDE DEF a
  <1>4. Changes(a, b, {}, {"r07"}) /\ (a.ok => b.regs.r07 = 0) /\ (~a.ok => b = a)
    BY <1>3, WriteFacts DEF Registers, TypeOf
  <1>5. b \in Tuner
    BY <1>4 DEF Changes
  <1> HIDE DEF b
  <1>6. Changes(b, c, {}, {"r0a"})
    BY <1>5, WriteFacts DEF Registers, TypeOf
  <1>7. c \in Tuner
    BY <1>6 DEF Changes
  <1> HIDE DEF c
  <1>8. Changes(c, e, {}, {"r17"})
    BY <1>7, WriteFacts DEF Registers, TypeOf
  <1> HIDE DEF e
  <1>9. Changes(d, e, {}, {"r05", "r07", "r0a", "r17"})
    <2>1. Changes(d, b, {}, {"r05", "r07"})
      BY <1>2, <1>4 DEF Changes
    <2>2. Changes(b, e, {}, {"r0a", "r17"})
      BY <1>6, <1>8 DEF Changes
    <2> QED BY <2>1, <2>2 DEF Changes
  <1>10. Clears(d, e)
    <2>1. a.regs.r07 = d.regs.r07
      BY <1>2 DEF Changes, Registers
    <2>2. e.regs.r07 = b.regs.r07
      BY <1>6, <1>8 DEF Changes, Registers
    <2> QED BY <1>3, <1>4, <2>1, <2>2, FlagTypes DEF Clears
  <1> QED BY <1>1, <1>9, <1>10

LEMMA DemodFacts ==
    ASSUME NEW d \in Tuner, NEW inversion \in BOOLEAN
    PROVE  Changes(d, R82!Demod(d, inversion), {"inversion"}, {})
  <1> DEFINE c == R82!Count(d)
             v == IF R82!Arrives(d) THEN inversion ELSE c.inversion
             e == [c EXCEPT !.inversion = v]
  <1>1. R82!Demod(d, inversion) = e
    BY DEF R82!Demod
  <1>2. Changes(d, c, {}, {}) /\ c \in Tuner
    BY CountFacts DEF Changes
  <1> HIDE DEF c
  <1>3. v \in BOOLEAN
    BY <1>2, FlagTypes
  <1> HIDE DEF v
  <1>4. Updated(c, e, "inversion", v)
    BY <1>2, <1>3, FlagUpdate DEF Flags
  <1> HIDE DEF e
  <1>5. e \in Tuner /\ e.regs = c.regs /\ e.chip = c.chip /\ e.ok = c.ok
    BY <1>4 DEF Updated, Fields, Files, Flags
  <1>6. Changes(c, e, {"inversion"}, {})
    BY <1>4, <1>5 DEF Changes, Updated
  <1>7. Changes(d, e, {"inversion"}, {})
    BY <1>2, <1>6 DEF Changes
  <1> QED BY <1>1, <1>7

LEMMA IfFacts ==
    ASSUME NEW d \in Tuner, NEW f \in Int
    PROVE  Changes(d, R82!SetIf(d, f), {"if_freq"}, {})
  <1> DEFINE c == R82!Count(d)
             v == IF R82!Arrives(d) \/ f = c.if_freq THEN f ELSE R82!Torn
             e == [c EXCEPT !.if_freq = v]
  <1>1. R82!SetIf(d, f) = e
    BY DEF R82!SetIf
  <1>2. Changes(d, c, {}, {}) /\ c \in Tuner
    BY CountFacts DEF Changes
  <1> HIDE DEF c
  <1>3. v \in Int
    BY DEF R82!Torn
  <1> HIDE DEF v
  <1>4. Updated(c, e, "if_freq", v)
    BY <1>2, <1>3, NumberUpdate DEF Numbers
  <1> HIDE DEF e
  <1>5. e \in Tuner /\ e.regs = c.regs /\ e.chip = c.chip /\ e.ok = c.ok
    BY <1>4 DEF Updated, Fields, Files, Flags, Numbers
  <1>6. Changes(c, e, {"if_freq"}, {})
    BY <1>4, <1>5 DEF Changes, Updated
  <1>7. Changes(d, e, {"if_freq"}, {})
    BY <1>2, <1>6 DEF Changes
  <1> QED BY <1>1, <1>7

\* Frames: what the parts of the invariant depend on.
SameView(d, e) ==
    /\ e.ds = d.ds /\ e.halfInit = d.halfInit /\ e.sideband = d.sideband
    /\ e.int_freq = d.int_freq /\ e.input = d.input /\ e.xtal = d.xtal /\ e.r828d = d.r828d
    /\ e.regs = d.regs /\ e.chip = d.chip

LEMMA ShadowFrame ==
    ASSUME NEW d, NEW e, Shadowed(d),
           e.ds = d.ds, e.halfInit = d.halfInit, e.sideband = d.sideband,
           ~e.halfBw => ~d.halfBw, e.int_freq = d.int_freq,
           e.regs.r07 = d.regs.r07, e.regs.r0a = d.regs.r0a, e.regs.r0b = d.regs.r0b,
           d.regs.r05 = d.input => e.regs.r05 = e.input
    PROVE  Shadowed(e)
  BY DEF Shadowed, Row

LEMMA ViewFrame ==
    ASSUME NEW d, NEW e, SameView(d, e), NEW f, NEW lo
    PROVE  /\ PathOf(d, f) => PathOf(e, f)
           /\ PllOf(d, lo) => PllOf(e, lo)
           /\ R82!LoFor(e, f) = R82!LoFor(d, f)
  BY DEF SameView, PathOf, PllOf, R82!LoFor, Sdm, Nint

Holds(d) == d \in Tuner /\ Shadowed(d) /\ Programmed(d)

LEMMA CenterFreqHolds ==
    ASSUME Consts, NEW d \in Tuner, Shadowed(d), NEW f \in TunerFreqs \cup {0}
    PROVE  Holds(R82!SetCenterFreq(d, f))
  <1> DEFINE n == R82!Anew(d)
             t == IF d.ds THEN R82!SetIf(n, f) ELSE R82!SetTunerFreq(n, f)
             v == IF t.ok THEN f ELSE 0
             r == [t EXCEPT !.freq = v]
             s == [r EXCEPT !.half = FALSE]
  <1>1. R82!SetCenterFreq(d, f) = s
    BY DEF R82!SetCenterFreq
  <1>2. f \in Nat /\ f \in Int
    BY FreqRange
  <1>3. n \in Tuner /\ \A g \in Fields \ {"ok"} : n[g] = d[g]
    <2>1. "ok" \in Flags /\ TRUE \in BOOLEAN
      BY DEF Flags
    <2>2. Updated(d, n, "ok", TRUE)
      BY <2>1, FlagUpdate DEF R82!Anew
    <2> QED BY <2>2 DEF Updated
  <1>4. SameView(d, n) /\ n.halfBw = d.halfBw
    BY <1>3 DEF SameView, Fields, Flags, Numbers, Files
  <1>5. Shadowed(n)
    BY <1>4, ShadowFrame DEF SameView
  <1> HIDE DEF n
  <1>6. /\ t \in Tuner /\ Shadowed(t) /\ t.ds = d.ds
        /\ t.ok /\ ~d.ds => /\ PathOf(t, f) /\ PllOf(t, R82!LoFor(t, f))
                            /\ t.r828d => t.input = InputFor(f)
    <2>1. CASE d.ds
      <3>1. Changes(n, t, {"if_freq"}, {})
        BY <1>2, <1>3, <2>1, IfFacts
      <3> HIDE DEF t
      <3>2. /\ t \in Tuner /\ t.regs.r05 = n.regs.r05 /\ t.regs.r07 = n.regs.r07
            /\ t.regs.r0a = n.regs.r0a /\ t.regs.r0b = n.regs.r0b
        BY <3>1 DEF Changes, Registers
      <3>3. /\ t.ds = n.ds /\ t.halfInit = n.halfInit /\ t.sideband = n.sideband
            /\ t.halfBw = n.halfBw /\ t.int_freq = n.int_freq /\ t.input = n.input
        BY <3>1, Same
      <3>4. Shadowed(t)
        BY <1>5, <3>2, <3>3, ShadowFrame
      <3> QED BY <1>4, <2>1, <3>2, <3>3, <3>4 DEF SameView
    <2>2. CASE ~d.ds
      <3>1. /\ Changes(n, t, {"input"}, TuneRegs)
            /\ n.regs.r05 = n.input => t.regs.r05 = t.input
            /\ t.ok => /\ PathOf(t, f) /\ PllOf(t, R82!LoFor(t, f))
                       /\ t.r828d => t.input = InputFor(f)
        BY <1>2, <1>3, <2>2, TuneTunerFacts
      <3> HIDE DEF t
      <3>2. t \in Tuner /\ t.regs.r07 = n.regs.r07 /\ t.regs.r0a = n.regs.r0a /\ t.regs.r0b = n.regs.r0b
        BY <3>1 DEF Changes, Registers, TuneRegs, PllRegs
      <3>3. /\ t.ds = n.ds /\ t.halfInit = n.halfInit /\ t.sideband = n.sideband
            /\ t.halfBw = n.halfBw /\ t.int_freq = n.int_freq
        BY <3>1, Same
      <3>4. Shadowed(t)
        BY <1>5, <3>1, <3>2, <3>3, ShadowFrame
      <3> QED BY <1>4, <3>1, <3>2, <3>3, <3>4 DEF SameView
    <2> QED BY <2>1, <2>2
  <1> HIDE DEF t
  <1>7. v \in TunerFreqs \cup {0}
    OBVIOUS
  <1>8. s \in Tuner /\ s.half = FALSE /\ s.freq = v /\ \A g \in Fields \ {"freq", "half"} : s[g] = t[g]
    <2> HIDE DEF v
    <2>1. Updated(t, r, "freq", v)
      BY <1>6, <1>7, FreqUpdate
    <2>2. r \in Tuner
      BY <2>1 DEF Updated
    <2> HIDE DEF r
    <2>3. "half" \in Flags /\ FALSE \in BOOLEAN
      BY DEF Flags
    <2>4. Updated(r, s, "half", FALSE)
      BY <2>2, <2>3, FlagUpdate
    <2> HIDE DEF s
    <2>5. s.freq = r.freq
      BY <2>4 DEF Updated, Fields
    <2> QED BY <2>1, <2>4, <2>5 DEF Updated
  <1> HIDE DEF s
  <1>9. SameView(t, s) /\ s.halfBw = t.halfBw
    BY <1>8 DEF SameView, Fields, Flags, Numbers, Files
  <1>10. Shadowed(s)
    BY <1>6, <1>9, ShadowFrame DEF SameView
  <1>11. Programmed(s)
    <2> SUFFICES ASSUME s.freq # 0, ~s.ds
                 PROVE  /\ PathOf(s, s.freq) /\ (s.r828d => s.input = InputFor(s.freq))
                        /\ PllOf(s, R82!LoFor(s, s.freq))
      BY DEF Programmed
    <2>1. t.ok /\ s.freq = f /\ ~d.ds
      BY <1>6, <1>8, <1>9 DEF SameView
    <2>2. PathOf(t, f) /\ PllOf(t, R82!LoFor(t, f)) /\ (t.r828d => t.input = InputFor(f))
      BY <1>6, <2>1
    <2>3. PathOf(s, f) /\ PllOf(s, R82!LoFor(s, f))
      BY <1>9, <2>2, ViewFrame
    <2> QED BY <1>9, <2>1, <2>2, <2>3 DEF SameView
  <1> QED BY <1>1, <1>8, <1>10, <1>11 DEF Holds

-----------------------------------------------------------------------------
(***************************************************************************)
(* Each setter keeps the invariant, wherever a transfer of it fails.       *)
(***************************************************************************)
LEMMA FreqTypes ==
    ASSUME NEW d \in Tuner
    PROVE  d.freq \in TunerFreqs \cup {0} /\ d.int_freq \in Int
  BY TunerTypes, IfRange

\* A setter that gives up has touched nothing of the path, and its PLL is excused.
LEMMA FailHolds ==
    ASSUME NEW d, NEW e \in Tuner, Programmed(d), Shadowed(e),
           e.freq = d.freq, e.ds = d.ds, e.halfInit = d.halfInit, e.r828d = d.r828d, e.input = d.input,
           e.chip.r1b = d.chip.r1b, e.regs.r17 = d.regs.r17, e.regs.r1a = d.regs.r1a
    PROVE  Holds(R82!Fail(e))
  <1> DEFINE h == e.freq # 0
             s == [e EXCEPT !.half = h]
  <1>1. R82!Fail(e) = s
    BY DEF R82!Fail
  <1>2. "half" \in Flags /\ h \in BOOLEAN
    BY DEF Flags
  <1>3. h = (e.freq # 0)
    OBVIOUS
  <1> HIDE DEF h
  <1>4. Updated(e, s, "half", h)
    BY <1>2, FlagUpdate
  <1> HIDE DEF s
  <1>5. s \in Tuner /\ s.half = h /\ \A g \in Fields \ {"half"} : s[g] = e[g]
    BY <1>4 DEF Updated
  <1>6. SameView(e, s) /\ s.halfBw = e.halfBw /\ s.freq = e.freq
    BY <1>5 DEF SameView, Fields, Flags, Numbers, Files
  <1>7. Shadowed(s)
    BY <1>6, ShadowFrame DEF SameView
  <1>8. Programmed(s)
    <2> SUFFICES ASSUME s.freq # 0, ~s.ds
                 PROVE  /\ PathOf(s, s.freq)
                        /\ ~s.halfInit /\ s.r828d => s.input = InputFor(s.freq)
                        /\ s.half
      BY DEF Programmed
    <2>1. d.freq # 0 /\ ~d.ds /\ s.freq = d.freq
      BY <1>6 DEF SameView
    <2>2. PathOf(d, d.freq) /\ (~d.halfInit /\ d.r828d => d.input = InputFor(d.freq))
      BY <2>1 DEF Programmed
    <2>3. PathOf(s, s.freq)
      BY <1>6, <2>1, <2>2 DEF PathOf, SameView
    <2>4. s.half
      BY <1>3, <1>5, <1>6
    <2> QED BY <1>6, <2>1, <2>2, <2>3, <2>4 DEF SameView
  <1> QED BY <1>1, <1>5, <1>7, <1>8 DEF Holds

LEMMA BandwidthHolds ==
    ASSUME Consts, NEW d, Holds(d), d.ok, NEW bw \in Int
    PROVE  Holds(R82!SetTunerBandwidth(d, bw))
  <1> DEFINE b == R82!SetBandwidth(d, bw)
             w == ~b.ok
             h == [b EXCEPT !.halfBw = w]
             i == IF h.ok THEN R82!SetIf(h, h.int_freq) ELSE h
  <1>1. R82!SetTunerBandwidth(d, bw) = IF i.ok THEN R82!SetCenterFreq(i, d.freq) ELSE R82!Fail(i)
    BY DEF R82!SetTunerBandwidth
  <1>2. d \in Tuner /\ Shadowed(d) /\ Programmed(d)
    BY DEF Holds
  <1>3. Changes(d, b, {"int_freq"}, {"r0a", "r0b"}) /\ (b.ok => Row(b))
    BY <1>2, BandwidthFacts
  <1>4. b \in Tuner
    BY <1>3 DEF Changes
  <1> HIDE DEF b
  <1>5. h \in Tuner /\ h.halfBw = w /\ \A g \in Fields \ {"halfBw"} : h[g] = b[g]
    <2>1. "halfBw" \in Flags /\ w \in BOOLEAN
      BY DEF Flags
    <2> HIDE DEF w
    <2>2. Updated(b, h, "halfBw", w)
      BY <1>4, <2>1, FlagUpdate
    <2> QED BY <2>2 DEF Updated
  <1> HIDE DEF h
  <1>6. /\ h.regs = b.regs /\ h.chip = b.chip /\ h.int_freq = b.int_freq /\ h.ds = b.ds
        /\ h.halfInit = b.halfInit /\ h.sideband = b.sideband /\ h.input = b.input
        /\ h.freq = b.freq /\ h.r828d = b.r828d
    BY <1>5 DEF Fields, Flags, Numbers, Files
  <1>7. Changes(h, i, {"if_freq"}, {})
    <2>1. Changes(h, h, {"if_freq"}, {})
      BY <1>5 DEF Changes
    <2>2. Changes(h, R82!SetIf(h, h.int_freq), {"if_freq"}, {})
      BY <1>5, FreqTypes, IfFacts
    <2> QED BY <2>1, <2>2
  <1> HIDE DEF i
  <1>8. /\ i \in Tuner /\ i.int_freq = b.int_freq /\ i.ds = d.ds /\ i.halfInit = d.halfInit
        /\ i.sideband = d.sideband /\ i.input = d.input /\ i.freq = d.freq /\ i.r828d = d.r828d
        /\ i.halfBw = h.halfBw
    <2>1. i \in Tuner
      BY <1>7 DEF Changes
    <2>2. /\ i.int_freq = h.int_freq /\ i.ds = h.ds /\ i.halfInit = h.halfInit
          /\ i.sideband = h.sideband /\ i.input = h.input /\ i.freq = h.freq /\ i.r828d = h.r828d
          /\ i.halfBw = h.halfBw
      BY <1>7, Same
    <2>3. /\ b.ds = d.ds /\ b.halfInit = d.halfInit
          /\ b.sideband = d.sideband /\ b.input = d.input /\ b.freq = d.freq /\ b.r828d = d.r828d
      BY <1>3, Same
    <2> QED BY <1>6, <2>1, <2>2, <2>3
  <1>9. /\ i.regs.r07 = d.regs.r07 /\ i.regs.r05 = d.regs.r05 /\ i.regs.r17 = d.regs.r17
        /\ i.regs.r1a = d.regs.r1a /\ i.chip.r1b = d.chip.r1b
        /\ i.regs.r0a = b.regs.r0a /\ i.regs.r0b = b.regs.r0b
    <2>1. /\ i.regs.r07 = b.regs.r07 /\ i.regs.r05 = b.regs.r05 /\ i.regs.r17 = b.regs.r17
          /\ i.regs.r1a = b.regs.r1a /\ i.chip.r1b = b.chip.r1b
          /\ i.regs.r0a = b.regs.r0a /\ i.regs.r0b = b.regs.r0b
      BY <1>6, <1>7 DEF Changes, Registers
    <2>2. /\ b.regs.r07 = d.regs.r07 /\ b.regs.r05 = d.regs.r05 /\ b.regs.r17 = d.regs.r17
          /\ b.regs.r1a = d.regs.r1a /\ b.chip.r1b = d.chip.r1b
      BY <1>3 DEF Changes, Registers
    <2> QED BY <2>1, <2>2
  <1>10. Shadowed(i)
    <2>1. ~i.halfBw => Row(i)
      <3>1. ~i.halfBw => b.ok
        BY <1>5, <1>8
      <3> QED BY <1>3, <1>8, <1>9, <3>1 DEF Row
    <2> QED BY <1>2, <1>8, <1>9, <2>1 DEF Shadowed
  <1>11. CASE i.ok
    <2>1. Holds(R82!SetCenterFreq(i, d.freq))
      BY <1>2, <1>8, <1>10, FreqTypes, CenterFreqHolds
    <2> QED BY <1>1, <1>11, <2>1
  <1>12. CASE ~i.ok
    <2>1. Holds(R82!Fail(i))
      BY <1>2, <1>8, <1>9, <1>10, FailHolds
    <2> QED BY <1>1, <1>12, <2>1
  <1> QED BY <1>11, <1>12

LEMMA SidebandHolds ==
    ASSUME Consts, NEW d, Holds(d), d.ok, NEW upper \in BOOLEAN
    PROVE  Holds(R82!SetTunerSideband(d, upper))
  <1> DEFINE v == IF upper THEN 1 ELSE 0
             m == [d EXCEPT !.sideband = upper]
             s == R82!WriteReg(m, "r07", v)
             low == ~upper
             i == IF s.ok THEN R82!Demod(s, low) ELSE s
  <1>1. R82!SetTunerSideband(d, upper) = IF i.ok THEN R82!SetCenterFreq(i, d.freq) ELSE R82!Fail(i)
    BY DEF R82!SetTunerSideband
  <1>2. d \in Tuner /\ Shadowed(d) /\ Programmed(d)
    BY DEF Holds
  <1>3. low \in BOOLEAN /\ v \in Int /\ (~upper => v = 0)
    OBVIOUS
  <1> HIDE DEF v, low
  <1>4. m \in Tuner /\ m.sideband = upper /\ \A g \in Fields \ {"sideband"} : m[g] = d[g]
    <2>1. "sideband" \in Flags
      BY DEF Flags
    <2>2. Updated(d, m, "sideband", upper)
      BY <1>2, <2>1, FlagUpdate
    <2> QED BY <2>2 DEF Updated
  <1> HIDE DEF m
  <1>5. /\ m.regs = d.regs /\ m.chip = d.chip /\ m.int_freq = d.int_freq /\ m.ds = d.ds /\ m.ok = d.ok
        /\ m.halfInit = d.halfInit /\ m.halfBw = d.halfBw /\ m.input = d.input
        /\ m.freq = d.freq /\ m.r828d = d.r828d
    BY <1>4 DEF Fields, Flags, Numbers, Files
  <1>6. Changes(m, s, {}, {"r07"}) /\ s.regs.r07 = v
    <2>1. Changes(m, s, {}, {"r07"}) /\ (m.ok => s.regs.r07 = v)
      BY <1>3, <1>4, WriteRegFacts DEF Registers, TypeOf
    <2>2. m.ok
      BY <1>5
    <2> QED BY <2>1, <2>2
  <1>7. s \in Tuner
    BY <1>6 DEF Changes
  <1> HIDE DEF s
  <1>8. Changes(s, i, {"inversion"}, {})
    <2>1. Changes(s, s, {"inversion"}, {})
      BY <1>7 DEF Changes
    <2>2. Changes(s, R82!Demod(s, low), {"inversion"}, {})
      BY <1>3, <1>7, DemodFacts
    <2> QED BY <2>1, <2>2
  <1> HIDE DEF i
  <1>9. /\ i \in Tuner /\ i.int_freq = d.int_freq /\ i.ds = d.ds /\ i.halfInit = d.halfInit
        /\ i.sideband = upper /\ i.input = d.input /\ i.freq = d.freq /\ i.r828d = d.r828d
        /\ i.halfBw = d.halfBw
    <2>1. i \in Tuner
      BY <1>8 DEF Changes
    <2>2. /\ i.int_freq = s.int_freq /\ i.ds = s.ds /\ i.halfInit = s.halfInit
          /\ i.sideband = s.sideband /\ i.input = s.input /\ i.freq = s.freq /\ i.r828d = s.r828d
          /\ i.halfBw = s.halfBw
      BY <1>8, Same
    <2>3. /\ s.int_freq = m.int_freq /\ s.ds = m.ds /\ s.halfInit = m.halfInit
          /\ s.sideband = m.sideband /\ s.input = m.input /\ s.freq = m.freq /\ s.r828d = m.r828d
          /\ s.halfBw = m.halfBw
      BY <1>6, Same
    <2> QED BY <1>4, <1>5, <2>1, <2>2, <2>3
  <1>10. /\ i.regs.r07 = v /\ i.regs.r05 = d.regs.r05 /\ i.regs.r17 = d.regs.r17
         /\ i.regs.r1a = d.regs.r1a /\ i.chip.r1b = d.chip.r1b
         /\ i.regs.r0a = d.regs.r0a /\ i.regs.r0b = d.regs.r0b
    <2>1. /\ i.regs.r07 = s.regs.r07 /\ i.regs.r05 = s.regs.r05 /\ i.regs.r17 = s.regs.r17
          /\ i.regs.r1a = s.regs.r1a /\ i.chip.r1b = s.chip.r1b
          /\ i.regs.r0a = s.regs.r0a /\ i.regs.r0b = s.regs.r0b
      BY <1>8 DEF Changes, Registers
    <2>2. /\ s.regs.r05 = d.regs.r05 /\ s.regs.r17 = d.regs.r17
          /\ s.regs.r1a = d.regs.r1a /\ s.chip.r1b = d.chip.r1b
          /\ s.regs.r0a = d.regs.r0a /\ s.regs.r0b = d.regs.r0b
      BY <1>5, <1>6 DEF Changes, Registers
    <2> QED BY <1>6, <2>1, <2>2
  <1>11. Shadowed(i)
    BY <1>2, <1>3, <1>9, <1>10 DEF Shadowed, Row
  <1>12. CASE i.ok
    <2>1. Holds(R82!SetCenterFreq(i, d.freq))
      BY <1>2, <1>9, <1>11, FreqTypes, CenterFreqHolds
    <2> QED BY <1>1, <1>12, <2>1
  <1>13. CASE ~i.ok
    <2>1. Holds(R82!Fail(i))
      BY <1>2, <1>9, <1>10, <1>11, FailHolds
    <2> QED BY <1>1, <1>13, <2>1
  <1> QED BY <1>12, <1>13

LEMMA XtalHolds ==
    ASSUME Consts, NEW d, Holds(d), NEW xtal \in TunerXtals
    PROVE  Holds(R82!SetXtal(d, xtal))
  <1> DEFINE x == [d EXCEPT !.xtal = xtal]
  <1>1. R82!SetXtal(d, xtal) = IF d.xtal # xtal /\ d.freq # 0 THEN R82!SetCenterFreq(x, d.freq) ELSE x
    BY DEF R82!SetXtal
  <1>2. d \in Tuner /\ Shadowed(d) /\ Programmed(d)
    BY DEF Holds
  <1>3. x \in Tuner /\ x.xtal = xtal /\ \A g \in Fields \ {"xtal"} : x[g] = d[g]
    BY <1>2, XtalUpdate DEF Updated
  <1>4. x = d \/ d.xtal # xtal
    BY <1>2 DEF Tuner
  <1> HIDE DEF x
  <1>5. /\ x.regs = d.regs /\ x.chip = d.chip /\ x.int_freq = d.int_freq /\ x.ds = d.ds
        /\ x.halfInit = d.halfInit /\ x.halfBw = d.halfBw /\ x.input = d.input
        /\ x.freq = d.freq /\ x.sideband = d.sideband
    BY <1>3 DEF Fields, Flags, Numbers, Files
  <1>6. Shadowed(x)
    BY <1>2, <1>5, ShadowFrame
  <1>7. CASE d.xtal # xtal /\ d.freq # 0
    <2>1. Holds(R82!SetCenterFreq(x, d.freq))
      BY <1>2, <1>3, <1>6, FreqTypes, CenterFreqHolds
    <2> QED BY <1>1, <1>7, <2>1
  <1>8. CASE ~(d.xtal # xtal /\ d.freq # 0)
    <2>1. Programmed(x)
      <3>1. CASE d.freq = 0
        BY <1>5, <3>1 DEF Programmed
      <3>2. CASE d.freq # 0
        BY <1>2, <1>4, <1>8, <3>2
      <3> QED BY <3>1, <3>2
    <2> QED BY <1>1, <1>3, <1>6, <1>8, <2>1 DEF Holds
  <1> QED BY <1>7, <1>8

LEMMA DsUpdate ==
    ASSUME NEW d \in Tuner, NEW on \in BOOLEAN
    PROVE  LET e == [d EXCEPT !.ds = on] IN
           /\ e \in Tuner /\ e.ds = on /\ e.regs = d.regs /\ e.halfInit = d.halfInit
           /\ e.sideband = d.sideband /\ e.int_freq = d.int_freq /\ e.input = d.input
  <1> DEFINE e == [d EXCEPT !.ds = on]
  <1>1. "ds" \in Flags
    BY DEF Flags
  <1>2. Updated(d, e, "ds", on)
    BY <1>1, FlagUpdate
  <1> HIDE DEF e
  <1>3. e \in Tuner /\ e.ds = on /\ \A g \in Fields \ {"ds"} : e[g] = d[g]
    BY <1>2 DEF Updated
  <1>4. /\ e.regs = d.regs /\ e.halfInit = d.halfInit
        /\ e.sideband = d.sideband /\ e.int_freq = d.int_freq /\ e.input = d.input
    BY <1>3 DEF Fields, Flags, Numbers, Files
  <1> QED BY <1>3, <1>4 DEF e

LEMMA DirectSamplingHolds ==
    ASSUME Consts, NEW d, Holds(d), NEW on \in BOOLEAN
    PROVE  Holds(R82!SetDirectSampling(d, on))
  <1> DEFINE a == R82!Standby(d)
             b == R82!Demod(a, FALSE)
             s == [b EXCEPT !.ds = TRUE]
             p == R82!TunerInit(d)
             q == R82!SetIf(p, R82!Default_IF)
             u == R82!Demod(q, TRUE)
             t == [u EXCEPT !.ds = FALSE]
  <1>1. R82!SetDirectSampling(d, on) = R82!SetCenterFreq(IF on THEN s ELSE t, d.freq)
    BY DEF R82!SetDirectSampling
  <1>2. d \in Tuner /\ Shadowed(d)
    BY DEF Holds
  <1>3. s \in Tuner /\ Shadowed(s)
    <2>1. Changes(d, a, {}, {"r05", "r07", "r0a", "r17"}) /\ Clears(d, a)
      BY <1>2, StandbyFacts
    <2>2. a \in Tuner
      BY <2>1 DEF Changes
    <2> HIDE DEF a
    <2>3. Changes(a, b, {"inversion"}, {})
      <3>1. FALSE \in BOOLEAN
        OBVIOUS
      <3> QED BY <2>2, <3>1, DemodFacts
    <2>4. b \in Tuner
      BY <2>3 DEF Changes
    <2> HIDE DEF b
    <2>5. s \in Tuner /\ s.ds = TRUE /\ s.regs = b.regs /\ s.sideband = b.sideband
      BY <2>4, DsUpdate
    <2> HIDE DEF s
    <2>6. b.regs.r07 = a.regs.r07
      BY <2>3 DEF Changes, Registers
    <2>7. b.sideband = a.sideband /\ a.sideband = d.sideband
      BY <2>1, <2>3, Same
    <2>8. ~s.sideband => s.regs.r07 = 0
      BY <1>2, <2>1, <2>5, <2>6, <2>7 DEF Shadowed, Clears
    <2> QED BY <2>5, <2>8 DEF Shadowed
  <1>4. t \in Tuner /\ Shadowed(t)
    <2>1. /\ Changes(d, p, {"int_freq", "input", "halfInit", "halfBw"}, Registers)
          /\ Clears(d, p)
          /\ ~p.halfInit => p.regs = R82!init_array /\ p.int_freq = 3570 /\ p.input = 0
      BY <1>2, InitFacts
    <2>2. p \in Tuner
      BY <2>1 DEF Changes
    <2> HIDE DEF p
    <2>3. Changes(p, q, {"if_freq"}, {})
      <3>1. R82!Default_IF \in Int
        BY DEF R82!Default_IF
      <3> QED BY <2>2, <3>1, IfFacts
    <2>4. q \in Tuner
      BY <2>3 DEF Changes
    <2> HIDE DEF q
    <2>5. Changes(q, u, {"inversion"}, {})
      <3>1. TRUE \in BOOLEAN
        OBVIOUS
      <3> QED BY <2>4, <3>1, DemodFacts
    <2>6. u \in Tuner
      BY <2>5 DEF Changes
    <2> HIDE DEF u
    <2>7. /\ t \in Tuner /\ t.regs = u.regs /\ t.sideband = u.sideband /\ t.halfInit = u.halfInit
          /\ t.int_freq = u.int_freq /\ t.input = u.input
      BY <2>6, DsUpdate
    <2> HIDE DEF t
    <2>8. /\ t.regs.r05 = p.regs.r05 /\ t.regs.r07 = p.regs.r07
          /\ t.regs.r0a = p.regs.r0a /\ t.regs.r0b = p.regs.r0b
      <3>1. /\ q.regs.r05 = p.regs.r05 /\ q.regs.r07 = p.regs.r07
            /\ q.regs.r0a = p.regs.r0a /\ q.regs.r0b = p.regs.r0b
        BY <2>3 DEF Changes, Registers
      <3>2. /\ u.regs.r05 = q.regs.r05 /\ u.regs.r07 = q.regs.r07
            /\ u.regs.r0a = q.regs.r0a /\ u.regs.r0b = q.regs.r0b
        BY <2>5 DEF Changes, Registers
      <3> QED BY <2>7, <3>1, <3>2
    <2>9. /\ t.sideband = d.sideband /\ t.halfInit = p.halfInit
          /\ t.int_freq = p.int_freq /\ t.input = p.input
      <3>1. /\ q.sideband = p.sideband /\ q.halfInit = p.halfInit
            /\ q.int_freq = p.int_freq /\ q.input = p.input
        BY <2>3, Same
      <3>2. /\ u.sideband = q.sideband /\ u.halfInit = q.halfInit
            /\ u.int_freq = q.int_freq /\ u.input = q.input
        BY <2>5, Same
      <3>3. p.sideband = d.sideband
        BY <2>1, Same
      <3> QED BY <2>7, <3>1, <3>2, <3>3
    <2>10. ~t.sideband => t.regs.r07 = 0
      BY <1>2, <2>1, <2>8, <2>9 DEF Shadowed, Clears
    <2>11. ASSUME ~t.halfInit PROVE Row(t) /\ t.regs.r05 = t.input
      <3>1. p.regs = R82!init_array /\ p.int_freq = 3570 /\ p.input = 0
        BY <2>1, <2>9, <2>11
      <3>2. t.regs.r0a = \h0b /\ t.regs.r0b = \h6b /\ t.int_freq = 3570 /\ t.regs.r05 = 0 /\ t.input = 0
        BY <2>8, <2>9, <3>1, Arrays
      <3>3. Tail(R82!r82xx_bws[12]) = <<\h0b, \h6b, 3570>>
        BY DEF R82!r82xx_bws
      <3>4. Row(t)
        BY <3>2, <3>3, Tables DEF Row
      <3> QED BY <3>2, <3>4
    <2> QED BY <2>7, <2>10, <2>11 DEF Shadowed
  <1> HIDE DEF s, t
  <1>5. d.freq \in TunerFreqs \cup {0}
    BY <1>2, FreqTypes
  <1> QED BY <1>1, <1>3, <1>4, <1>5, CenterFreqHolds

LEMMA DitheringHolds ==
    ASSUME NEW d, Holds(d), NEW on \in BOOLEAN
    PROVE  Holds(R82!WriteReg(d, "r12", [d.regs.r12 EXCEPT !.dither = on]))
  <1> DEFINE w == [d.regs.r12 EXCEPT !.dither = on]
             e == R82!WriteReg(d, "r12", w)
  <1>1. d \in Tuner /\ Shadowed(d) /\ Programmed(d)
    BY DEF Holds
  <1>2. w \in TypeOf("r12") /\ w.pw_sdm = d.regs.r12.pw_sdm
    <2>1. d.regs.r12 \in R12
      BY <1>1, TunerTypes, Composite
    <2> QED BY <2>1, FieldOfR12
  <1> HIDE DEF w
  <1>3. Changes(d, e, {}, {"r12"}) /\ (d.ok => e.regs.r12 = w) /\ (~d.ok => e = d)
    BY <1>1, <1>2, WriteRegFacts DEF Registers
  <1> SUFFICES Holds(e)
    BY DEF w
  <1> HIDE DEF e
  <1>4. e \in Tuner /\ e.regs.r12.pw_sdm = d.regs.r12.pw_sdm
    <2>1. e \in Tuner
      BY <1>3 DEF Changes
    <2>2. e.regs.r12.pw_sdm = d.regs.r12.pw_sdm
      BY <1>1, <1>2, <1>3, FlagTypes
    <2> QED BY <2>1, <2>2
  <1>5. \A r \in Registers \ {"r12"} : e.regs[r] = d.regs[r] /\ e.chip[r] = d.chip[r]
    BY <1>3 DEF Changes
  <1>6. /\ e.regs.r05 = d.regs.r05 /\ e.regs.r07 = d.regs.r07 /\ e.regs.r0a = d.regs.r0a
        /\ e.regs.r0b = d.regs.r0b /\ e.regs.r10 = d.regs.r10 /\ e.regs.r17 = d.regs.r17
        /\ e.regs.r1a = d.regs.r1a
        /\ e.chip.r14 = d.chip.r14 /\ e.chip.r15 = d.chip.r15 /\ e.chip.r16 = d.chip.r16
        /\ e.chip.r1b = d.chip.r1b
    BY <1>5 DEF Registers
  <1>7. /\ e.ds = d.ds /\ e.halfInit = d.halfInit /\ e.sideband = d.sideband /\ e.halfBw = d.halfBw
        /\ e.half = d.half /\ e.freq = d.freq /\ e.r828d = d.r828d
        /\ e.int_freq = d.int_freq /\ e.input = d.input /\ e.xtal = d.xtal
    BY <1>3, Same
  <1>8. Shadowed(e)
    BY <1>1, <1>6, <1>7, ShadowFrame
  <1>9. Programmed(e)
    <2>1. \A f : PathOf(d, f) => PathOf(e, f)
      BY <1>6 DEF PathOf
    <2>2. \A lo : PllOf(d, lo) => PllOf(e, lo)
      BY <1>4, <1>6, <1>7 DEF PllOf, Nint, Sdm
    <2>3. \A f : R82!LoFor(e, f) = R82!LoFor(d, f)
      BY <1>7 DEF R82!LoFor
    <2> QED BY <1>1, <1>7, <2>1, <2>2, <2>3 DEF Programmed
  <1> QED BY <1>4, <1>8, <1>9 DEF Holds

-----------------------------------------------------------------------------
(***************************************************************************)
(* What a programmed PLL gives: Receives, from the registers.              *)
(***************************************************************************)
LEMMA NoWrap ==
    ASSUME NEW w \in Nat \ {0}, NEW a \in Int
    PROVE  /\ 0 <= a /\ a < w => a % w = a
           /\ a < 0 /\ -w <= a => a % w = a + w
           /\ w <= a /\ a < 2 * w => a % w = a - w
  <1>1. /\ a % w \in Int /\ 0 <= a % w /\ a % w < w
        /\ a \div w \in Int /\ a = (w * (a \div w)) + (a % w)
    OBVIOUS
  <1>2. PICK q \in Int, r \in Int : /\ q = a \div w /\ r = a % w
                                    /\ 0 <= r /\ r < w /\ a = (w * q) + r
    BY <1>1
  <1>3. ASSUME NEW n \in Nat, NEW k \in Int, k > 0 PROVE n * k >= n
    BY <1>3
  <1>4. q > 0 => w * q >= w
    BY <1>3
  <1>5. q > 1 => w * (q - 1) >= w /\ w * q = w * (q - 1) + w
    BY <1>3
  <1>6. q < 0 => w * (-q) >= w /\ w * q = -(w * (-q))
    BY <1>3
  <1>7. q < -1 => w * (-q - 1) >= w /\ w * q = -(w * (-q - 1)) - w
    BY <1>3
  <1>8. /\ q = 0 => w * q = 0
        /\ q = 1 => w * q = w
        /\ q = -1 => w * q = -w
    OBVIOUS
  <1>9. PICK p \in Int : p = w * q
    OBVIOUS
  <1>10. 0 <= a /\ a < w => r = a
    BY <1>2, <1>4, <1>6, <1>8, <1>9
  <1>11. a < 0 /\ -w <= a => r = a + w
    <2>1. CASE q < -1
      BY <1>2, <1>7, <1>9, <2>1
    <2>2. CASE q >= -1
      BY <1>2, <1>4, <1>8, <1>9, <2>2
    <2> QED BY <2>1, <2>2
  <1>12. w <= a /\ a < 2 * w => r = a - w
    <2>1. CASE q > 1
      BY <1>2, <1>5, <1>9, <2>1
    <2>2. CASE q <= 1
      BY <1>2, <1>6, <1>8, <1>9, <2>2
    <2> QED BY <2>1, <2>2
  <1> QED BY <1>2, <1>10, <1>11, <1>12

LEMMA LeastDivider ==
    ASSUME Width \in Nat \ {0}, R82!VcoMin \in Nat, NEW top \in Nat, top < Width, 2 * R82!VcoMin <= top,
           NEW f \in Nat, 2 * f <= top
    PROVE  /\ R82!VcoFreq(f) \in Nat /\ R82!VcoFreq(f) <= top
           /\ R82!VcoFreq(f) >= R82!VcoMin \/ 64 * f < R82!VcoMin
  <1> DEFINE S == {n \in 0 .. 5 : n < 5 => (f * 2^(n + 1)) % Width >= R82!VcoMin}
             n == R82!DivNum(f)
  <1>0. /\ f * 2^(0 + 1) = 2 * f /\ f * 2^(1 + 1) = 4 * f /\ f * 2^(2 + 1) = 8 * f
        /\ f * 2^(3 + 1) = 16 * f /\ f * 2^(4 + 1) = 32 * f /\ f * 2^(5 + 1) = 64 * f
    <2>1. f \in Int
      OBVIOUS
    <2> QED BY <2>1, Powers, Zenon
  <1>1. n \in S /\ \A m \in S : n <= m
    <2>1. 5 \in S /\ S \in SUBSET Nat
      OBVIOUS
    <2>2. n = R82!Min(S)
      BY DEF R82!DivNum
    <2> HIDE DEF S, n
    <2> QED BY <2>1, <2>2, LeastFacts
  <1>2. \A a \in Nat : a <= top => a % Width = a
    BY NoWrap
  <1>3. /\ n = 0 => (2 * f) % Width >= R82!VcoMin
        /\ n = 1 => (4 * f) % Width >= R82!VcoMin
        /\ n = 2 => (8 * f) % Width >= R82!VcoMin
        /\ n = 3 => (16 * f) % Width >= R82!VcoMin
        /\ n = 4 => (32 * f) % Width >= R82!VcoMin
    <2>1. n < 5 => (f * 2^(n + 1)) % Width >= R82!VcoMin
      BY <1>1
    <2> HIDE DEF n
    <2>2. n = 0 => (2 * f) % Width >= R82!VcoMin
      BY <1>0, <2>1
    <2>3. n = 1 => (4 * f) % Width >= R82!VcoMin
      BY <1>0, <2>1
    <2>4. n = 2 => (8 * f) % Width >= R82!VcoMin
      BY <1>0, <2>1
    <2>5. n = 3 => (16 * f) % Width >= R82!VcoMin
      BY <1>0, <2>1
    <2>6. n = 4 => (32 * f) % Width >= R82!VcoMin
      BY <1>0, <2>1
    <2> QED BY <2>2, <2>3, <2>4, <2>5, <2>6
  <1>4. /\ n > 0 => ~((2 * f) % Width >= R82!VcoMin)
        /\ n > 1 => ~((4 * f) % Width >= R82!VcoMin)
        /\ n > 2 => ~((8 * f) % Width >= R82!VcoMin)
        /\ n > 3 => ~((16 * f) % Width >= R82!VcoMin)
        /\ n > 4 => ~((32 * f) % Width >= R82!VcoMin)
    <2>1. /\ (f * 2^(0 + 1)) % Width >= R82!VcoMin => n <= 0
          /\ (f * 2^(1 + 1)) % Width >= R82!VcoMin => n <= 1
          /\ (f * 2^(2 + 1)) % Width >= R82!VcoMin => n <= 2
          /\ (f * 2^(3 + 1)) % Width >= R82!VcoMin => n <= 3
          /\ (f * 2^(4 + 1)) % Width >= R82!VcoMin => n <= 4
      <3>1. \A m \in 0 .. 4 : (f * 2^(m + 1)) % Width >= R82!VcoMin => n <= m
        BY <1>1
      <3>2. 0 \in 0 .. 4 /\ 1 \in 0 .. 4 /\ 2 \in 0 .. 4 /\ 3 \in 0 .. 4 /\ 4 \in 0 .. 4
        OBVIOUS
      <3> HIDE DEF n
      <3> QED BY <3>1, <3>2, Zenon
    <2>2. n \in Int
      BY <1>1
    <2> HIDE DEF n
    <2>3. /\ (2 * f) % Width >= R82!VcoMin => n <= 0
          /\ (4 * f) % Width >= R82!VcoMin => n <= 1
          /\ (8 * f) % Width >= R82!VcoMin => n <= 2
          /\ (16 * f) % Width >= R82!VcoMin => n <= 3
          /\ (32 * f) % Width >= R82!VcoMin => n <= 4
      BY <1>0, <2>1, Zenon
    <2> QED BY <2>2, <2>3
  <1>5. /\ n = 0 => R82!VcoFreq(f) = 2 * f
        /\ n = 1 => R82!VcoFreq(f) = 4 * f
        /\ n = 2 => R82!VcoFreq(f) = 8 * f
        /\ n = 3 => R82!VcoFreq(f) = 16 * f
        /\ n = 4 => R82!VcoFreq(f) = 32 * f
        /\ n = 5 => R82!VcoFreq(f) = 64 * f
    <2>1. R82!VcoFreq(f) = f * 2^(n + 1)
      BY DEF R82!VcoFreq
    <2> HIDE DEF n
    <2>2. /\ n = 0 => R82!VcoFreq(f) = 2 * f
          /\ n = 1 => R82!VcoFreq(f) = 4 * f
      BY <1>0, <2>1, Zenon
    <2>3. /\ n = 2 => R82!VcoFreq(f) = 8 * f
          /\ n = 3 => R82!VcoFreq(f) = 16 * f
      BY <1>0, <2>1, Zenon
    <2>4. /\ n = 4 => R82!VcoFreq(f) = 32 * f
          /\ n = 5 => R82!VcoFreq(f) = 64 * f
      BY <1>0, <2>1, Zenon
    <2> QED BY <2>2, <2>3, <2>4
  <1>6. n \in 0 .. 5
    BY <1>1
  <1> HIDE DEF n, S
  <1>7. /\ n > 0 => 2 * f < R82!VcoMin
        /\ n > 1 => 4 * f < R82!VcoMin
        /\ n > 2 => 8 * f < R82!VcoMin
        /\ n > 3 => 16 * f < R82!VcoMin
        /\ n > 4 => 32 * f < R82!VcoMin
    <2>1. n > 0 => 2 * f < R82!VcoMin
      BY <1>2, <1>4, <1>6
    <2>2. n > 1 => 4 * f < R82!VcoMin
      BY <1>2, <1>4, <1>6, <2>1
    <2>3. n > 2 => 8 * f < R82!VcoMin
      BY <1>2, <1>4, <1>6, <2>2
    <2>4. n > 3 => 16 * f < R82!VcoMin
      BY <1>2, <1>4, <1>6, <2>3
    <2>5. n > 4 => 32 * f < R82!VcoMin
      BY <1>2, <1>4, <1>6, <2>4
    <2> QED BY <2>1, <2>2, <2>3, <2>4, <2>5
  <1>8. CASE n = 0
    BY <1>2, <1>3, <1>5, <1>6, <1>8
  <1>9. CASE n = 1
    BY <1>2, <1>3, <1>5, <1>6, <1>7, <1>9
  <1>10. CASE n = 2
    BY <1>2, <1>3, <1>5, <1>6, <1>7, <1>10
  <1>11. CASE n = 3
    BY <1>2, <1>3, <1>5, <1>6, <1>7, <1>11
  <1>12. CASE n = 4
    BY <1>2, <1>3, <1>5, <1>6, <1>7, <1>12
  <1>13. CASE n = 5
    BY <1>5, <1>6, <1>7, <1>13
  <1>14. n = 0 \/ n = 1 \/ n = 2 \/ n = 3 \/ n = 4 \/ n = 5
    BY <1>6
  <1> QED BY <1>8, <1>9, <1>10, <1>11, <1>12, <1>13, <1>14

LEMMA InRange ==
    ASSUME Consts, NEW f \in Nat, f <= 1900000
    PROVE  /\ R82!VcoFreq(f) \in Nat /\ R82!VcoFreq(f) <= 2 * 1900000
           /\ R82!VcoFreq(f) >= R82!VcoMin \/ 64 * f < R82!VcoMin
  <1>1. PICK top \in Nat : top = 2 * 1900000
    OBVIOUS
  <1>2. R82!VcoMin \in Nat /\ 2 * R82!VcoMin <= top
    BY <1>1 DEF R82!VcoMin
  <1>3. Width \in Nat \ {0} /\ top < Width /\ 2 * f <= top
    BY <1>1 DEF Consts
  <1> QED BY <1>1, <1>2, <1>3, LeastDivider

\* What is rounded to the nearest is off by half a step at most.
LEMMA Rounded ==
    ASSUME NEW ref \in Nat \ {0}, NEW x \in Nat
    PROVE  LET error == 2 * ref * ((ref + x) \div (2 * ref)) - x IN -ref <= error /\ error <= ref
  <1>1. 2 * ref \in Nat \ {0} /\ ref + x \in Nat
    OBVIOUS
  <1>2. PICK b \in Nat \ {0}, a \in Nat : b = 2 * ref /\ a = ref + x
    BY <1>1
  <1>3. PICK q \in Nat : q = a \div b
    BY DivMod
  <1>4. a % b \in Nat /\ a % b < b /\ a = (b * q) + (a % b)
    BY <1>3, DivMod
  <1>5. PICK p \in Nat, r \in Nat : p = b * q /\ r = a % b
    <2>1. b * q \in Nat
      OBVIOUS
    <2> QED BY <1>4, <2>1
  <1>6. -ref <= p - x /\ p - x <= ref
    BY <1>2, <1>4, <1>5
  <1> QED BY <1>2, <1>3, <1>5, <1>6

LEMMA PllGives ==
    ASSUME Consts, NEW d \in Tuner, NEW lo, PllOf(d, lo),
           d.chip.r10 = d.regs.r10, d.chip.r12 = d.regs.r12
    PROVE  R82!VcoGives(d, lo)
  <1> DEFINE ref == R82!PllRef(d.xtal)
             v == R82!VcoFreq(lo)
             q == R82!VcoDiv(d.xtal, lo)
             sdm == IF d.chip.r12.pw_sdm THEN d.chip.r16 * SdmBase + d.chip.r15 ELSE 0
             nint == 4 * d.chip.r14.ni + d.chip.r14.si + 13
  <1>1. lo \in Nat /\ lo <= 1900000
    BY DEF PllOf
  <1>2. /\ d.chip.r10.refdiv2 = R82!RefDiv2(d.xtal) /\ d.chip.r10.div_num = R82!DivNum(lo)
        /\ d.chip.r12.pw_sdm = (Sdm(d, lo) # 0)
    BY DEF PllOf
  <1>3. nint = Nint(d, lo) /\ d.chip.r16 = Sdm(d, lo) \div SdmBase /\ d.chip.r15 = Sdm(d, lo) % SdmBase
    BY DEF PllOf
  <1>4. sdm = Sdm(d, lo)
    <2>1. CASE Sdm(d, lo) = 0
      BY <1>2, <2>1
    <2>2. CASE Sdm(d, lo) # 0
      <3>1. sdm = d.chip.r16 * SdmBase + d.chip.r15
        BY <1>2, <2>2
      <3>2. /\ Sdm(d, lo) \div SdmBase \in Nat /\ Sdm(d, lo) % SdmBase \in Nat /\ SdmBase \in Nat
            /\ Sdm(d, lo) = (SdmBase * (Sdm(d, lo) \div SdmBase)) + (Sdm(d, lo) % SdmBase)
        BY <1>1, VcoTypes, FixedPoint
      <3>3. PICK h \in Nat, l \in Nat : h = Sdm(d, lo) \div SdmBase /\ l = Sdm(d, lo) % SdmBase
        BY <3>2
      <3>4. h * SdmBase = SdmBase * h
        BY <3>2
      <3> QED BY <1>3, <3>1, <3>2, <3>3, <3>4
    <2> QED BY <2>1, <2>2
  <1>5. /\ q \in Nat /\ q = nint * R82!SdmOne + sdm
        /\ nint \in Nat /\ sdm \in Nat /\ R82!SdmOne \in Nat \ {0}
    <2>1. /\ q \in Nat /\ q = (R82!SdmOne * Nint(d, lo)) + Sdm(d, lo)
          /\ Nint(d, lo) \in Nat /\ Sdm(d, lo) \in Nat /\ R82!SdmOne \in Nat \ {0}
      BY <1>1, VcoTypes, FixedPoint
    <2>2. PICK i \in Nat : i = Nint(d, lo)
      BY <2>1
    <2>3. R82!SdmOne * i = i * R82!SdmOne
      BY <2>1
    <2> HIDE DEF q, sdm, nint
    <2> QED BY <1>3, <1>4, <2>1, <2>2, <2>3
  <1>6. ref = IF d.chip.r10.refdiv2 THEN d.xtal \div 2 ELSE d.xtal
    BY <1>2 DEF R82!PllRef
  <1>7. v = lo * 2^(d.chip.r10.div_num + 1)
    BY <1>2 DEF R82!VcoFreq
  <1>8. /\ v \in Nat /\ v <= 2 * 1900000
        /\ v >= R82!VcoMin \/ 64 * lo < R82!VcoMin
    BY <1>1, InRange
  <1>9. ref \in Nat \ {0}
    <2>1. ref \in Nat /\ ref >= 4000
      BY TunerTypes, Reference
    <2> HIDE DEF ref
    <2> QED BY <2>1
  <1>10. q = (ref + R82!SdmOne * v) \div (2 * ref)
    BY DEF R82!VcoDiv
  <1> HIDE DEF ref, v, q, sdm, nint
  <1>11. -ref <= 2 * ref * q - v * R82!SdmOne /\ 2 * ref * q - v * R82!SdmOne <= ref
    <2>1. R82!SdmOne * v \in Nat /\ R82!SdmOne * v = v * R82!SdmOne
      BY <1>5, <1>8
    <2>2. PICK x \in Nat : x = R82!SdmOne * v
      BY <2>1
    <2>3. LET error == 2 * ref * ((ref + x) \div (2 * ref)) - x IN -ref <= error /\ error <= ref
      BY <1>9, Rounded
    <2> QED BY <1>10, <2>1, <2>2, <2>3
  <1> QED BY <1>5, <1>6, <1>7, <1>8, <1>11 DEF R82!VcoGives, sdm, nint

LEMMA LoIs ==
    ASSUME Consts, NEW d \in Tuner, PllOf(d, R82!LoFor(d, d.freq))
    PROVE  R82!LoFor(d, d.freq) = IF d.sideband THEN d.freq - d.int_freq ELSE d.freq + d.int_freq
  <1>1. PICK n \in Nat, top \in Nat : n = 3570 /\ top = 1900000
    OBVIOUS
  <1>2. Width \in Nat \ {0} /\ n \in Nat /\ top \in Nat /\ top + n < Width
    BY <1>1 DEF Consts
  <1>3. d.freq \in Nat /\ d.freq < Width /\ d.int_freq \in Nat /\ d.int_freq <= n
    <2>1. d.freq \in TunerFreqs \cup {0} /\ d.int_freq \in Ifs
      BY TunerTypes
    <2>2. d.freq \in Nat /\ d.freq < Width
      BY <2>1, FreqRange
    <2>3. d.int_freq \in Nat /\ d.int_freq <= n
      BY <1>1, <2>1, IfRange
    <2> QED BY <2>2, <2>3
  <1>4. PICK lo : lo = R82!LoFor(d, d.freq) /\ lo <= top /\ lo > n
    BY <1>1 DEF PllOf
  <1>5. CASE d.sideband
    <2>1. PICK a \in Int : a = d.freq - d.int_freq /\ a < Width /\ -Width <= a
      BY <1>2, <1>3
    <2>2. lo = a % Width
      BY <1>4, <1>5, <2>1, Zenon DEF R82!LoFor
    <2>3. /\ 0 <= a => a % Width = a
          /\ a < 0 => a % Width = a + Width
      BY <1>2, <2>1, NoWrap
    <2>4. (0 <= a => lo = a) /\ (a < 0 => lo = a + Width)
      BY <2>2, <2>3, Zenon
    <2>5. lo = a
      BY <1>2, <1>3, <1>4, <2>1, <2>4
    <2> QED BY <1>4, <1>5, <2>1, <2>5
  <1>6. CASE ~d.sideband
    <2>1. PICK a \in Int : a = d.freq + d.int_freq /\ a < 2 * Width /\ 0 <= a /\ a < Width + n
      BY <1>2, <1>3
    <2>2. lo = a % Width
      BY <1>4, <1>6, <2>1, Zenon DEF R82!LoFor
    <2>3. /\ a < Width => a % Width = a
          /\ Width <= a => a % Width = a - Width
      BY <1>2, <2>1, NoWrap
    <2>4. (a < Width => lo = a) /\ (Width <= a => lo = a - Width)
      BY <2>2, <2>3, Zenon
    <2>5. lo = a
      BY <1>2, <1>4, <2>1, <2>4
    <2> QED BY <1>4, <1>6, <2>1, <2>5
  <1> QED BY <1>5, <1>6

-----------------------------------------------------------------------------
(***************************************************************************)
(* The device before and after a call.                                     *)
(***************************************************************************)
LEMMA ViewHolds ==
    ASSUME NEW d, NEW e \in Tuner, Holds(d), SameView(d, e),
           e.halfBw = d.halfBw, e.freq = d.freq, e.half = d.half
    PROVE  Holds(e)
  <1>1. Shadowed(d) /\ Programmed(d)
    BY DEF Holds
  <1>2. Shadowed(e)
    BY <1>1, ShadowFrame DEF SameView
  <1>3. Programmed(e)
    <2>1. PathOf(d, d.freq) => PathOf(e, d.freq)
      BY ViewFrame
    <2>2. PllOf(d, R82!LoFor(d, d.freq)) => PllOf(e, R82!LoFor(e, d.freq))
      BY ViewFrame
    <2> QED BY <1>1, <2>1, <2>2 DEF Programmed, SameView
  <1> QED BY <1>2, <1>3 DEF Holds

Ready(d) == Holds(d) /\ d.ok

LEMMA LockHolds ==
    ASSUME NEW d, Ready(d), NEW l \in {"once", "twice", "never"}
    PROVE  Ready([d EXCEPT !.lock = l])
  <1> DEFINE e == [d EXCEPT !.lock = l]
  <1>1. d \in Tuner
    BY DEF Ready, Holds
  <1>2. Updated(d, e, "lock", l)
    BY <1>1, LockUpdate
  <1> HIDE DEF e
  <1>3. e \in Tuner
    BY <1>2 DEF Updated
  <1>4. SameView(d, e) /\ e.halfBw = d.halfBw /\ e.freq = d.freq /\ e.half = d.half /\ e.ok = d.ok
    BY <1>2 DEF Updated, SameView, Fields, Flags, Numbers, Files
  <1>5. Holds(e)
    BY <1>3, <1>4, ViewHolds DEF Ready
  <1>6. Ready(e)
    BY <1>4, <1>5 DEF Ready
  <1> QED BY <1>6 DEF e

LEMMA StartHolds ==
    ASSUME NEW d, Ready(d), NEW k \in Int, NEW reach \in BOOLEAN, NEW l \in {"once", "twice", "never"}
    PROVE  Ready([d EXCEPT !.left = k, !.reach = reach, !.lock = l])
  <1> DEFINE a == [d EXCEPT !.left = k]
             b == [a EXCEPT !.reach = reach]
             e == [b EXCEPT !.lock = l]
  <1>1. d \in Tuner
    BY DEF Ready, Holds
  <1>2. [d EXCEPT !.left = k, !.reach = reach, !.lock = l] = e
    OBVIOUS
  <1>3. Updated(d, a, "left", k)
    BY <1>1, NumberUpdate DEF Numbers
  <1>4. a \in Tuner
    BY <1>3 DEF Updated
  <1> HIDE DEF a
  <1>5. Updated(a, b, "reach", reach)
    <2>1. "reach" \in Flags
      BY DEF Flags
    <2> QED BY <1>4, <2>1, FlagUpdate
  <1>6. b \in Tuner
    BY <1>5 DEF Updated
  <1> HIDE DEF b
  <1>7. SameView(d, b) /\ b.halfBw = d.halfBw /\ b.freq = d.freq /\ b.half = d.half /\ b.ok = d.ok
    <2>1. \A g \in Fields \ {"left", "reach"} : b[g] = d[g]
      BY <1>3, <1>5 DEF Updated
    <2> QED BY <2>1 DEF SameView, Fields, Flags, Numbers, Files
  <1>8. Holds(b)
    BY <1>6, <1>7, ViewHolds DEF Ready
  <1>9. Ready(b)
    BY <1>7, <1>8 DEF Ready
  <1>10. Ready(e)
    BY <1>9, LockHolds
  <1> QED BY <1>2, <1>10

\* The device as a call finds it.
Start(d, e) ==
    \/ \E l \in {"once", "twice", "never"} : e = [d EXCEPT !.lock = l]
    \/ \E k \in Int, reach \in BOOLEAN, l \in {"once", "twice", "never"} :
          e = [d EXCEPT !.left = k, !.reach = reach, !.lock = l]

LEMMA StartReady ==
    ASSUME NEW d, NEW e, Ready(d), Start(d, e)
    PROVE  Ready(e)
  <1>1. CASE \E l \in {"once", "twice", "never"} : e = [d EXCEPT !.lock = l]
    <2>1. PICK l \in {"once", "twice", "never"} : e = [d EXCEPT !.lock = l]
      BY <1>1
    <2>2. Ready([d EXCEPT !.lock = l])
      BY LockHolds
    <2> QED BY <2>1, <2>2
  <1>2. CASE \E k \in Int, reach \in BOOLEAN, l \in {"once", "twice", "never"} :
               e = [d EXCEPT !.left = k, !.reach = reach, !.lock = l]
    <2>1. PICK k \in Int, reach \in BOOLEAN, l \in {"once", "twice", "never"} :
            e = [d EXCEPT !.left = k, !.reach = reach, !.lock = l]
      BY <1>2
    <2>2. Ready([d EXCEPT !.left = k, !.reach = reach, !.lock = l])
      BY StartHolds
    <2> QED BY <2>1, <2>2
  <1> QED BY <1>1, <1>2 DEF Start

LEMMA AfterHolds ==
    ASSUME NEW d, Holds(d)
    PROVE  Ready(R82!AfterCall(d))
  <1> DEFINE a == [d EXCEPT !.left = -1]
             b == [a EXCEPT !.reach = FALSE]
             c == [b EXCEPT !.lock = "once"]
             e == [c EXCEPT !.ok = TRUE]
  <1>1. d \in Tuner
    BY DEF Holds
  <1>2. R82!AfterCall(d) = e
    BY DEF R82!AfterCall
  <1>3. Updated(d, a, "left", -1)
    <2>1. "left" \in Numbers /\ -1 \in Int
      BY DEF Numbers
    <2> QED BY <1>1, <2>1, NumberUpdate
  <1>4. a \in Tuner
    BY <1>3 DEF Updated
  <1> HIDE DEF a
  <1>5. Updated(a, b, "reach", FALSE)
    <2>1. "reach" \in Flags /\ FALSE \in BOOLEAN
      BY DEF Flags
    <2> QED BY <1>4, <2>1, FlagUpdate
  <1>6. b \in Tuner
    BY <1>5 DEF Updated
  <1> HIDE DEF b
  <1>7. Updated(b, c, "lock", "once")
    BY <1>6, LockUpdate
  <1>8. c \in Tuner
    BY <1>7 DEF Updated
  <1> HIDE DEF c
  <1>9. Updated(c, e, "ok", TRUE)
    <2>1. "ok" \in Flags /\ TRUE \in BOOLEAN
      BY DEF Flags
    <2> QED BY <1>8, <2>1, FlagUpdate
  <1> HIDE DEF e
  <1>10. e \in Tuner /\ e.ok = TRUE
    BY <1>9 DEF Updated
  <1>11. SameView(d, e) /\ e.halfBw = d.halfBw /\ e.freq = d.freq /\ e.half = d.half
    <2>1. \A g \in Fields \ {"left", "reach", "lock", "ok"} : e[g] = d[g]
      <3>1. \A g \in Fields \ {"left", "reach"} : b[g] = d[g]
        BY <1>3, <1>5 DEF Updated
      <3>2. \A g \in Fields \ {"lock", "ok"} : e[g] = b[g]
        BY <1>7, <1>9 DEF Updated
      <3> QED BY <3>1, <3>2
    <2> QED BY <2>1 DEF SameView, Fields, Flags, Numbers, Files
  <1>12. Holds(e)
    BY <1>10, <1>11, ViewHolds
  <1> QED BY <1>2, <1>10, <1>12 DEF Ready

-----------------------------------------------------------------------------
(***************************************************************************)
(* The invariant, and what follows from it.                                *)
(***************************************************************************)
LEMMA ReadyInit ==
    ASSUME Consts, R82!Init
    PROVE  Ready(tuner)
  <1>1. PICK r828d \in {c = "R828D" : c \in Chips}, xtal \in TunerXtals :
          tuner = [left |-> -1, reach |-> FALSE, lock |-> "once", ok |-> TRUE,
                 r828d |-> r828d, xtal |-> xtal, regs |-> R82!init_array, chip |-> R82!init_array,
                 int_freq |-> R82!Default_IF, input |-> 0, sideband |-> FALSE,
                 freq |-> 0, ds |-> FALSE, if_freq |-> R82!Default_IF, inversion |-> TRUE,
                 half |-> FALSE, halfInit |-> FALSE, halfBw |-> FALSE]
    BY DEF R82!Init
  <1>2. r828d \in BOOLEAN
    OBVIOUS
  <1>3. R82!init_array \in RegFile
    BY Arrays
  <1>4. R82!Default_IF \in Ifs /\ R82!Default_IF \in Int /\ R82!Default_IF = 3570
    BY IfRange DEF R82!Default_IF
  <1>5. 0 \in TunerFreqs \cup {0}
    OBVIOUS
  <1>6. tuner \in Tuner
    BY <1>1, <1>2, <1>3, <1>4, <1>5 DEF Tuner
  <1>7. /\ tuner.regs = R82!init_array /\ tuner.int_freq = 3570 /\ tuner.input = 0 /\ tuner.freq = 0 /\ tuner.ok
    BY <1>1, <1>4
  <1>8. Row(tuner)
    <2>1. Tail(R82!r82xx_bws[12]) = <<\h0b, \h6b, 3570>>
      BY DEF R82!r82xx_bws
    <2>2. tuner.regs.r0a = \h0b /\ tuner.regs.r0b = \h6b
      BY <1>7, Arrays
    <2> QED BY <1>7, <2>1, <2>2, Tables DEF Row
  <1>9. tuner.regs.r07 = 0 /\ tuner.regs.r05 = tuner.input
    BY <1>7, Arrays
  <1>10. Shadowed(tuner)
    BY <1>8, <1>9 DEF Shadowed
  <1>11. Programmed(tuner)
    BY <1>7 DEF Programmed
  <1> QED BY <1>6, <1>7, <1>10, <1>11 DEF Ready, Holds

LEMMA Within == \A n : \A k \in 0 .. n - 1 : k \in Int
  OBVIOUS

LEMMA ReadyStep ==
    ASSUME Consts, Ready(tuner), [R82!Next]_(R82!vars)
    PROVE  Ready(tuner')
  <1>1. CASE R82!Frequency
    <2>1. PICK f \in TunerFreqs : R82!Call(LAMBDA d : R82!SetCenterFreq(d, f))
      BY <1>1 DEF R82!Frequency
    <2>2. PICK e : Start(tuner, e) /\ tuner' = R82!AfterCall(R82!SetCenterFreq(e, f))
      BY <2>1, Within, Zenon DEF R82!Call, Start
    <2>3. Ready(e)
      BY <2>2, StartReady
    <2>4. f \in TunerFreqs \cup {0} /\ e \in Tuner /\ Shadowed(e)
      BY <2>3 DEF Ready, Holds
    <2>5. Holds(R82!SetCenterFreq(e, f))
      BY <2>4, CenterFreqHolds
    <2> QED BY <2>2, <2>5, AfterHolds
  <1>2. CASE R82!Bandwidth
    <2>1. PICK bw \in TunerBandwidths : R82!Call(LAMBDA d : R82!SetTunerBandwidth(d, bw))
      BY <1>2 DEF R82!Bandwidth
    <2>2. PICK e : Start(tuner, e) /\ tuner' = R82!AfterCall(R82!SetTunerBandwidth(e, bw))
      BY <2>1, Within, Zenon DEF R82!Call, Start
    <2>3. Ready(e)
      BY <2>2, StartReady
    <2>4. bw \in Int
      BY DEF Consts
    <2>5. Holds(R82!SetTunerBandwidth(e, bw))
      BY <2>3, <2>4, BandwidthHolds DEF Ready
    <2> QED BY <2>2, <2>5, AfterHolds
  <1>3. CASE R82!Sideband
    <2>1. PICK upper \in BOOLEAN : R82!Call(LAMBDA d : R82!SetTunerSideband(d, upper))
      BY <1>3 DEF R82!Sideband
    <2>2. PICK e : Start(tuner, e) /\ tuner' = R82!AfterCall(R82!SetTunerSideband(e, upper))
      BY <2>1, Within, Zenon DEF R82!Call, Start
    <2>3. Ready(e)
      BY <2>2, StartReady
    <2>4. Holds(R82!SetTunerSideband(e, upper))
      BY <2>3, SidebandHolds DEF Ready
    <2> QED BY <2>2, <2>4, AfterHolds
  <1>4. CASE R82!Crystal
    <2>1. PICK xtal \in TunerXtals : R82!Call(LAMBDA d : R82!SetXtal(d, xtal))
      BY <1>4 DEF R82!Crystal
    <2>2. PICK e : Start(tuner, e) /\ tuner' = R82!AfterCall(R82!SetXtal(e, xtal))
      BY <2>1, Within, Zenon DEF R82!Call, Start
    <2>3. Ready(e)
      BY <2>2, StartReady
    <2>4. Holds(R82!SetXtal(e, xtal))
      BY <2>3, XtalHolds DEF Ready
    <2> QED BY <2>2, <2>4, AfterHolds
  <1>5. CASE R82!DirectSampling
    <2>1. PICK on \in BOOLEAN : R82!Call(LAMBDA d : R82!SetDirectSampling(d, on))
      BY <1>5 DEF R82!DirectSampling
    <2>2. PICK e : Start(tuner, e) /\ tuner' = R82!AfterCall(R82!SetDirectSampling(e, on))
      BY <2>1, Within, Zenon DEF R82!Call, Start
    <2>3. Ready(e)
      BY <2>2, StartReady
    <2>4. Holds(R82!SetDirectSampling(e, on))
      BY <2>3, DirectSamplingHolds DEF Ready
    <2> QED BY <2>2, <2>4, AfterHolds
  <1>6. CASE R82!Dithering
    <2>1. PICK on \in BOOLEAN : R82!Call(LAMBDA d : R82!WriteReg(d, "r12", [d.regs.r12 EXCEPT !.dither = on]))
      BY <1>6 DEF R82!Dithering
    <2>2. PICK e : Start(tuner, e) /\ tuner' = R82!AfterCall(R82!WriteReg(e, "r12", [e.regs.r12 EXCEPT !.dither = on]))
      BY <2>1, Within, Zenon DEF R82!Call, Start
    <2>3. Ready(e)
      BY <2>2, StartReady
    <2>4. Holds(R82!WriteReg(e, "r12", [e.regs.r12 EXCEPT !.dither = on]))
      BY <2>3, DitheringHolds DEF Ready
    <2> QED BY <2>2, <2>4, AfterHolds
  <1>7. CASE UNCHANGED R82!vars
    BY <1>7 DEF R82!vars
  <1> QED BY <1>1, <1>2, <1>3, <1>4, <1>5, <1>6, <1>7 DEF R82!Next

\* Receives and PathFits say what the invariant does.
LEMMA ReadyReceives ==
    ASSUME Consts, Ready(tuner)
    PROVE  R82!Receives
  <1> SUFFICES ASSUME R82!Tuned, ~tuner.half, R82!Agreed, R82!Known({"r10", "r12"})
               PROVE  R82!VcoGives(tuner, IF tuner.inversion THEN tuner.freq + tuner.if_freq
                                                            ELSE tuner.freq - tuner.if_freq)
    BY DEF R82!Receives
  <1>1. tuner \in Tuner /\ Programmed(tuner)
    BY DEF Ready, Holds
  <1>2. PllOf(tuner, R82!LoFor(tuner, tuner.freq))
    BY <1>1 DEF Programmed, R82!Tuned
  <1>3. tuner.chip.r10 = tuner.regs.r10 /\ tuner.chip.r12 = tuner.regs.r12
    BY DEF R82!Known
  <1>4. R82!VcoGives(tuner, R82!LoFor(tuner, tuner.freq))
    BY <1>1, <1>2, <1>3, PllGives
  <1>5. R82!LoFor(tuner, tuner.freq) =
          IF tuner.sideband THEN tuner.freq - tuner.int_freq ELSE tuner.freq + tuner.int_freq
    BY <1>1, <1>2, LoIs
  <1>6. tuner.if_freq = tuner.int_freq /\ (tuner.inversion <=> ~tuner.sideband)
    BY <1>1, FlagTypes DEF R82!Agreed
  <1>7. R82!LoFor(tuner, tuner.freq) =
          IF tuner.inversion THEN tuner.freq + tuner.if_freq ELSE tuner.freq - tuner.if_freq
    BY <1>5, <1>6
  <1> QED BY <1>4, <1>7

LEMMA ReadyPathFits ==
    ASSUME Ready(tuner)
    PROVE  R82!PathFits
  <1> SUFFICES ASSUME R82!Tuned
               PROVE  LET range == R82!RangeOf(tuner.freq) IN
                      /\ tuner.chip.r1b = range[4]
                      /\ R82!Known({"r17"}) => tuner.chip.r17 = range[2]
                      /\ R82!Known({"r1a"}) => tuner.chip.r1a.mux = range[3]
                      /\ R82!Agreed /\ ~tuner.halfInit =>
                           /\ ~tuner.halfBw /\ R82!Known({"r0a", "r0b"}) =>
                                \E i \in DOMAIN R82!r82xx_bws :
                                    Tail(R82!r82xx_bws[i]) = <<tuner.chip.r0a, tuner.chip.r0b, tuner.if_freq>>
                           /\ R82!Known({"r07"}) /\ tuner.inversion => tuner.chip.r07 = 0
                           /\ tuner.r828d /\ R82!Known({"r05"}) =>
                                tuner.chip.r05 = IF tuner.freq > 345000 THEN 0 ELSE \h60
    BY DEF R82!PathFits
  <1>1. tuner \in Tuner /\ Shadowed(tuner) /\ Programmed(tuner) /\ ~tuner.ds /\ tuner.freq # 0
    BY DEF Ready, Holds, R82!Tuned
  <1>2. PathOf(tuner, tuner.freq) /\ (~tuner.halfInit /\ tuner.r828d => tuner.input = InputFor(tuner.freq))
    BY <1>1 DEF Programmed
  <1>3. /\ tuner.chip.r1b = R82!RangeOf(tuner.freq)[4]
        /\ R82!Known({"r17"}) => tuner.chip.r17 = R82!RangeOf(tuner.freq)[2]
        /\ R82!Known({"r1a"}) => tuner.chip.r1a.mux = R82!RangeOf(tuner.freq)[3]
    BY <1>2 DEF PathOf, R82!Known
  <1>4. ASSUME R82!Agreed, ~tuner.halfInit, ~tuner.halfBw, R82!Known({"r0a", "r0b"})
        PROVE  \E i \in DOMAIN R82!r82xx_bws :
                   Tail(R82!r82xx_bws[i]) = <<tuner.chip.r0a, tuner.chip.r0b, tuner.if_freq>>
    <2>1. tuner.chip.r0a = tuner.regs.r0a /\ tuner.chip.r0b = tuner.regs.r0b /\ tuner.if_freq = tuner.int_freq
      BY <1>4 DEF R82!Known, R82!Agreed
    <2>2. Row(tuner)
      BY <1>1, <1>4 DEF Shadowed
    <2> QED BY <2>1, <2>2 DEF Row
  <1>5. ASSUME R82!Agreed, R82!Known({"r07"}), tuner.inversion
        PROVE  tuner.chip.r07 = 0
    <2>1. ~tuner.sideband
      BY <1>1, <1>5, FlagTypes DEF R82!Agreed
    <2> QED BY <1>1, <1>5, <2>1 DEF Shadowed, R82!Known
  <1>6. ASSUME ~tuner.halfInit, tuner.r828d, R82!Known({"r05"})
        PROVE  tuner.chip.r05 = IF tuner.freq > 345000 THEN 0 ELSE \h60
    BY <1>1, <1>2, <1>6 DEF Shadowed, R82!Known, InputFor
  <1> QED BY <1>3, <1>4, <1>5, <1>6

\* The bound of a run.
LEMMA FailuresStep ==
    ASSUME Consts, failures \in 0 .. MaxFailures, [R82!Next]_(R82!vars)
    PROVE  failures' \in 0 .. MaxFailures
  <1>1. MaxFailures \in Nat
    BY DEF Consts
  <1>2. failures' = failures \/ (failures < MaxFailures /\ failures' = failures + 1)
    <2>1. CASE R82!Frequency
      BY <2>1 DEF R82!Frequency, R82!Call
    <2>2. CASE R82!Bandwidth
      BY <2>2 DEF R82!Bandwidth, R82!Call
    <2>3. CASE R82!Sideband
      BY <2>3 DEF R82!Sideband, R82!Call
    <2>4. CASE R82!Crystal
      BY <2>4 DEF R82!Crystal, R82!Call
    <2>5. CASE R82!DirectSampling
      BY <2>5 DEF R82!DirectSampling, R82!Call
    <2>6. CASE R82!Dithering
      BY <2>6 DEF R82!Dithering, R82!Call
    <2>7. CASE UNCHANGED R82!vars
      BY <2>7 DEF R82!vars
    <2> QED BY <2>1, <2>2, <2>3, <2>4, <2>5, <2>6, <2>7 DEF R82!Next
  <1> QED BY <1>1, <1>2

LEMMA ReadyTypes ==
    ASSUME Consts, Ready(tuner), failures \in 0 .. MaxFailures
    PROVE  R82!TypeOK
  <1>1. tuner \in Tuner
    BY DEF Ready, Holds
  <1>2. DOMAIN tuner.regs = DOMAIN R82!init_array /\ DOMAIN tuner.chip = DOMAIN R82!init_array
    <2>1. tuner.regs \in RegFile /\ tuner.chip \in RegFile /\ R82!init_array \in RegFile
      BY <1>1, TunerTypes, Arrays
    <2> QED BY <2>1 DEF RegFile
  <1>3. /\ tuner.freq \in TunerFreqs \cup {0} /\ tuner.xtal \in TunerXtals
        /\ tuner.int_freq \in {R82!r82xx_bws[i][4] : i \in DOMAIN R82!r82xx_bws}
    BY <1>1, TunerTypes DEF Ifs
  <1>4. /\ {tuner.r828d, tuner.ok, tuner.ds, tuner.sideband, tuner.inversion} \subseteq BOOLEAN
        /\ {tuner.half, tuner.halfInit, tuner.halfBw} \subseteq BOOLEAN
    BY <1>1, FlagTypes
  <1> QED BY <1>2, <1>3, <1>4 DEF R82!TypeOK

LEMMA ReadyAlways ==
    ASSUME Consts
    PROVE  R82!Spec => [](Ready(tuner) /\ failures \in 0 .. MaxFailures)
  <1>1. R82!Init => Ready(tuner) /\ failures \in 0 .. MaxFailures
    <2>1. R82!Init => failures = 0
      BY DEF R82!Init
    <2>2. 0 \in 0 .. MaxFailures
      BY DEF Consts
    <2> QED BY <2>1, <2>2, ReadyInit
  <1>2. Ready(tuner) /\ failures \in 0 .. MaxFailures /\ [R82!Next]_(R82!vars)
          => (Ready(tuner) /\ failures \in 0 .. MaxFailures)'
    BY ReadyStep, FailuresStep
  <1> QED BY <1>1, <1>2, PTL DEF R82!Spec

\* Whatever fails, the driver's state stays what its functions expect of it: the frequency
\* is one that was asked for or none, the IF one of the table, each register what it holds.
THEOREM ShadowTypeCorrect == ASSUME R82!ConstantsAssumption PROVE R82!Spec => []R82!TypeOK
  <1>1. Ready(tuner) /\ failures \in 0 .. MaxFailures => R82!TypeOK
    BY ReadyTypes DEF Consts
  <1> QED BY <1>1, ReadyAlways, PTL DEF Consts

\* After any sequence of setters and of failing transfers, the LO the chip's registers give
\* and the IF together receive the frequency that is reported: within half a step of the
\* PLL's resolution, as long as the registers that the driver writes by fields are known, and
\* the demodulator was told the tuner's IF and sideband.
THEOREM FailuresReceive == ASSUME R82!ConstantsAssumption PROVE R82!Spec => []R82!Receives
  <1>1. Ready(tuner) => R82!Receives
    BY ReadyReceives DEF Consts
  <1> QED BY <1>1, ReadyAlways, PTL DEF Consts

\* Nor do they detune the path before the mixer: multiplexer, tracking and IF filters, the
\* sideband and the R828D's input fit the frequency.
THEOREM FailuresKeepPath == ASSUME R82!ConstantsAssumption PROVE R82!Spec => []R82!PathFits
  <1>1. Ready(tuner) => R82!PathFits
    BY ReadyPathFits
  <1> QED BY <1>1, ReadyAlways, PTL DEF Consts
=============================================================================
