------------------------------ MODULE MtcMariko -------------------------------
(***************************************************************************)
(* The RAM tables the loader builds for a Mariko (pcv/pcv_mariko.cpp,      *)
(* mariko/calculate_timings.cpp, mariko/timing_tables.cpp): the list of    *)
(* clocks, the voltages that go with them, latencies, timings and the      *)
(* registers computed from them.                                           *)
(*                                                                         *)
(* Times are in ns/1000 and clocks in kHz.  The doubles of the code are    *)
(* exact fractions here: a time t at clock f takes t * f / 10^9 cycles,    *)
(* and with every clock a multiple of 200 kHz that is t * G(f) / One.      *)
(***************************************************************************)
EXTENDS Customize, TLC

G(khz) == khz \div 200
One    == 5000000

Ceil(a, b) == -((-a) \div b)
\* floor(a * n / d) without the product.
MulDiv(a, n, d) == (a \div d) * n + ((a % d) * n) \div d

\* GET_CYCLE_CEIL, and the rounding down.
Cycles(khz, t) == Ceil(t * G(khz), One)
Floor(khz, t)  == (t * G(khz)) \div One
CyclesNs(khz, ns) == Ceil(ns * G(khz), 5000)

EmcClkOSLimit == 1600000

-------------------------------------------------------------------------------
(* The list of clocks (newEmcList).                                        *)

EmcListDefault      == {204000, 1331200, 1600000}
DvfsTableEntryLimit == 31

jedecFreqs == {1866000, 1996000, 2133000, 2400000, 2666000, 2933000, 3200000}
stepFreqs133 ==
    {1733000, 1866000, 2000000, 2133000, 2266000, 2400000, 2533000, 2666000,
     2800000, 2933000, 3066000, 3200000, 3333000, 3466000}

UpTo(freqs, max) == {f \in freqs : f <= max} \cup {max}

\* The lists keep their first DvfsTableEntryLimit clocks.
Resized(freqs) ==
    {f \in freqs : Cardinality({g \in freqs : g < f}) < DvfsTableEntryLimit}

MtcGenerateJedecTable(max)   == Resized(EmcListDefault \cup UpTo(jedecFreqs, max))
MtcGenerate133StepTable(max) == Resized(EmcListDefault \cup UpTo(stepFreqs133, max))
MtcGenerateStepTable(max, stepRate) ==
    LET freqs == {((EmcClkOSLimit + i * stepRate) \div 1000) * 1000 :
                      i \in 1..((max - EmcClkOSLimit) \div stepRate + 1)}
    IN  Resized(EmcListDefault \cup UpTo(freqs, max))

\* Mutant: the last clock is the last step.
MtcGenerateFreqTablesSteps(c) ==
    LET max == c["marikoEmcMaxClock"]
    IN  IF max <= EmcClkOSLimit THEN {}
        ELSE {f \in MtcGenerateStepTable(max, 66667) : f < max}

MtcGenerateFreqTables(c) ==
    LET max == c["marikoEmcMaxClock"]
    IN  IF max <= EmcClkOSLimit THEN {}
        ELSE CASE c["stepMode"] = 1 -> MtcGenerateStepTable(max, 100000)
               [] c["stepMode"] = 2 -> MtcGenerateJedecTable(max)
               [] c["stepMode"] = 3 -> MtcGenerate133StepTable(max)
               [] OTHER             -> MtcGenerateStepTable(max, 66667)

-------------------------------------------------------------------------------
(* The voltages of the clocks (MemFreqDvbTable), for the three process     *)
(* ids, and the limits of the SoC rail.                                    *)

\* Clock, then the voltages before the shift.
emcDvbOcTableBrackets ==
    { <<1866000, 700, 675, 650>>, <<2133000, 725, 700, 675>>,
      <<2246000, 750, 725, 700>>, <<2400000, 775, 750, 725>>,
      <<2466000, 800, 775, 750>>, <<2533000, 810, 785, 760>>,
      <<2566000, 820, 795, 770>>, <<2600000, 830, 805, 780>>,
      <<2633000, 840, 815, 790>>, <<2666000, 850, 825, 800>>,
      <<2700000, 860, 835, 810>>, <<2733000, 870, 845, 820>>,
      <<2766000, 880, 855, 830>>, <<2800000, 895, 865, 840>>,
      <<2833000, 900, 875, 850>>, <<2866000, 910, 885, 860>>,
      <<2900000, 920, 895, 870>>, <<2933000, 950, 905, 880>>,
      <<2966000, 960, 915, 890>>, <<3000000, 970, 925, 900>>,
      <<3033000, 980, 940, 910>>, <<3066000, 1000, 955, 920>>,
      <<3100000, 1010, 990, 930>>, <<3133000, 1025, 1005, 940>>,
      <<3166000, 1035, 1015, 950>>, <<3200000, 1050, 1025, 960>> }

Stock(processId) ==
    { <<204000, 637>>,
      <<1331200, IF processId = 0 THEN 650 ELSE 637>>,
      <<1600000, CASE processId = 0 -> 675 [] processId = 1 -> 650 [] OTHER -> 637>> }

Clamp(v, lo, hi) == IF v < lo THEN lo ELSE IF v > hi THEN hi ELSE v

MaxVolt(c, processId) ==
    IF c["marikoSocVmax"] > 1000 THEN c["marikoSocVmax"]
    ELSE <<1050, 1025, 1000>>[processId + 1]

\* Mutant: the limit of the rail is left out.
DvbVoltUncapped(c, processId, volt) == Clamp(volt + 25 * c["emcDvbShift"], 637, 1300)

DvbVolt(c, processId, volt) ==
    Clamp(volt + 25 * c["emcDvbShift"], 637, MaxVolt(c, processId))

\* The voltage of a clock: that of the highest bracket it reaches.
MemFreqDvbTable(c, processId, khz) ==
    LET shifted == {<<b[1], DvbVolt(c, processId, b[processId + 2])>> :
                        b \in emcDvbOcTableBrackets}
        reached == {b \in Stock(processId) \cup shifted : b[1] <= khz}
    IN  (CHOOSE b \in reached : \A d \in reached : d[1] <= b[1])[2]

GetSocProcessId(socSpeedo) ==
    IF socSpeedo <= 1597 THEN 0 ELSE IF socSpeedo <= 1708 THEN 1 ELSE 2

\* What PCV takes for the limit of the rail: its own by process id, or the
\* patched one for every id (SocVoltAsm).
SocVoltAsm(c, processId) ==
    IF c["marikoSocVmax"] <= 1000 THEN <<1050, 1025, 1000>>[processId + 1]
    ELSE c["marikoSocVmax"]

\* The voltages the rail can be set to (SocVoltLimit); 32 words hold them.
SocVoltLimitOfficial == 1050
SocVoltLimit(c) ==
    {637} \cup Steps(650, SocVoltLimitOfficial, 25)
      \cup (IF c["marikoSocVmax"] <= SocVoltLimitOfficial THEN {}
            ELSE {v \in Steps(1075, SocVoltLimitOfficial + 25 * 14, 25) :
                      v <= (c["marikoSocVmax"] \div 25) * 25})

-------------------------------------------------------------------------------
(* Latencies.  A latency array has a highest clock for each of the four    *)
(* latencies, 0 for the ones not used.                                     *)

GetMaxLatencyIndex(latencyArray) ==
    LET used == {i \in 0..3 : latencyArray[i] # 0}
    IN  IF used = {} THEN -1 ELSE Max(used)

AutoLatency(khz) == IF khz > 1600000 /\ khz <= 1866000 THEN 2 ELSE 3

\* Mutant: an unused latency is taken for one that is high enough.
HandleLatencyUnused(khz, latencyArray) ==
    LET indexMax == GetMaxLatencyIndex(latencyArray)
        enough   == {i \in 0..indexMax : latencyArray[i] = 0 \/ khz <= latencyArray[i]}
    IN  IF indexMax = -1 THEN AutoLatency(khz)
        ELSE IF enough = {} THEN indexMax ELSE Max(enough)

\* The index of the latency a clock gets.
HandleLatency(khz, latencyArray) ==
    LET indexMax == GetMaxLatencyIndex(latencyArray)
        enough   == {i \in 0..indexMax : latencyArray[i] # 0 /\ khz <= latencyArray[i]}
    IN  IF indexMax = -1 THEN AutoLatency(khz)
        ELSE IF enough = {} THEN indexMax ELSE Min(enough)

ReadLatency(khz, latencyArray)  == 28 + 4 * HandleLatency(khz, latencyArray)
WriteLatency(khz, latencyArray) == 12 + 2 * HandleLatency(khz, latencyArray)

rlMapDBI  == <<6, 12, 16, 22, 28, 32, 36, 40>>
wlMapSetA == <<4, 6, 8, 10, 12, 14, 16, 18>>

\* The index of a latency in a map, 0 for one that is not there.
IndexIn(map, latency) ==
    LET found == {i \in DOMAIN map : map[i] = latency}
    IN  IF found = {} THEN 0 ELSE Min(found) - 1
CalculateMrw2(RL, WL) == IndexIn(rlMapDBI, RL) + 8 * IndexIn(wlMapSetA, WL)

-------------------------------------------------------------------------------
(* Timings.                                                                *)

tRCD_values   == <<18, 17, 16, 15, 14, 13, 12, 11>>
tRP_values    == tRCD_values
tRAS_values   == <<42, 36, 34, 32, 30, 28, 26, 24, 22, 20>>
tRRD_values   == <<7500, 6000, 5000, 4000, 3000, 2000, 1000>>
tRFC_values   == <<140, 130, 120, 110, 100, 90, 80, 70, 60, 50, 40>>
tWTR_values   == <<10, 9, 8, 7, 6, 5, 4, 3, 2, 1>>
tREFpb_values == <<3900, 5850, 7800, 11700, 15600, 99999>>

\* FindRext looks at the highest clock, whatever the clock of the table is.
g_rext_table ==
    [f \in Steps(2133000, 2133000, 1) |-> 26] @@ [f \in {2166000, 2200000, 2233000} |-> 25]
      @@ [f \in {2266000, 2500000} |-> 26] @@ [f \in {2533000, 2700000, 2733000, 2933000,
                                                      3166000, 3200000} |-> 28]
      @@ [f \in {2300000, 2333000, 2366000, 2400000, 2433000, 2466000, 2566000,
                 2600000, 2633000, 2666000} |-> 27]
      @@ [f \in {2766000, 2800000, 2833000, 2866000, 2900000, 2966000, 3000000,
                 3033000, 3066000, 3100000, 3133000} |-> 29]
FindRext(maxClock) ==
    LET enough == {f \in DOMAIN g_rext_table : f >= maxClock}
    IN  IF enough = {} THEN 30 ELSE g_rext_table[Min(enough)]

\* The reductions in force: the low ones under the break, and a cap on the
\* one of tRP at the lowest write latency.
Reductions(c, khz, WL) ==
    LET low == khz < c["timingEmcTbreak"]
    IN  [tRP  |-> IF WL = 12 THEN Min({c["t2_tRP_cap"], c["t2_tRP"]}) ELSE c["t2_tRP"],
         tRTW |-> IF low THEN c["low_t6_tRTW"] ELSE c["t6_tRTW"],
         tWTR |-> 10 - tWTR_values[1 + IF low THEN c["low_t7_tWTR"] ELSE c["t7_tWTR"]]]

\* CalculateTimings, in cycles where the code has cycles and in ns for the
\* first line.  WL - RL is unsigned and wraps, so the larger term of tW2R is
\* always 1.964.
CalculateTimings(c, khz, RL, WL) ==
    LET r    == Reductions(c, khz, WL)
        g    == G(khz)
        tRCD == tRCD_values[1 + c["t1_tRCD"]]    tRPpb == tRP_values[1 + r.tRP]
        tRAS == tRAS_values[1 + c["t3_tRAS"]]    tRRD  == tRRD_values[1 + c["t4_tRRD"]]
        tRFCpb == tRFC_values[1 + c["t5_tRFC"]]
        tRTM == (10 + RL) + Floor(khz, 3502) + Floor(khz, 7489)
        rdv  == RL + (5105 * g + 17017 * 5000) \div One
        quse == RL + (5082 * g) \div One + Floor(khz, 2560) - Cycles(khz, 4820)
        quse_width == Ceil(4897 * g + 3782 * 5000, One) - Floor(khz, 2538)
        einput == quse - Cycles(khz, 9928)
        einput_duration == Floor(khz, 9936) + 5 + quse_width
        fast == 399 * g >= One                            \* tCK of at most 0.399 ns
        qrst_duration == IF fast THEN 8 ELSE 7
        qrstLow == Max({einput - qrst_duration - 2, 0})
        tW2P == Ceil(WL * 17303, 10000) * 2 - 5
        w    == Max({251 * g + 282500, WL * 250000 - 491000})
    IN  [tRCD |-> tRCD, tRPpb |-> tRPpb, tRAS |-> tRAS, tRRD |-> tRRD,
         tRC |-> tRAS + tRPpb, tRFCpb |-> tRFCpb, tRFCab |-> 2 * tRFCpb,
         tFAW |-> 4 * tRRD, tRPab |-> tRPpb + 3, tXSR |-> 2 * tRFCpb * 1000 + 7500,
         tR2P |-> Ceil(RL * 426 - 2000, 1000),
         tR2W |-> (((5000 * g + ((48 \div WL) * 1000 - 478) * 15000) \div One) * 1000)
                    \div 1501 + RL - 3 * r.tRTW + c["t6_tRTW_fine_tune"],
         tRTM |-> tRTM, tRATM |-> Ceil((tRTM - 10) * 1000 + RL * 426, 1000),
         rdv |-> rdv, qpop |-> rdv - 14, quse |-> quse, quse_width |-> quse_width,
         einput |-> einput, einput_duration |-> einput_duration,
         qrst |-> qrstLow, ibdly |-> quse - qrst_duration - 2,
         qsafe |-> einput_duration + 3
                     + Max({Min({qrstLow * rdv, 2 * qrst_duration}), einput}),
         tW2P |-> tW2P,
         tWTPDEN |-> Ceil(1803 * g + Max({RL * One + 2694 * g, tW2P * One}), One) + 8,
         tW2R |-> MulDiv(w, 491, 250000) \div 250 + WL - Ceil(r.tWTR * g, 5000)
                    + c["t7_tWTR_fine_tune"],
         tWTM |-> Ceil(7570 * g + 8753 * 5000, One) + WL,
         tWATM |-> Ceil(7570 * g + 8753 * 5000, One) + WL
                     + ((WL * 1000) \div 816) * 2 - 4,
         wev |-> 10 + (WL - 14),
         obdlySteps |-> Min({2, ((WL - 7) * 1000000) \div khz}),
         obdlyLow |-> Max({WL - (IF fast THEN 14 ELSE 12), 0}),
         pdex2rw |-> (IF 335 * g > One THEN 13 ELSE 12) + Cycles(khz, 7430)
                       - Ceil(11361000, khz),
         tCLKSTOP |-> Min({Floor(khz, 8488), 23}) + 8,
         pdex2mrr |-> tRCD + 3000000 \div khz + 10]

-------------------------------------------------------------------------------
(* Registers that are more than a timing in cycles (MemMtcTableAutoAdjust).*)

\* Mutant: the counter is not kept within its 16 bits.
refresh_rawWide(c, khz) ==
    IF c["t8_tREFI"] = 6 THEN 65535
    ELSE Ceil(tREFpb_values[1 + c["t8_tREFI"]] * G(khz), 5000) - 64

refresh_raw(c, khz) ==
    IF c["t8_tREFI"] = 6 THEN 65535
    ELSE Min({Ceil(tREFpb_values[1 + c["t8_tREFI"]] * G(khz), 5000) - 64, 65535})

\* The registers of the timings in cycles, with the largest values some take.
EmcRegisters(c, t, khz) ==
    LET cycles(ns) == CyclesNs(khz, ns)
    IN  [rcd |-> cycles(t.tRCD), rp |-> cycles(t.tRPpb),
         rc |-> Min({cycles(t.tRC), 185}), ras |-> Min({cycles(t.tRAS), 127}),
         rrd |-> Cycles(khz, t.tRRD), tfaw |-> Cycles(khz, t.tFAW),
         rfcpb |-> cycles(t.tRFCpb), rfc |-> cycles(t.tRFCab),
         txsr |-> Min({Ceil((t.tXSR \div 500) * G(khz), 10000), 1022}),
         trpab |-> Min({cycles(t.tRPab), 63}),
         refresh |-> refresh_raw(c, khz),
         pre_refresh_req_cnt |-> refresh_raw(c, khz) \div 4,
         trefbw |-> Min({refresh_raw(c, khz) + 64, 16383})]

\* The memory controller counts in fours of cycles.
Arb(cycles) == Ceil(cycles, 4)
ArbTimings(t, khz) ==
    LET arb(ns) == Arb(CyclesNs(khz, ns))
    IN  [rcd |-> arb(t.tRCD) - 2, rp |-> arb(t.tRPpb) - 1,
         rc |-> arb(t.tRC) - 1, ras |-> arb(t.tRAS) - 2,
         faw |-> Arb(Cycles(khz, t.tFAW)) - 1, rrd |-> Arb(Cycles(khz, t.tRRD)) - 1,
         rfcpb |-> arb(t.tRFCpb) - 1, rap2pre |-> Arb(t.tR2P),
         wap2pre |-> Arb(t.tW2P) + 2, r2w |-> Arb(t.tR2W) + 1,
         w2r |-> Arb(t.tW2R) + 1]

\* The fields of da_turns and da_covers, each a byte.
DaFields(a) ==
    [r2w |-> a.r2w \div 2, w2r |-> a.w2r \div 2, rc |-> a.rc \div 2,
     r |-> (a.rap2pre + a.rp + a.rcd) \div 2, w |-> (a.wap2pre + a.rp + a.rcd) \div 2]

\* The latency allowances, bytes too, of 204800, 40000, 46400, 38400 and 35200.
Allowances(khz) == {x \div (khz \div 1000) : x \in {204800, 40000, 46400, 38400, 35200}}

-------------------------------------------------------------------------------
(* The dividers of the RAM's PLL (MemMtcPllmbDivisor): the oscillator of   *)
(* 38.4 MHz, halved or not, times divn + 1/2 + a fraction of 8192ths.      *)

Truncate(a, b) == IF a < 0 THEN -((-a) \div b) ELSE a \div b
\* (khz / step - n - 0.5) * 8192, as an s32.
Fraction(khz, step, n) == Truncate((2 * (khz - n * step) - step) * 4096, step)

\* Mutant: the half that the multiplier adds by itself is not taken off.
MemMtcPllmbDivisorWhole(khz) ==
    [divm |-> 1, divn |-> khz \div 38400,
     fraction |-> Fraction(khz, 38400, khz \div 38400) + 4096]

MemMtcPllmbDivisor(khz) ==
    LET half   == (khz \div 19200) % 256
        halved == /\ khz % 38400 > khz - 19200 * half
                  /\ Fraction(khz, 19200, half) # 0
        divm   == IF halved THEN 2 ELSE 1
        step   == 38400 \div divm
        divn   == (khz \div step) % 256
    IN  [divm |-> divm, divn |-> divn, fraction |-> Fraction(khz, step, divn)]
==============================================================================
