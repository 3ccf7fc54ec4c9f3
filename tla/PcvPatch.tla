------------------------------- MODULE PcvPatch -------------------------------
(***************************************************************************)
(* What the loader writes into PCV and PTM (pcv/pcv.hpp, pcv/pcv.cpp,      *)
(* pcv/pcv_mariko.cpp, pcv/pcv_erista.cpp, ptm/ptm.cpp), place by place.   *)
(***************************************************************************)
EXTENDS MtcMariko, SequencesExt

-------------------------------------------------------------------------------
(* Clocks and voltages of the CPU and the GPU.                             *)

\* Mutant: the highest clock is not in the list.
allowedCpuMaxFrequenciesShort == {1963500} \cup Steps(2091000, 2601000, 102000)

allowedCpuMaxFrequencies == {1963500} \cup Steps(2091000, 2703000, 102000)
CapCpuClock(c) ==
    Max({1963500} \cup {f \in allowedCpuMaxFrequencies : f <= c["marikoCpuMaxClock"]})
CpuFreqVdd(c) ==
    IF c["marikoCpuUVHigh"] # 0 THEN CapCpuClock(c)
    ELSE GetDvfsTableLastEntry(marikoCpuDvfsTable)

\* Mutant: one entry of the old table too many stays.
CopiedShort(old, new) ==
    LET o == Ascending(old)
        n == Ascending(new)
    IN  IF Len(n) >= Len(o) THEN n
        ELSE SubSeq(n, 1, Len(n) - 1) \o SubSeq(o, Len(n) - 1, Len(o) - 1)

\* A new table is copied over the old one, from its head: where it is shorter
\* the last entries of the old one stay.
Copied(old, new) ==
    LET o == Ascending(old)
        n == Ascending(new)
    IN  IF Len(n) >= Len(o) THEN n ELSE n \o SubSeq(o, Len(n) + 1, Len(o))

CpuFreqCvbTable(soc, c) == Copied(CpuCvbTableDefault(soc), CpuTable(soc, c))
\* The clocks whose PLL voltage becomes the highest the user allows.
CpuMaxVoltClocks(c) ==
    {f \in CpuTable("Mariko", c) : c["marikoCpuMaxVolt"] # 0 /\ f >= 2091000}

GpuFreqClocks(soc, c) == Copied(GpuCvbTableDefault(soc), GpuTable(soc, c))

\* The voltage of a GPU clock, in mV: the user's own, or one computed by PCV
\* that the loader lowers.
GpuFreqCvbTable(gpuUV, offset, own) ==
    LET again == IF gpuUV = 0 THEN offset ELSE 0
    IN  IF own # 0 THEN [auto |-> FALSE, volt |-> own - again]
                   ELSE [auto |-> TRUE, volt |-> -(offset + again)]

GpuFreqMaxAsm(soc, c) == GetDvfsTableLastEntry(GpuTable(soc, c))

\* Limits that a setting of 0 leaves alone; the stock ones are 610 and 800 mV
\* for a Mariko's GPU, 620, 850 and 1120 mV for its CPU.
Set(value, stock) == IF value = 0 THEN stock ELSE value
\* Mutant: minimum and maximum trade places.
GpuVoltDVFSSwapped(c) ==
    [min |-> Set(c["marikoGpuVmax"], 800), max |-> Set(c["marikoGpuVmin"], 610)]

GpuVoltDVFS(c) == [min |-> Set(c["marikoGpuVmin"], 610), max |-> Set(c["marikoGpuVmax"], 800)]
GpuVoltThermals(c) == Set(c["marikoGpuVmin"], 610)
CpuVoltDVFS(c) == [min |-> Set(c["marikoCpuLowVmin"], 620),
                   high |-> Set(c["marikoCpuHighVmin"], 850),
                   max |-> Set(c["marikoCpuMaxVolt"], 1120)]
\* Four limits of temperature: the lower two have the low minimum.
CpuVoltThermals(c) ==
    [min |-> Set(c["marikoCpuLowVmin"], 620), max |-> Set(c["marikoCpuMaxVolt"], 1120)]

\* Erista: 825 and 1227 mV for the CPU, 810 mV for the GPU.  An undervolt
\* also lowers the minimum of the high range, to no voltage where none is set.
CpuVoltDvfsErista(c) ==
    [min |-> Set(c["eristaCpuVmin"], 825), max |-> Set(c["eristaCpuMaxVolt"], 1227),
     high |-> IF c["eristaCpuUV"] # 0 THEN c["eristaCpuVmin"] ELSE 825]
CpuVoltThermalsErista(c) ==
    [min |-> Set(c["eristaCpuVmin"], 825), max |-> Set(c["eristaCpuMaxVolt"], 1227)]
GpuVoltDVFSErista(c)     == Set(c["eristaGpuVmin"], 810)
GpuVoltThermalsErista(c) == Set(c["eristaGpuVmin"], 810)

\* Regulators move in steps: RAM voltages are rounded down, VDDQ up.
MemVoltHandler(c) == (c["commonEmcMemVolt"] \div 12500) * 12500
EmcVddqVolt(c)    == Ceil(c["marikoEmcVddqVolt"], 5000) * 5000

-------------------------------------------------------------------------------
(* The undervolt levels of the CPU's DFLL: words of a tuning.              *)

StockTune == [tune0_low |-> \hFFCF, tune0_high |-> 0,
              tune1_low |-> \h12207FF, tune1_high |-> \h3FFF7FF]

HighTune(level) ==
    [tune0_high |-> CASE level = 1 -> \hFFFF [] level \in 2..6 -> \hFFDF [] OTHER -> \hDFFF,
     tune1_high |-> <<0, \h27207FF, \h27307FF, \h27407FF, \h27707FF, \h27807FF,
                      \h27B07FF, \h27B07FF, \h27C07FF, \h27D07FF, \h27E07FF,
                      \h27F07FF>>[level]]

LowTune(level) ==
    [tune0_low |-> CASE level = 1 -> \hFFA0 [] level = 3 -> \hFFDF [] level = 4 -> \hFFFF
                     [] level >= 8 -> \hDFFF [] OTHER -> StockTune.tune0_low,
     tune1_low |-> IF level <= 4 THEN \h21107FF
                   ELSE IF level <= 7 THEN \h21607FF ELSE \h21707FF]

\* The low level tunes both ranges, the high level then the high one.
CpuVoltDfll(low, high) ==
    LET l == IF low \in 1..12
             THEN [n \in DOMAIN StockTune |->
                      IF n \in {"tune0_low", "tune1_low"} THEN LowTune(low)[n]
                                                          ELSE HighTune(low)[n]]
             ELSE StockTune
    IN  IF high \in 1..12
        THEN [n \in DOMAIN l |-> IF n \in {"tune0_high", "tune1_high"}
                                 THEN HighTune(high)[n] ELSE l[n]]
        ELSE l

\* Erista has levels for the high range only.
CpuVoltDfllErista(level) ==
    IF level \in 1..5
    THEN << <<\hFFFF, \hEFFF, \hDFFF, \hDFDF, \hCFDF>>[level],
            <<\h27007FF, \h27407FF, \h27807FF, \h27A07FF, \h37007FF>>[level] >>
    ELSE <<0, 0>>

-------------------------------------------------------------------------------
(* PTM's table of performance modes: an entry has a CPU and a RAM clock.   *)

cpuPtmDefault == 1020000
cpuPtmDevOC   == 1224000
cpuPtmBoost   == 1785000
memPtmLimit   == 1600000
memPtmAlt     == 1331200
memPtmClamp   == 1065600

\* Mutant: the clock of the other SoC.
CpuPtmBoostMariko(soc, c) == c["marikoCpuBoostClock"]

CpuPtmBoost(soc, c) ==
    IF c["eristaCpuBoostClock"] = 0 \/ c["marikoCpuBoostClock"] = 0 THEN cpuPtmBoost
    ELSE IF soc = "Mariko" THEN c["marikoCpuBoostClock"] ELSE c["eristaCpuBoostClock"]

\* The entry after the patch.
PtmEntry(soc, c, entry) ==
    [cpu |-> IF entry.cpu = cpuPtmBoost THEN CpuPtmBoost(soc, c) ELSE entry.cpu,
     mem |-> IF soc = "Mariko" THEN memPtmLimit ELSE entry.mem]

\* The loader gives up on clocks it does not know, on more than two entries
\* of boost mode, and on none.
PtmPanics(table) ==
    \/ \E i \in DOMAIN table :
           \/ table[i].cpu \notin {cpuPtmDefault, cpuPtmDevOC, cpuPtmBoost}
           \/ table[i].mem \notin {memPtmLimit, memPtmAlt, memPtmClamp}
    \/ Cardinality({i \in DOMAIN table : table[i].cpu = cpuPtmBoost}) \notin 1..2
PtmPatch(soc, c, table) == [i \in DOMAIN table |-> PtmEntry(soc, c, table[i])]

-------------------------------------------------------------------------------
(* Dram ids and PCV's 17 RAM tables.                                       *)

\* The index of the table for a dram id.
mtcIndexTable ==
    [id \in {3, 5, 6} |-> 12] @@ [id \in {8, 12} |-> 1] @@ [id \in {9, 13} |-> 13]
      @@ [id \in {10, 14} |-> 3] @@ [id \in {11, 15} |-> 11] @@ [id \in {17, 19, 24} |-> 8]
      @@ [id \in {18, 23, 28} |-> 9] @@ [id \in {20} |-> 14] @@ [id \in {21, 22} |-> 13]
      @@ [id \in {25, 26, 27} |-> 4] @@ [id \in {29, 30, 31} |-> 15]
      @@ [id \in {32, 33, 34} |-> 16]
MtcTableIndex_Invalid == 17
GetMtcDramIndex(id) ==
    IF id \in DOMAIN mtcIndexTable THEN mtcIndexTable[id] ELSE MtcTableIndex_Invalid

-------------------------------------------------------------------------------
(* The RAM tables of an Erista (pcv/pcv_erista.cpp,                         *)
(* erista/calculate_timings_erista.cpp), in the units of MtcMariko.        *)

EristaKhzList ==
    <<40800, 68000, 102000, 204000, 408000, 665600, 800000, 1065600, 1331200, 1600000>>

\* maxEmcClocks, sorted.
SortedClocks(clocks) == SortSeq(clocks, LAMBDA a, b : a < b)
maxEmcClocks(c) ==
    <<c["eristaEmcMaxClock2"], c["eristaEmcMaxClock1"], c["eristaEmcMaxClock"]>>

\* Mutant: equal clocks are kept.
OcClocksAll(sorted) ==
    [i \in 1..3 |-> IF sorted[i] > EmcClkOSLimit THEN sorted[i] ELSE 0]

\* The clocks that get a table: of equal ones the last, none up to 1600 MHz;
\* the others become 0 in the array.
OcClocks(sorted) ==
    [i \in 1..3 |->
        IF i = 3 \/ (sorted[i] # sorted[i + 1] /\ sorted[i] > EmcClkOSLimit)
        THEN sorted[i] ELSE 0]

\* One pass over one of PCV's tables: the array it leaves behind, and the
\* rates.  The lowest ones make room for the new ones.
MemFreqMtcTableErista(clocks) ==
    LET sorted == SortedClocks(clocks)
        oc     == OcClocks(sorted)
        new    == SelectSeq(oc, LAMBDA f : f # 0)
    IN  IF sorted[3] <= EmcClkOSLimit
        THEN [clocks |-> sorted, rates |-> EristaKhzList]
        ELSE [clocks |-> oc,
              rates  |-> SubSeq(EristaKhzList, Len(new) + 1, Len(EristaKhzList)) \o new]

-------------------------------------------------------------------------------

tRRD_valuesErista == <<10000, 7500, 6000, 5000, 4000, 3000, 2000, 1000>>
tRFC_valuesErista == <<90, 80, 70, 60, 50, 40>>

\* The constants of pcv::erista, which no clock changes.
EristaTimings(c) ==
    LET RL    == c["mem_burst_read_latency"]
        WL    == c["mem_burst_write_latency"]
        tRCD  == tRCD_values[1 + c["t1_tRCD"]]   tRPpb == tRP_values[1 + c["t2_tRP"]]
        tRAS  == tRAS_values[1 + c["t3_tRAS"]]   tRRD  == tRRD_valuesErista[1 + c["t4_tRRD"]]
        tRFCpb == tRFC_valuesErista[1 + c["t5_tRFC"]]
    IN  [tRCD |-> tRCD, tRPpb |-> tRPpb, tRAS |-> tRAS, tRRD |-> tRRD,
         tRC |-> tRAS + tRPpb, tRFCpb |-> tRFCpb, tRFCab |-> 2 * tRFCpb,
         tFAW |-> 4 * tRRD, tRPab |-> tRPpb + 3, tXSR |-> 2 * tRFCpb * 1000 + 7500,
         tR2P |-> Ceil(RL * 426 - 2000, 1000), tW2P |-> Ceil(WL * 17303, 10000) * 2 - 5]

\* CalculateTimings of Erista: the ones that depend on the clock.
EristaCycles(c, khz) ==
    LET RL == c["mem_burst_read_latency"]
        WL == c["mem_burst_write_latency"]
        g  == G(khz)
        t  == EristaTimings(c)
        w  == Max({251 * g + 282500, WL * 250000 - 491000})
    IN  t @@
        [tR2W |-> (((5000 * g + ((48 \div WL) * 1000 - 478) * 15000) \div One) * 1000)
                    \div 1501 + RL - 3 * c["t6_tRTW"] + c["t6_tRTW_fine_tune"],
         tWTPDEN |-> Ceil(1803 * g + Max({RL * One + 2694 * g, t.tW2P * One}), One) + 8,
         tW2R |-> MulDiv(w, 491, 250000) \div 250 + WL
                    - Ceil((10 - tWTR_values[1 + c["t7_tWTR"]]) * g, 5000)
                    + c["t7_tWTR_fine_tune"],
         pdex2rw |-> (IF 335 * g > One THEN 13 ELSE 12) + Cycles(khz, 7430)
                       - Ceil(11361000, khz),
         tCLKSTOP |-> Min({Floor(khz, 8488), 23}) + 8]

\* The registers, computed as on a Mariko.
EristaRegisters(c, khz) ==
    LET t == EristaCycles(c, khz)
    IN  EmcRegisters(c, t, khz) @@ [arb |-> ArbTimings(t, khz)]
EristaDaFields(c, khz) == DaFields(EristaRegisters(c, khz).arb)

\* The rates of the arbiter count whole multiples of 1600 MHz.
PtsaRates(khz) ==
    LET n == khz \div 1600000
    IN  <<Min({227, n * 208}), Min({31, n * 24}), Min({6143, n * 4611})>>

EristaAllowances(khz) == Allowances(khz)

MinVoltErista(c) == Clamp(900 + 25 * c["emcDvbShift"], 900, 1050)
==============================================================================
