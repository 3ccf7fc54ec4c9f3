------------------------------ MODULE FreqTable ------------------------------
(***************************************************************************)
(* The frequency arithmetic of the sysmodule: which clocks a module may be *)
(* given, the cap of a profile, rounding a wanted clock to a table entry,  *)
(* the governor's load to clock mapping and the GPU voltage a RAM clock    *)
(* needs (mgr/clock_manager.cpp, mgr/governor.cpp, board/board_volt.cpp).  *)
(*                                                                         *)
(* Clocks are in kHz: every clock the code names is a whole number of kHz  *)
(* and u32 Hz stays inside TLC's integers.  A table is the ascending,      *)
(* non-empty sequence of clocks gFreqTable[module] holds.                  *)
(***************************************************************************)
EXTENDS Integers, Sequences, FiniteSets, FiniteSetsExt

CONSTANTS Soc,       \* "Erista" or "Mariko" (board::GetSocType)
          GpuUV,     \* KipConfigValue_marikoGpuUV
          Bracket    \* board::GetGpuSpeedoBracket

ASSUME FreqTableAssumption ==
    /\ Soc \in {"Erista", "Mariko"}
    /\ GpuUV \in Nat
    /\ Bracket \in Nat

Module == {"CPU", "GPU", "MEM"}

Profile == {"Handheld", "Charging", "USB", "Official", "Docked"}

Entries(tbl) == {tbl[i] : i \in DOMAIN tbl}

Ascending(tbl) == \A i, j \in DOMAIN tbl : i < j => tbl[i] < tbl[j]

\* What RefreshFreqTableRow leaves in a row of gFreqTable.
IsTable(tbl) == tbl \in Seq(Nat) /\ tbl # << >> /\ Ascending(tbl)

-----------------------------------------------------------------------------
(* Caps and assignable clocks.                                             *)

\* u32 ~0: larger than any clock.   0: no cap either, by another route.
Uncapped == 4294967
NoCap == 0

IsAssignable(m, f) ==
    CASE m = "CPU" -> f >= 500000
      [] m = "MEM" -> f >= 665600
      [] OTHER     -> TRUE

MarikoCap(uv, onCharger) ==
    CASE uv = 1 -> IF onCharger THEN 921600 ELSE 691200
      [] uv = 2 -> IF onCharger THEN 998400 ELSE 768000
      [] OTHER  -> IF onCharger THEN 844800 ELSE 614400

GpuCap(p) ==
    CASE p = "Handheld" ->
            IF Soc = "Mariko" THEN MarikoCap(GpuUV, FALSE) ELSE 460800
      [] p \in {"Charging", "USB"} ->
            IF Soc = "Mariko" THEN MarikoCap(GpuUV, TRUE) ELSE 768000
      [] OTHER -> NoCap

CpuCap(p) == IF p = "Handheld" /\ Soc = "Erista" THEN 1581000 ELSE Uncapped

MaxAllowed(uncapped, m, p) ==
    IF uncapped THEN Uncapped
    ELSE CASE m = "GPU" -> GpuCap(p)
           [] m = "CPU" -> CpuCap(p)
           [] OTHER     -> NoCap

\* f is within the cap max, where 0 means that there is none.
Within(f, max) == max = NoCap \/ f <= max

\* A cap that can be kept: none, an entry of the table, or above all entries.
\* clock_manager.cpp:134 keeps no other.
Keepable(tbl, max) ==
    \/ max = NoCap
    \/ max \in Entries(tbl)
    \/ \A f \in Entries(tbl) : f <= max

-----------------------------------------------------------------------------
(* Rounding a wanted clock to the table.                                   *)

StopsAtAboveCap(tbl, i, wanted, max) ==
    \/ i = Len(tbl)
    \/ max > 0 /\ tbl[i] > max
    \/ wanted <= (tbl[i] + tbl[i + 1]) \div 2

StopsAtRoundingUp(tbl, i, wanted, max) ==
    i = Len(tbl) \/ (max > 0 /\ tbl[i] >= max) \/ wanted <= tbl[i]

\* The scan of GetNearestHz leaves its loop at entry i.
StopsAt(tbl, i, wanted, max) ==
    \/ i = Len(tbl)
    \/ max > 0 /\ tbl[i] >= max
    \/ wanted <= (tbl[i] + tbl[i + 1]) \div 2

Nearest(tbl, wanted, max) ==
    tbl[Min({i \in DOMAIN tbl : StopsAt(tbl, i, wanted, max)})]

-----------------------------------------------------------------------------
(* The governor: a load in tenths of a percent to a table entry.           *)

StepUtil == 900

Lower(a, b) == IF a <= b THEN a ELSE b

SchedutilWraps(load, tableMax) ==
    Lower(((tableMax * load) % 4294967) \div StepUtil, tableMax)
Schedutil(load, tableMax) == Lower((tableMax * load) \div StepUtil, tableMax)

\* TableIndexForHz: the first entry that serves the wanted clock, else the last.
AtLeast(tbl, wanted) ==
    tbl[Min({Len(tbl)} \cup {i \in DOMAIN tbl : tbl[i] >= wanted})]

\* A limit of 0 does not limit.
Limit(f, max) == IF max # 0 /\ f > max THEN max ELSE f

\* The entry the governor picks for a load, the user's clock and the cap.
GovernorHz(tbl, load, target, max) ==
    AtLeast(tbl, Limit(Limit(Schedutil(load, tbl[Len(tbl)]), target), max))

-----------------------------------------------------------------------------
(* The GPU voltage floor a RAM clock needs, in mV (0: the boot floor).     *)

MarikoRam ==
    << << 2133, 2200, 2266, 2300, 2366, 2400, 2433, 2466, 2533, 2566, 2600,
          2633, 2700, 2733, 2766, 2833, 2866, 2900, 2933, 3033, 3066, 3100 >>,
       << 2300, 2366, 2433, 2466, 2533, 2566, 2633, 2700, 2733, 2800, 2833,
          2900, 2933, 2966, 3033, 3066, 3100, 3133, 3166, 3200, 3233, 3266 >>,
       << 2433, 2466, 2533, 2566, 2600, 2666, 2766, 2800, 2833, 2866, 2933,
          2966, 3033, 3066, 3100, 3133, 3166, 3200, 3233, 3300, 3333, 3366 >>,
       << 2500, 2533, 2600, 2633, 2666, 2733, 2800, 2866, 2900, 2966, 3033,
          3100, 3166, 3200, 3233, 3266, 3300, 3333, 3366, 3400, 3400, 3400 >> >>

EristaRam ==
    << 1733, 1800, 1866, 1920, 1958, 1996, 2035, 2073, 2112, 2131, 2150, 2169,
       2188, 2227, 2265, 2304, 2342, 2380, 2400 >>

\* An unknown bracket counts as bracket 0.
Row(b) == IF b > 3 THEN 0 ELSE b

StepVoltNoLast(row, mhz, start, step) ==
    IF mhz > row[Len(row)] THEN 0
    ELSE start + step * (Min({i \in DOMAIN row : mhz <= row[i]}) - 1)

\* Both tables step by a constant voltage per entry from a start voltage.
StepVolt(row, mhz, start, step) ==
    start + step * (Min({Len(row)} \cup {i \in DOMAIN row : mhz <= row[i]}) - 1)

\* Mariko, between 1633 MHz and the bracket's first entry: a linear ramp
\* rounded to 5 mV and clamped.
RampVolt(mhz, first, start) ==
    LET raw == start + ((mhz - 1633) * (590 - start)) \div (first - 1633)
        volt == ((raw + 2) \div 5) * 5
    IN  Lower(IF volt < start THEN start ELSE volt, 590)

GpuVmin(mhz) ==
    LET row == MarikoRam[Row(Bracket) + 1]
        start == IF Row(Bracket) = 0 THEN 535 ELSE 525
    IN  CASE mhz <= 1600 -> 0
          [] mhz > 1600 /\ Soc = "Erista" ->
                StepVolt(EristaRam, mhz, 725 - 10 * Row(Bracket), 5)
          [] mhz >= 1633 /\ mhz < row[1] /\ Soc = "Mariko" ->
                RampVolt(mhz, row[1], start)
          [] OTHER -> StepVolt(row, mhz, 590, 10)

-----------------------------------------------------------------------------
\* How a row of gFreqTable is filled from the clocks PCV offers.

ListMax == 48    \* HOCCLK_FREQ_LIST_MAX

\* The end of the part of the Mariko GPU list with 38.4 MHz steps: its last
\* clock one step above another, or the last clock of all.
StepEnd(pcv) ==
    LET stepped == {f \in pcv : f - 38400 \in pcv}
    IN  IF stepped = {} THEN Max(pcv) ELSE Max(stepped)

\* middle: HocClkConfigValue_MarikoMiddleFreqs.  The odd multiples of the step
\* are the clocks PCV cannot set; the even ones must be in its list.
MarikoGpuClocks(pcv, middle) ==
    LET end == StepEnd(pcv)
        grid == {38400 * n : n \in 2..(end \div 38400)}
    IN  {f \in grid : IF f % 76800 = 0 THEN f \in pcv ELSE middle}
          \cup {f \in pcv : f > end}

\* disabled: the Erista GPU clocks whose voltage is configured as 2000.
ClocksOffered(m, pcv, middle, disabled) ==
    CASE m = "GPU" /\ Soc = "Mariko" -> MarikoGpuClocks(pcv, middle)
      [] m = "GPU" /\ Soc = "Erista" -> pcv \ disabled
      [] OTHER -> {f \in pcv : IsAssignable(m, f)}

\* PCV lists its clocks in ascending order and the loops keep it.
InOrder(S) ==
    LET Rank(f) == Cardinality({g \in S : g <= f})
    IN  [i \in 1..Lower(Cardinality(S), ListMax) |-> CHOOSE f \in S : Rank(f) = i]

RowRepeatingEnd(m, pcv, middle, disabled) ==
    LET row == InOrder(ClocksOffered(m, pcv, middle, disabled))
    IN  Append(row, row[Len(row)])

RefreshFreqTableRow(m, pcv, middle, disabled) ==
    InOrder(ClocksOffered(m, pcv, middle, disabled))
=============================================================================
