------------------------------ MODULE Customize -------------------------------
(***************************************************************************)
(* loader/source/oc/customize.{hpp,cpp}: the customization table the kip   *)
(* carries, with the values it is released with and the DVFS tables it     *)
(* offers PCV, and what the loader checks before it touches PCV            *)
(* (SafetyCheck, pcv.cpp).  A DVFS table is its set of clocks, in kHz; the *)
(* coefficients of the voltage formula are left out.  A signed field is    *)
(* written as the number it means.                                         *)
(***************************************************************************)
EXTENDS Integers, Sequences, FiniteSets, FiniteSetsExt

\* The elements of a set of clocks, as the sequence a table has them in.
Ascending(S) ==
    [i \in 1..Cardinality(S) |-> CHOOSE x \in S : Cardinality({y \in S : y < x}) = i - 1]

Steps(min, max, step) == {min + step * i : i \in 0..((max - min) \div step)}

-------------------------------------------------------------------------------
(* The layout: fields in order, with their length in words.  The tables    *)
(* and reserved words at the end are left out.                             *)

Word(names) == [i \in DOMAIN names |-> <<names[i], 1>>]

LoaderLayout ==
    Word(<<"cust", "custRev", "kipVersion", "hpMode", "commonEmcMemVolt",
           "eristaEmcMaxClock", "eristaEmcMaxClock1", "eristaEmcMaxClock2",
           "stepMode", "marikoEmcMaxClock", "marikoEmcVddqVolt", "emcDvbShift",
           "marikoSocVmax", "t1_tRCD", "t2_tRP", "t3_tRAS", "t4_tRRD",
           "t5_tRFC", "t6_tRTW", "t7_tWTR", "t8_tREFI", "t2_tRP_cap",
           "timingEmcTbreak", "low_t6_tRTW", "low_t7_tWTR">>)
    \o << <<"read_latency", 4>>, <<"write_latency", 4>> >>
    \o Word(<<"mem_burst_read_latency", "mem_burst_write_latency",
              "eristaCpuUV", "eristaCpuVmin", "eristaCpuMaxVolt",
              "eristaCpuUnlock", "marikoCpuUVLow", "marikoCpuUVHigh",
              "tableConf", "marikoCpuLowVmin", "marikoCpuHighVmin",
              "marikoCpuMaxVolt", "marikoCpuMaxClock", "eristaCpuBoostClock",
              "marikoCpuBoostClock", "eristaGpuUV", "eristaGpuVmin",
              "marikoGpuUV", "marikoGpuVmin", "marikoGpuVmax",
              "commonGpuVoltOffset", "gpuSpeedo">>)
    \o << <<"g_volt_e", 27>>, <<"g_volt", 24>> >>
    \o Word(<<"t6_tRTW_fine_tune", "t7_tWTR_fine_tune">>)

-------------------------------------------------------------------------------
(* The DVFS tables.                                                        *)

LowCpuClocks == Steps(204000, 1428000, 102000)
eristaCpuDvfsTable    == LowCpuClocks \cup Steps(1581000, 2091000, 102000)
eristaCpuDvfsTableSLT == LowCpuClocks \cup Steps(1581000, 2397000, 102000)
marikoCpuDvfsTable ==
    LowCpuClocks \cup Steps(1581000, 1887000, 102000) \cup {1963500}
MarikoCpuOcClocks == marikoCpuDvfsTable \cup Steps(2091000, 2703000, 102000)
marikoCpuDvfsTableSLT        == MarikoCpuOcClocks
marikoCpuDvfsTable1581Tbreak == MarikoCpuOcClocks
marikoCpuDvfsTable1683Tbreak == MarikoCpuOcClocks
marikoCpuDvfsTableExtreme    == MarikoCpuOcClocks

eristaGpuDvfsTable      == Steps(76800, 921600, 38400)
eristaGpuDvfsTableSLT   == Steps(76800, 960000, 38400)
eristaGpuDvfsTableHiOPT == Steps(76800, 1075200, 38400)
marikoGpuDvfsTable      == Steps(76800, 1075200, 76800)
marikoGpuDvfsTableSLT   == Steps(76800, 1228800, 76800)
marikoGpuDvfsTableHiOPT ==
    Steps(76800, 1228800, 76800) \cup Steps(1267200, 1536000, 38400)

GetDvfsTableEntryCount(table) == Cardinality(table)
GetDvfsTableLastEntry(table)  == Max(table)

\* The tables PCV comes with.
CpuCvbTableDefault(soc) ==
    IF soc = "Mariko" THEN marikoCpuDvfsTable
                      ELSE LowCpuClocks \cup Steps(1581000, 1785000, 102000)
GpuCvbTableDefault(soc) ==
    IF soc = "Mariko" THEN Steps(76800, 1228800, 76800) \cup {1267200}
                      ELSE Steps(76800, 921600, 76800)

-------------------------------------------------------------------------------
(* The values as released, for the fields a setting of the overlay changes *)
(* and the ones only the kip has; every other field is 0.                  *)

FactoryRam(f) ==
    CASE f = "commonEmcMemVolt"        -> 1175000
      [] f \in {"eristaEmcMaxClock", "eristaEmcMaxClock1",
                "eristaEmcMaxClock2"}  -> 1600000
      [] f = "marikoEmcMaxClock"       -> 2133000
      [] f = "marikoEmcVddqVolt"       -> 600000
      [] f = "t2_tRP_cap"              -> 2
      [] f = "mem_burst_read_latency"  -> 32
      [] f = "mem_burst_write_latency" -> 14
      [] OTHER -> 0

FactoryCpu(f) ==
    CASE f = "eristaCpuVmin"           -> 800
      [] f = "eristaCpuMaxVolt"        -> 1200
      [] f = "tableConf"               -> 3
      [] f = "marikoCpuLowVmin"        -> 620
      [] f = "marikoCpuHighVmin"       -> 750
      [] f = "marikoCpuMaxVolt"        -> 1120
      [] f = "marikoCpuMaxClock"       -> 1963500
      [] f = "eristaCpuBoostClock"     -> 1785000
      [] f = "marikoCpuBoostClock"     -> 1963500
      [] OTHER -> 0

FactoryGpu(f) ==
    CASE f = "eristaGpuVmin" -> 810
      [] f = "marikoGpuVmin" -> 610
      [] f = "marikoGpuVmax" -> 800
      [] f = "gpuSpeedo"     -> 1450
      [] OTHER -> 0

Fields == {LoaderLayout[i][1] : i \in DOMAIN LoaderLayout}
             \ {"read_latency", "write_latency", "g_volt", "g_volt_e"}

\* DEACTIVATED_GPU_FREQ: a clock with this voltage is not offered.
Deactivated == 2000
\* The voltages of the GPU clocks: AUTO, 0, for all but the highest.
eristaGpuVoltArray == [i \in 1..27 |-> IF i <= 23 THEN 0 ELSE Deactivated]
marikoGpuVoltArray == [i \in 1..24 |-> IF i <= 16 THEN 0 ELSE Deactivated]

C == [f \in Fields |-> FactoryRam(f) + FactoryCpu(f) + FactoryGpu(f)]

-------------------------------------------------------------------------------
(* Which table a setting selects, and the checks.                          *)

CpuTable(soc, c) ==
    IF soc = "Mariko"
    THEN CASE c["tableConf"] = 3 -> marikoCpuDvfsTable1683Tbreak
           [] c["tableConf"] = 2 -> marikoCpuDvfsTable1581Tbreak
           [] c["tableConf"] = 4 -> marikoCpuDvfsTableExtreme
           [] OTHER              -> CpuCvbTableDefault(soc)
    ELSE IF c["eristaCpuUV"] = 0 THEN CpuCvbTableDefault(soc)
    ELSE IF c["eristaCpuUnlock"] # 0 THEN eristaCpuDvfsTableSLT ELSE eristaCpuDvfsTable

GpuTable(soc, c) ==
    IF soc = "Mariko"
    THEN CASE c["marikoGpuUV"] = 1 -> marikoGpuDvfsTableSLT
           [] c["marikoGpuUV"] = 2 -> marikoGpuDvfsTableHiOPT
           [] OTHER                -> marikoGpuDvfsTable
    ELSE CASE c["eristaGpuUV"] = 1 -> eristaGpuDvfsTableSLT
           [] c["eristaGpuUV"] = 2 -> eristaGpuDvfsTableHiOPT
           [] OTHER                -> eristaGpuDvfsTable

\* sValidator::check: 0 is no value where none is required.
Passes(value, min, max, required) ==
    (~required /\ value = 0) \/ value \in min..max

eristaMaxEmcClock(c) ==
    Max({c["eristaEmcMaxClock"], c["eristaEmcMaxClock1"], c["eristaEmcMaxClock2"]})

SafetyCheck(c) ==
    /\ Passes(c["eristaCpuBoostClock"], 1020000, 2397000, TRUE)
    /\ Passes(c["marikoCpuBoostClock"], 1020000, 2703000, TRUE)
    /\ Passes(c["eristaCpuMaxVolt"], 1000, 1260, FALSE)
    /\ Passes(c["marikoCpuMaxVolt"], 1000, 1200, FALSE)
    /\ Passes(GetDvfsTableLastEntry(eristaCpuDvfsTable), 1785000, 2397000, FALSE)
    /\ Passes(GetDvfsTableLastEntry(IF c["marikoCpuUVHigh"] # 0
                                    THEN marikoCpuDvfsTableSLT
                                    ELSE marikoCpuDvfsTable), 1785000, 2703000, FALSE)
    /\ Passes(c["commonEmcMemVolt"], 912500, 1350000, FALSE)
    /\ Passes(eristaMaxEmcClock(c), 1600000, 2600000, FALSE)
    /\ Passes(c["marikoEmcMaxClock"], 1600000, 3500000, FALSE)
    /\ Passes(c["marikoEmcVddqVolt"], 400000, 750000, FALSE)
    /\ Passes(c["marikoSocVmax"], 1000, 1200, FALSE)
    /\ Passes(GetDvfsTableLastEntry(GpuTable("Erista", c)), 768000, 1152000, FALSE)
    /\ Passes(GetDvfsTableLastEntry(GpuTable("Mariko", c)), 768000, 1536000, FALSE)
    /\ Passes(c["marikoGpuVmax"], 800, 960, FALSE)
==============================================================================
