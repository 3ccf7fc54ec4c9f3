------------------------------ MODULE KipFields -------------------------------
(***************************************************************************)
(* The way of a setting from the list of config values to the loader: its  *)
(* name in config.ini (config.h, config.cpp), its word of the table in the *)
(* kip (file/kip.hpp, file/kip.cpp) and the field the loader reads there   *)
(* (customize.hpp). A value is a name and, in a family, which of them: the *)
(* clock of a GPU voltage in kHz, the RAM speed of a latency; else 0.      *)
(***************************************************************************)
EXTENDS ConfigValues, Customize, SequencesExt

Alone(names) == [i \in DOMAIN names |-> <<names[i], 0>>]
Family(name, members) == [i \in DOMAIN members |-> <<name, members[i]>>]

LatencySpeeds == <<1333, 1600, 1866, 2133>>
MarikoVoltClocks ==
    Ascending(Steps(76800, 1228800, 76800) \cup Steps(1267200, 1536000, 38400))
EristaVoltClocks == Ascending(Steps(76800, 1075200, 38400))

\* The enumeration, in its order: the place in an array is counted from it.
HocClkConfigValue ==
    Alone(<<"PollingIntervalMs", "TempLogIntervalMs", "FreqLogIntervalMs",
          "PowerLogIntervalMs", "CsvWriteIntervalMs", "UncappedClocks",
          "OverwriteBoostMode", "EristaMaxCpuClock", "MarikoMaxCpuClock",
          "ThermalThrottle", "ThermalThrottleThreshold", "HandheldTDP",
          "HandheldTDPLimit", "LiteTDPLimit", "BatteryChargeCurrent",
          "OverwriteRefreshRate", "MaxDisplayClockH", "DVFSMode", "DVFSOffset",
          "LiveCpuUv", "EnableExperimentalSettings", "GPUScheduling",
          "GPUSchedulingMethod", "RAMVoltDisplayMode", "CpuGovernorMinimumFreq",
          "DisplayVoltage", "MemoryFrequencyMeasurementMode", "RamDisplayUnit",
          "IsFirstLoad", "AulaDisplayColorPreset", "MarikoMiddleFreqs",
          "custRev", "KipVersion", "hpMode", "commonEmcMemVolt",
          "eristaEmcMaxClock", "stepMode", "marikoEmcMaxClock",
          "marikoEmcVddqVolt", "emcDvbShift", "marikoSocVmax", "t1_tRCD", "t2_tRP",
          "t3_tRAS", "t4_tRRD", "t5_tRFC", "t6_tRTW", "t7_tWTR", "t8_tREFI",
          "timingEmcTbreak", "low_t6_tRTW", "low_t7_tWTR", "t2_tRP_cap">>)
    \o Family("read_latency", LatencySpeeds) \o Family("write_latency", LatencySpeeds)
    \o Alone(<<"eristaCpuUV", "eristaCpuVmin", "eristaCpuMaxVolt", "eristaCpuUnlock",
             "marikoCpuUVLow", "marikoCpuUVHigh", "tableConf", "marikoCpuLowVmin",
             "marikoCpuHighVmin", "marikoCpuMaxVolt", "marikoCpuMaxClock",
             "eristaCpuBoostClock", "marikoCpuBoostClock", "eristaGpuUV",
             "eristaGpuVmin", "marikoGpuUV", "marikoGpuVmin", "marikoGpuBootVolt",
             "marikoGpuVmax", "commonGpuVoltOffset">>)
    \o Family("g_volt", MarikoVoltClocks) \o Family("g_volt_e", EristaVoltClocks)
    \o Alone(<<"t6_tRTW_fine_tune", "t7_tWTR_fine_tune", "KipCrc32">>)

Kvals    == {HocClkConfigValue[i] : i \in DOMAIN HocClkConfigValue}
Ordinal(v) == CHOOSE i \in DOMAIN HocClkConfigValue : HocClkConfigValue[i] = v
Defaults == [v \in Kvals |-> DefaultConfigValue(v[1])]

-------------------------------------------------------------------------------
(* config.ini.                                                             *)

\* The names of the sysmodule's own settings, and those of the kip's that are not
\* the name of the field.
OwnNames ==
    [PollingIntervalMs |-> "poll_interval_ms", TempLogIntervalMs |-> "temp_log_interval_ms",
     FreqLogIntervalMs |-> "freq_log_interval_ms", PowerLogIntervalMs |-> "power_log_interval_ms",
     CsvWriteIntervalMs |-> "csv_write_interval_ms", UncappedClocks |-> "uncapped_clocks",
     OverwriteBoostMode |-> "ow_boost", EristaMaxCpuClock |-> "cpu_max_e",
     MarikoMaxCpuClock |-> "cpu_max_m", ThermalThrottle |-> "thermal_throttle",
     ThermalThrottleThreshold |-> "thermal_throttle_threshold", HandheldTDP |-> "handheld_tdp",
     HandheldTDPLimit |-> "tdp_limit", LiteTDPLimit |-> "tdp_limit_l",
     BatteryChargeCurrent |-> "bat_charge_current", OverwriteRefreshRate |-> "drr_changing",
     MaxDisplayClockH |-> "drr_max_clock", DVFSMode |-> "dvfs_mode", DVFSOffset |-> "dvfs_offset",
     GPUScheduling |-> "gpu_scheduling", GPUSchedulingMethod |-> "gpu_sched_method",
     LiveCpuUv |-> "live_cpu_uv", EnableExperimentalSettings |-> "enable_experimental_settings",
     RAMVoltDisplayMode |-> "ram_volt_usage_display_mode",
     CpuGovernorMinimumFreq |-> "cpu_gov_min_freq", DisplayVoltage |-> "display_voltage",
     MemoryFrequencyMeasurementMode |-> "mem_freq_measurement_mode",
     RamDisplayUnit |-> "RAM_display_unit", AulaDisplayColorPreset |-> "aula_color_preset",
     MarikoMiddleFreqs |-> "mariko_middle_freqs"]

KipNames ==
    [custRev |-> "kip_cust_rev", KipVersion |-> "kip_version", hpMode |-> "kip_hp_mode",
     commonEmcMemVolt |-> "common_emc_mem_volt", eristaEmcMaxClock |-> "erista_emc_max_clock2",
     stepMode |-> "step_mode", marikoEmcMaxClock |-> "mariko_emc_max_clock",
     marikoEmcVddqVolt |-> "mariko_emc_vddq_volt", emcDvbShift |-> "emc_dvb_shift",
     marikoSocVmax |-> "soc_vmax", t1_tRCD |-> "t1_trcd", t2_tRP |-> "t2_trp",
     t3_tRAS |-> "t3_tras", t4_tRRD |-> "t4_trrd", t5_tRFC |-> "t5_trfc",
     t6_tRTW |-> "t6_trtw", t7_tWTR |-> "t7_twtr", t8_tREFI |-> "t8_trefi",
     eristaCpuUV |-> "erista_cpu_uv", eristaCpuVmin |-> "erista_cpu_vmin",
     eristaCpuMaxVolt |-> "erista_cpu_max_volt", eristaCpuUnlock |-> "erista_cpu_unlock",
     marikoCpuUVLow |-> "mariko_cpu_uv_low", marikoCpuUVHigh |-> "mariko_cpu_uv_high",
     tableConf |-> "kip_table_conf", marikoCpuLowVmin |-> "mariko_cpu_low_vmin",
     marikoCpuHighVmin |-> "mariko_cpu_high_vmin", marikoCpuMaxVolt |-> "mariko_cpu_max_volt",
     eristaCpuBoostClock |-> "erista_cpu_boost_clock",
     marikoCpuBoostClock |-> "mariko_cpu_boost_clock",
     marikoCpuMaxClock |-> "mariko_cpu_max_clock", eristaGpuUV |-> "erista_gpu_uv",
     eristaGpuVmin |-> "erista_gpu_vmin", marikoGpuUV |-> "mariko_gpu_uv",
     marikoGpuVmin |-> "mariko_gpu_vmin", marikoGpuBootVolt |-> "mariko_gpu_boot_volt",
     marikoGpuVmax |-> "mariko_gpu_vmax", commonGpuVoltOffset |-> "common_gpu_volt_offset"]

LastNames == [KipCrc32 |-> "crc32", IsFirstLoad |-> "is_first_load"]

IniNames == OwnNames @@ KipNames @@ LastNames

\* Mutant: the limit of a Lite goes by the name it goes by in the menu.
FormatConfigValueLite(v) ==
    IF v[1] = "LiteTDPLimit" THEN <<"tdp_limit", 0>>
    ELSE IF v[1] \in DOMAIN IniNames THEN <<IniNames[v[1]], 0>> ELSE v

FormatConfigValue(v) ==
    IF v[1] \in DOMAIN IniNames THEN <<IniNames[v[1]], 0>> ELSE v

\* SetConfigValues stores what is valid and not the default, in the order of the
\* enumeration;
Section(list) ==
    LET stored == SelectSeq(HocClkConfigValue,
                      LAMBDA v : ValidConfigValue(v[1], list[v]) /\ list[v] # Defaults[v])
    IN  [i \in DOMAIN stored |-> <<FormatConfigValue(stored[i]), list[stored[i]]>>]

\* BrowseIniFunc gives each line to the first value of its name.
Named(name) ==
    HocClkConfigValue[Min({i \in DOMAIN HocClkConfigValue :
                               FormatConfigValue(HocClkConfigValue[i]) = name})]
Loaded(section) ==
    LET owner == [i \in DOMAIN section |-> Named(section[i][1])]
        Lines(v) == {i \in DOMAIN section : owner[i] = v}
    IN  [v \in Kvals |-> IF Lines(v) = {} THEN Defaults[v]
                         ELSE Accepted(v[1], section[Max(Lines(v))][2])]

-------------------------------------------------------------------------------
(* The table in the kip: a sequence of words, which a layout tells apart.  *)

SysmoduleLayout ==
    Word(<<"cust", "custRev", "kipVersion", "hpMode", "commonEmcMemVolt",
           "eristaEmcMaxClock", "stepMode", "marikoEmcMaxClock", "marikoEmcVddqVolt",
           "emcDvbShift", "marikoSocVmax", "t1_tRCD", "t2_tRP", "t3_tRAS", "t4_tRRD",
           "t5_tRFC", "t6_tRTW", "t7_tWTR", "t8_tREFI", "t2_tRP_cap",
           "timingEmcTbreak", "low_t6_tRTW", "low_t7_tWTR">>)
    \o << <<"read_latency", 4>>, <<"write_latency", 4>> >>
    \o Word(<<"eristaCpuUV", "eristaCpuVmin", "eristaCpuMaxVolt", "eristaCpuUnlock",
              "marikoCpuUVLow", "marikoCpuUVHigh", "tableConf", "marikoCpuLowVmin",
              "marikoCpuHighVmin", "marikoCpuMaxVolt", "marikoCpuMaxClock",
              "eristaCpuBoostClock", "marikoCpuBoostClock", "eristaGpuUV",
              "eristaGpuVmin", "marikoGpuUV", "marikoGpuVmin", "marikoGpuBootVolt",
              "marikoGpuVmax", "commonGpuVoltOffset">>)
    \o << <<"g_volt_e", 27>>, <<"g_volt", 24>> >>
    \o Word(<<"t6_tRTW_fine_tune", "t7_tWTR_fine_tune">>)

\* The words of a layout: a field and a place in it.
WordsOf(layout) ==
    FlattenSeq([i \in DOMAIN layout |->
                   [j \in 1..layout[i][2] |-> <<layout[i][1], j - 1>>]])
SysmoduleWords == WordsOf(SysmoduleLayout)
LoaderWords    == WordsOf(LoaderLayout)
WordAt(words, word) == CHOOSE i \in DOMAIN words : words[i] = word

CUST_REV    == 4
KIP_VERSION == 240

\* The kip of the sysmodule's release, and the one the loader of this tree makes,
\* which is older: factory settings, after the magic, the revision and the version.
Kip(words, rev, version) ==
    [i \in DOMAIN words |->
        CASE words[i] = <<"cust", 0>>       -> 0
          [] words[i] = <<"custRev", 0>>    -> rev
          [] words[i] = <<"kipVersion", 0>> -> version
          [] words[i][1] = "g_volt"         -> marikoGpuVoltArray[words[i][2] + 1]
          [] words[i][1] = "g_volt_e"       -> eristaGpuVoltArray[words[i][2] + 1]
          [] OTHER -> IF words[i][1] \in Fields THEN C[words[i][1]] ELSE 0]
OwnKip   == Kip(SysmoduleWords, CUST_REV, KIP_VERSION)
OlderKip == Kip(LoaderWords, 3, 231)

\* The values SetKipData and GetKipData copy, and the word each is in: the voltages
\* by their distance from the first of them.
KipValue ==
    {HocClkConfigValue[i] : i \in Ordinal(<<"hpMode", 0>>)..Ordinal(<<"t7_tWTR_fine_tune", 0>>)}

\* Mutant: the two fine tunings trade places.
FieldOfSwapped(v) ==
    CASE v[1] \in {"read_latency", "write_latency"} ->
             <<v[1], CHOOSE i \in 0..3 : LatencySpeeds[i + 1] = v[2]>>
      [] v[1] \in {"g_volt", "g_volt_e"} -> <<v[1], Ordinal(v) - Ordinal(<<v[1], 76800>>)>>
      [] v[1] = "t6_tRTW_fine_tune" -> <<"t7_tWTR_fine_tune", 0>>
      [] v[1] = "t7_tWTR_fine_tune" -> <<"t6_tRTW_fine_tune", 0>>
      [] OTHER -> v

FieldOf(v) ==
    CASE v[1] \in {"read_latency", "write_latency"} ->
             <<v[1], CHOOSE i \in 0..3 : LatencySpeeds[i + 1] = v[2]>>
      [] v[1] \in {"g_volt", "g_volt_e"} -> <<v[1], Ordinal(v) - Ordinal(<<v[1], 76800>>)>>
      [] OTHER -> v

WordOf == [v \in KipValue |-> WordAt(SysmoduleWords, FieldOf(v))]

\* Mutant: a kip of any version will do.
OfThisReleaseAny(kip) == TRUE
OfThisRelease(kip) ==
    /\ kip[WordAt(SysmoduleWords, <<"custRev", 0>>)] = CUST_REV
    /\ kip[WordAt(SysmoduleWords, <<"kipVersion", 0>>)] = KIP_VERSION

SetKipData(kip, list) ==
    IF OfThisRelease(kip)
    THEN [i \in DOMAIN kip |->
             IF \E v \in KipValue : WordOf[v] = i
             THEN list[CHOOSE v \in KipValue : WordOf[v] = i]
             ELSE kip[i]]
    ELSE kip

GetKipData(kip, list) ==
    IF OfThisRelease(kip)
    THEN [v \in Kvals |-> CASE v \in KipValue         -> kip[WordOf[v]]
                            [] v[1] = "custRev"    -> CUST_REV
                            [] v[1] = "KipVersion" -> KIP_VERSION
                            [] OTHER               -> list[v]]
    ELSE list

\* The helpers for the voltage of one clock count its place themselves.
VoltIndex(family, clock) ==
    CASE family = "g_volt_e" -> (clock - 76800) \div 38400
      [] family = "g_volt" /\ clock <= 1228800 -> (clock - 76800) \div 76800
      [] OTHER -> 16 + (clock - 1267200) \div 38400
cust_set_gpu_volt(kip, family, clock, volt) ==
    [kip EXCEPT ![WordAt(SysmoduleWords, <<family, VoltIndex(family, clock)>>)] = volt]

\* What the loader takes for a setting: the word of that field, by its own layout;
\* a voltage is for the clock at the same place of the table it gives PCV.
LoaderTakes(words, kip, v) ==
    LET Clocks(t) == Ascending(t)
        At(seq)   == (CHOOSE i \in DOMAIN seq : seq[i] = v[2]) - 1
    IN  kip[WordAt(words,
            CASE v[1] = "g_volt"   -> <<v[1], At(Clocks(marikoGpuDvfsTableHiOPT))>>
              [] v[1] = "g_volt_e" -> <<v[1], At(Clocks(eristaGpuDvfsTableHiOPT))>>
              [] OTHER -> IF v[2] # 0 THEN <<v[1], At(LatencySpeeds)>> ELSE v)]
===============================================================================
