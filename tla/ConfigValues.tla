----------------------------- MODULE ConfigValues -----------------------------
(***************************************************************************)
(* common/include/hocclk/config.h: the values a user can configure, what a *)
(* missing one stands for and which ones are accepted.  A family of values *)
(* that the header lists one by one and treats alike (the voltages of the  *)
(* GPU clocks, the latencies) is one name here.                            *)
(***************************************************************************)
EXTENDS Integers

\* HocClkConfigValue_*: the settings of the sysmodule itself, by kind of check.
Switches ==
    {"TempLogIntervalMs", "FreqLogIntervalMs", "PowerLogIntervalMs",
     "CsvWriteIntervalMs", "UncappedClocks", "OverwriteBoostMode",
     "ThermalThrottle", "HandheldTDP", "OverwriteRefreshRate", "IsFirstLoad",
     "EnableExperimentalSettings", "LiveCpuUv", "GPUSchedulingMethod",
     "MarikoMiddleFreqs"}

Quantities ==
    {"EristaMaxCpuClock", "MarikoMaxCpuClock", "ThermalThrottleThreshold",
     "HandheldTDPLimit", "LiteTDPLimit", "PollingIntervalMs",
     "MaxDisplayClockH"}

\* Modes and offsets the sysmodule takes as they come.
Modes ==
    {"DVFSMode", "DVFSOffset", "GPUScheduling", "RAMVoltDisplayMode",
     "CpuGovernorMinimumFreq", "MemoryFrequencyMeasurementMode",
     "RamDisplayUnit", "AulaDisplayColorPreset"}

\* KipConfigValue_*: the customization table of the kip, and its checksum.
KipValues ==
    {"custRev", "KipVersion", "hpMode", "commonEmcMemVolt",
     "eristaEmcMaxClock", "stepMode", "marikoEmcMaxClock",
     "marikoEmcVddqVolt", "emcDvbShift", "marikoSocVmax", "t1_tRCD", "t2_tRP",
     "t3_tRAS", "t4_tRRD", "t5_tRFC", "t6_tRTW", "t7_tWTR", "t8_tREFI",
     "timingEmcTbreak", "low_t6_tRTW", "low_t7_tWTR", "t2_tRP_cap",
     "read_latency", "write_latency", "eristaCpuUV", "eristaCpuVmin",
     "eristaCpuMaxVolt", "eristaCpuUnlock", "marikoCpuUVLow",
     "marikoCpuUVHigh", "tableConf", "marikoCpuLowVmin", "marikoCpuHighVmin",
     "marikoCpuMaxVolt", "marikoCpuMaxClock", "eristaCpuBoostClock",
     "marikoCpuBoostClock", "eristaGpuUV", "eristaGpuVmin", "marikoGpuUV",
     "marikoGpuVmin", "marikoGpuBootVolt", "marikoGpuVmax",
     "commonGpuVoltOffset", "g_volt", "g_volt_e", "t6_tRTW_fine_tune",
     "t7_tWTR_fine_tune", "KipCrc32"}

ConfigValue == Switches \cup Quantities \cup Modes \cup KipValues
                 \cup {"BatteryChargeCurrent", "DisplayVoltage"}

\* hocclkDefaultConfigValue.
DefaultConfigValue(v) ==
    CASE v = "PollingIntervalMs"        -> 300
      [] v = "EristaMaxCpuClock"        -> 1785
      [] v = "MarikoMaxCpuClock"        -> 1963
      [] v \in {"ThermalThrottle", "HandheldTDP", "IsFirstLoad", "DVFSMode"} -> 1
      [] v = "ThermalThrottleThreshold" -> 70
      [] v = "HandheldTDPLimit"         -> 9600
      [] v = "LiteTDPLimit"             -> 6400
      [] v = "CpuGovernorMinimumFreq"   -> 612000000
      [] v = "MaxDisplayClockH"         -> 60
      [] v = "DisplayVoltage"           -> 1200
      [] v = "AulaDisplayColorPreset"   -> 255
      [] OTHER                          -> 0

\* hocclkValidConfigValue.
ValidConfigValue(v, input) ==
    CASE v \in Quantities           -> input > 0
      [] v \in Switches             -> input \in {0, 1}
      [] v = "BatteryChargeCurrent" -> input = 0 \/ input \in 1024..3072
      [] v = "DisplayVoltage"       -> input \in 800..1325
      [] OTHER                      -> TRUE

\* What a value becomes wherever it is taken in: itself, or the default.
Accepted(v, input) ==
    IF ValidConfigValue(v, input) THEN input ELSE DefaultConfigValue(v)
==============================================================================
