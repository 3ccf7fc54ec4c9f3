-------------------------------- MODULE Menus ---------------------------------
(***************************************************************************)
(* overlay/src/ui/gui/misc_gui.cpp: the pages of settings and the controls *)
(* on them, with the values each control offers on each model of the       *)
(* console.  A value is a 32-bit word, written as the signed number where  *)
(* the code means one; names, colours and graphs are left out.             *)
(***************************************************************************)
EXTENDS ConfigValues

\* The consoles the overlay tells apart: one Erista, three kinds of Mariko.
Models == {"Icosa", "Iowa", "Hoag", "Aula"}
IsErista(m) == m = "Icosa"
IsMariko(m) == ~IsErista(m)
IsHoag(m)   == m = "Hoag"
IsAula(m)   == m = "Aula"

\* The values of a ValueRange.
ValueRange(min, max, step) == {min + step * i : i \in 0..((max - min) \div step)}

-------------------------------------------------------------------------------
(* Controls.  `offers` are the values the user can pick, `named` the ones  *)
(* with a text of their own, every other is shown divided by `divisor`;    *)
(* `kip` tells whether a change makes the page save the kip.  `at` is the  *)
(* GPU clock a voltage is for, 0 for every other value.                    *)

Control(key, at, offers, named, divisor, kip) ==
    [key |-> key, at |-> at, offers |-> offers, named |-> named,
     divisor |-> divisor, kip |-> kip]

addConfigToggle(key, kip) == Control(key, 0, {0, 1}, {0, 1}, 1, kip)
addConfigTrackbar(key, max) == Control(key, 0, 0..max, 0..max, 1, TRUE)
addMappedConfigTrackbar(key, vals) == Control(key, 0, vals, vals, 1, TRUE)

\* A button opens ValueChoiceGui: the named values when there are any, else the
\* range; before them the default, 0, where showDefaultValue says so.
addConfigButton(key, range, divisor, namedValues, showDefaultValue, kip) ==
    Control(key, 0,
            (IF namedValues = {} THEN range ELSE namedValues)
              \cup (IF showDefaultValue THEN {0} ELSE {}),
            namedValues, divisor, kip)

Names(key, divisor, values, kip) ==
    addConfigButton(key, {}, divisor, values, FALSE, kip)
Between(key, min, max, step, divisor, kip) ==
    addConfigButton(key, ValueRange(min, max, step), divisor, {}, FALSE, kip)
RangeOrDefault(key, min, max, step) ==
    addConfigButton(key, ValueRange(min, max, step), 1, {}, TRUE, FALSE)

If(condition, controls) == IF condition THEN controls ELSE {}

\* What a button shows: a name, or the value divided; a divisor of 0 will do
\* only where every value has a name.
CanShow(c, value) == value \in c.named \/ c.divisor # 0

-------------------------------------------------------------------------------
(* The clocks the pages share.                                             *)

MarikoEmcClocks ==
    {1600000, 1633000, 1666000, 1700000, 1733000, 1766000, 1800000, 1833000,
     1866000, 1900000, 1933000, 1966000, 1996800, 2000000, 2033000, 2066000,
     2100000, 2133000, 2166000, 2200000, 2233000, 2266000, 2300000, 2333000,
     2366000, 2400000, 2433000, 2466000, 2500000, 2533000, 2566000, 2600000,
     2633000, 2666000, 2700000, 2733000, 2766000, 2800000, 2833000, 2866000,
     2900000, 2933000, 2966000, 3000000, 3033000, 3066000, 3100000, 3133000,
     3166000, 3200000, 3233000, 3266000, 3300000}
EristaEmcClocks ==
    {1600000, 1633000, 1666000, 1700000, 1733000, 1800000, 1833000}
      \cup ValueRange(1862400, 2400000, 19200)
emcMaxClock(m) == IF IsErista(m) THEN EristaEmcClocks ELSE MarikoEmcClocks

timingTbreakFreqs == (MarikoEmcClocks \ {1600000}) \cup {0}

MarikoCpuClocks == {1963500} \cup ValueRange(2091000, 2703000, 102000)
EristaCpuClocks == ValueRange(1785000, 2397000, 102000)

\* Mutant: the first clock is left out and the last made up.
MarikoGpuClocksShifted == ValueRange(153600, 1228800, 76800)
                            \cup ValueRange(1267200, 1574400, 38400)

\* The GPU clocks that have a voltage of their own.
MarikoGpuClocks == ValueRange(76800, 1228800, 76800)
                     \cup ValueRange(1267200, 1536000, 38400)
EristaGpuClocks == ValueRange(76800, 1075200, 38400)

-------------------------------------------------------------------------------
(* The pages, by the class that lists their controls.                      *)

GeneralSettings(m) ==
    If(IsMariko(m), {Names("RAMVoltDisplayMode", 0, {0, 1}, FALSE)})
      \cup {Names("RamDisplayUnit", 0, {0, 1, 2}, FALSE),
            Between("PollingIntervalMs", 50, 1000, 50, 1, FALSE),
            addConfigToggle("EnableExperimentalSettings", FALSE)}

\* Mutant: the smallest current the charger knows is offered too.
ChargeCurrentsAll(m) ==
    {0, 512, 1024, 1280, 1536, 1792, 2048, 2304, 2560}

ChargeCurrents(m) ==
    IF IsHoag(m)
    THEN {0, 1024, 1280, 1536, 1664, 1792, 2048, 2304, 2560}
    ELSE {0, 1024, 1280, 1536, 1792, 2048, 2304, 2560, 2816, 3072}

AulaDisplayColorMode == {0, 3, 21, 35, 53, 67, 69, 101, 117, 255}

ExperimentalSettings(m) ==
    If(IsMariko(m), {addConfigToggle("MarikoMiddleFreqs", TRUE)})
      \cup {addConfigToggle("LiveCpuUv", FALSE),
            Names("GPUSchedulingMethod", 0, {0, 1}, FALSE),
            Names("MemoryFrequencyMeasurementMode", 0, {0, 1}, FALSE),
            Names("BatteryChargeCurrent", 0, ChargeCurrents(m), FALSE)}
      \cup If(IsAula(m), {Names("AulaDisplayColorPreset", 0, AulaDisplayColorMode, FALSE)})

GovernorSettings(m) ==
    {Names("CpuGovernorMinimumFreq", 0,
           ValueRange(510000000, 1020000000, 102000000), FALSE)}

DisplaySettings(m, isUsingRetroSuper) ==
    {addConfigToggle("OverwriteRefreshRate", FALSE)}
      \cup If(~isUsingRetroSuper,
              {Between("MaxDisplayClockH", 60, IF IsAula(m) THEN 65 ELSE 75, 1, 1,
                     FALSE)})
      \cup If(~IsAula(m), {Between("DisplayVoltage", 800, 1200, 25, 1, FALSE)})

SafetySettings(m) ==
    {addConfigToggle("UncappedClocks", FALSE),
     addConfigToggle("ThermalThrottle", FALSE),
     addConfigToggle("HandheldTDP", FALSE),
     IF IsHoag(m) THEN RangeOrDefault("LiteTDPLimit", 4000, 8000, 100)
                  ELSE RangeOrDefault("HandheldTDPLimit", 8000, 12000, 100),
     RangeOrDefault("ThermalThrottleThreshold", 50, 85, 1)}

RamSettings(m) ==
    {addMappedConfigTrackbar("emcDvbShift", -4..8),
     addConfigToggle("hpMode", TRUE),
     Between("commonEmcMemVolt", 912500, 1350000, 12500, 1000, TRUE)}
      \cup If(IsMariko(m),
              {Names("marikoSocVmax", 0, {0} \cup ValueRange(1000, 1200, 25), TRUE),
               Between("marikoEmcVddqVolt", 400000, 750000, 5000, 1000, TRUE),
               Names("stepMode", 0, {0, 1, 2, 3}, TRUE)})
      \cup {Names(IF IsMariko(m) THEN "marikoEmcMaxClock" ELSE "eristaEmcMaxClock",
                  1, emcMaxClock(m), TRUE)}

RamTimings(m) ==
    {addConfigTrackbar("t1_tRCD", 7), addConfigTrackbar("t2_tRP", 7),
     addConfigTrackbar("t3_tRAS", 9), addConfigTrackbar("t4_tRRD", 6),
     addConfigTrackbar("t5_tRFC", IF IsErista(m) THEN 5 ELSE 10),
     addConfigTrackbar("t6_tRTW", 9), addConfigTrackbar("t7_tWTR", 9),
     addConfigTrackbar("t8_tREFI", 6)}
      \cup If(IsMariko(m),
              {Names("timingEmcTbreak", 1, timingTbreakFreqs, TRUE),
               addConfigTrackbar("low_t6_tRTW", 9),
               addConfigTrackbar("low_t7_tWTR", 9),
               addConfigTrackbar("t2_tRP_cap", 8)})
      \cup {addMappedConfigTrackbar("t6_tRTW_fine_tune", -2..2),
            addMappedConfigTrackbar("t7_tWTR_fine_tune", -3..3)}

CpuSettings(m) ==
    (IF IsMariko(m)
     THEN {addConfigTrackbar("marikoCpuUVLow", 8),
           addConfigTrackbar("marikoCpuUVHigh", 12),
           Names("tableConf", 0, 1..4, TRUE),
           Between("marikoCpuLowVmin", 550, 750, 5, 1, TRUE),
           Between("marikoCpuHighVmin", 650, 900, 5, 1, TRUE),
           Between("marikoCpuMaxVolt", 1000, 1200, 5, 1, TRUE),
           Names("marikoCpuMaxClock", 1, MarikoCpuClocks, TRUE),
           Names("marikoCpuBoostClock", 1, MarikoCpuClocks, TRUE)}
     ELSE {addConfigTrackbar("eristaCpuUV", 5),
           addConfigToggle("eristaCpuUnlock", TRUE),
           Between("eristaCpuVmin", 700, 900, 25, 1, TRUE),
           Between("eristaCpuMaxVolt", 1120, 1260, 5, 1, TRUE),
           Names("EristaMaxCpuClock", 1, {c \div 1000 : c \in EristaCpuClocks}, FALSE),
           Names("eristaCpuBoostClock", 1, EristaCpuClocks, TRUE)})
      \cup {addConfigToggle("OverwriteBoostMode", FALSE)}

GpuSettings(m) ==
    (IF IsErista(m)
     THEN {Names("eristaGpuUV", 1, {0, 1, 2}, TRUE),
           Between("eristaGpuVmin", 675, 875, 5, 1, TRUE)}
     ELSE {Names("marikoGpuUV", 1, {0, 1, 2}, TRUE),
           Between("marikoGpuBootVolt", 700, 800, 5, 1, TRUE),
           Names("marikoGpuVmin", 1, ValueRange(480, 795, 5), TRUE),
           Between("marikoGpuVmax", 800, 960, 5, 1, TRUE)})
      \cup {Names("commonGpuVoltOffset", 1, ValueRange(0, 50, 5) \ {35}, TRUE),
            Names("GPUScheduling", 0, {0, 1, 2}, FALSE),
            Names("DVFSMode", 0, {0, 1}, FALSE),
            Names("DVFSOffset", 0, ValueRange(-80, 20, 5), FALSE)}

\* The voltages of the GPU clocks; 2000 disables a clock, 0 leaves the voltage
\* to the loader, up to the last clock the loader can compute one for.  The
\* undervolt level decides how many clocks are listed.
GpuCustomTable(m, gpuUV) ==
    LET Volts(lo, hi) == {2000} \cup ValueRange(lo, hi, 5)
        Listed(clocks, base, next) ==
            {c \in clocks : \/ c <= base
                            \/ c <= next /\ gpuUV >= 1
                            \/ gpuUV >= 2}
        Table(key, clocks, auto, volts, noAuto) ==
            LET Named(c) == IF c <= auto THEN volts \cup {0} ELSE noAuto
            IN  {Control(key, c, Named(c), Named(c), 1, TRUE) : c \in clocks}
    IN  IF IsMariko(m)
        THEN Table("g_volt", Listed(MarikoGpuClocks, 1075200, 1152000),
                   1305600, Volts(480, 960), Volts(480, 960))
        ELSE Table("g_volt_e", Listed(EristaGpuClocks, 921600, 960000),
                   998400, Volts(675, 995), Volts(700, 995))

\* Every control the overlay can list, at the highest undervolt level.
Controls(m) ==
    GeneralSettings(m) \cup ExperimentalSettings(m) \cup GovernorSettings(m)
      \cup DisplaySettings(m, FALSE) \cup SafetySettings(m) \cup RamSettings(m)
      \cup RamTimings(m) \cup CpuSettings(m) \cup GpuSettings(m)
      \cup GpuCustomTable(m, 2)
==============================================================================
