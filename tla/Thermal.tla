------------------------------- MODULE Thermal -------------------------------
(***************************************************************************)
(* The temperature sensors: the SOC_THERM block and its calibration        *)
(* (tsensor/tsensor_common.cpp, soctherm.cpp), the always-on sensor of the *)
(* PMC (aotag.cpp) and what board::GetTemperatureMilli makes of them       *)
(* (board/board_sensor.cpp). Temperatures of the die are in half degrees,  *)
(* the step of SOC_THERM, and what is shown is in thousandths of a degree. *)
(* The Horizon kernel puts SOC_THERM in reset during sleep, which loses    *)
(* its registers (external).                                               *)
(***************************************************************************)
EXTENDS Integers, FiniteSets

CONSTANTS Fuses,       \* the calibration fuses of the console
          Dies,        \* temperatures of the zones of the die
          GarbageTemp  \* what a sensor without its calibration reads

\* Temperatures, in half degrees, that a register of a byte of degrees holds.
HalfDegrees == -511..511

Zones == {"cpu", "gpu", "pllx", "mem", "ao"}

ASSUME ThermalAssumption == Dies \subseteq [Zones -> HalfDegrees]

VARIABLES soc,     \* GetSocType()
          fuse,    \* the fuse array
          die,     \* the zones' temperatures
          calib,   \* calib[]: the calibration of every sensor, or none before init
          block,   \* the SOC_THERM registers
          aotag,   \* wasInit, and whether PMC_TSENSOR_STATUS1 is valid
          shown    \* the last entry of gContext.temps that was written

thermal == <<soc, fuse, die, calib, block, aotag, shown>>

\* The thermal sensors read from the SoC; SOC and PCB are the TMP451's.
DieSensors == {"PMIC", "CPU", "GPU", "MEM", "PLLX", "AO"}

---------------------------------------------------------------------------
(* Calibration. *)

\* pdiv, and mult = pdiv * tsample_ate and div = tsample * pdiv_ate in lowest
\* terms (TLC's integers have 32 bits).
eristaConf == [pdiv |-> 8, mult |-> 4, div |-> 1]
marikoConf == [pdiv |-> 12, mult |-> 4, div |-> 1]
tegra_aotag_config == [pdiv |-> 8, mult |-> 13, div |-> 3]
tegra210b01_aotag_config == [pdiv |-> 12, mult |-> 78, div |-> 19]

\* alpha and beta of fuse_corr, in hundreds; every one is a multiple of 100.
marikoTSensors ==
    [cpu0 |-> <<10850, 32442>>, cpu1 |-> <<11262, -675>>,
     cpu2 |-> <<10984, 22511>>, cpu3 |-> <<11080, 6027>>,
     gpu |-> <<10743, 27349>>, pllx |-> <<10397, 68291>>]

eristaTSensors ==
    [cpu0 |-> <<10850, 32442>>, cpu1 |-> <<11262, -675>>,
     cpu2 |-> <<10984, 22511>>, cpu3 |-> <<11080, 6027>>,
     gpu |-> <<10743, 27349>>, pllx |-> <<10397, 68291>>,
     mem0 |-> <<10692, 35499>>, mem1 |-> <<11737, -62636>>]

tegra_aotag_coeff == <<10632, -67490>>
tegra210b01_aotag_coeff == <<9911, 10962>>

TSensors(s) == IF s = "Mariko" THEN marikoTSensors ELSE eristaTSensors
Conf(s) == IF s = "Mariko" THEN marikoConf ELSE eristaConf
AotagConf(s) == IF s = "Mariko" THEN tegra210b01_aotag_config ELSE tegra_aotag_config
AotagCoeff(s) == IF s = "Mariko" THEN tegra210b01_aotag_coeff ELSE tegra_aotag_coeff

\* The signed number in the bits 0 to i of v.
sign_extend32(v, i) ==
    LET u == v % 2^(i + 1) IN IF u >= 2^i THEN u - 2^(i + 1) ELSE u

S16(v) == sign_extend32(v, 15)

\* div64_s64_precise rounds down: its 16 guard bits tell every quotient of a
\* divisor below 65536, and of 10^6 with operands in hundreds, from the next.
div64_s64_precise(a, b) == a \div b

\* The two fused temperatures, in half degrees.
CalcSharedCal(f) ==
    [base_cp |-> f.base_cp, base_ft |-> f.base_ft,
     temp_cp |-> 2 * 25 + sign_extend32(f.shift_cp, 5),
     temp_ft |-> 2 * 105 + sign_extend32(f.shift_ft, 4)]

CountCp(f) == f.base_cp * 64 + sign_extend32(f.cp, 12)
CountFt(f) == f.base_ft * 32 + sign_extend32(f.ft, 12)

SwappedPoints(conf, f, corr) ==
    LET sh == CalcSharedCal(f)
        cp == CountCp(f)
        ft == CountFt(f)
        a  == S16(div64_s64_precise((sh.temp_ft - sh.temp_cp) * 8192 * conf.mult,
                                    (ft - cp) * conf.div))
        b  == S16(div64_s64_precise(cp * sh.temp_cp - ft * sh.temp_ft, ft - cp))
    IN  [a |-> S16(div64_s64_precise(a * corr[1], 10000)),
         b |-> S16(div64_s64_precise(b * corr[1] + corr[2], 10000))]

\* The line through both fused points, corrected by alpha and beta.
CalcTSensorCalib(conf, f, corr) ==
    LET sh == CalcSharedCal(f)
        cp == CountCp(f)
        ft == CountFt(f)
        a  == S16(div64_s64_precise((sh.temp_ft - sh.temp_cp) * 8192 * conf.mult,
                                    (ft - cp) * conf.div))
        b  == S16(div64_s64_precise(ft * sh.temp_cp - cp * sh.temp_ft, ft - cp))
    IN  [a |-> S16(div64_s64_precise(a * corr[1], 10000)),
         b |-> S16(div64_s64_precise(b * corr[1] + corr[2], 10000))]

\* Before InitializeSoctherm.
NoCalib == [x \in {} |-> 0]

AllCalib(s, f) ==
    [x \in DOMAIN TSensors(s) |-> CalcTSensorCalib(Conf(s), f, TSensors(s)[x])]

---------------------------------------------------------------------------
(* The SOC_THERM block. *)

\* The registers after a reset of the block.
ResetBlock == [on |-> TRUE, clken |-> FALSE, conf2 |-> NoCalib, pdiv |-> 0]

\* Which block fields StartSensors writes: CONFIG0 to CONFIG2 of every sensor
\* (EnableSensor), the pre-dividers and, last, the clock enable.
BareStart(bl) == [bl EXCEPT !.clken = TRUE]

StartSensors(bl) ==
    [bl EXCEPT !.conf2 = calib, !.pdiv = Conf(soc).pdiv, !.clken = TRUE]

IsDisabledThroughSleep(bl) == ~bl.on
IsSensorEnabled(bl) == bl.clken

\* The encoding of a temperature register (external): the magnitude in bits 8
\* to 15, a half degree in bit 7, the sign in bit 0.
Encode(h) ==
    LET m == IF h < 0 THEN -h ELSE h
    IN  (m \div 2) * 256 + (m % 2) * 128 + (IF h < 0 THEN 1 ELSE 0)

TranslateTemp(v) ==
    LET t == ((v \div 256) % 256) * 1000 + ((v \div 128) % 2) * 500
    IN  IF v % 2 = 1 THEN -t ELSE t

\* What the block measures (external): only sensors that run with their
\* calibration and pre-divider follow the die.
Measured(bl, z) ==
    IF bl.clken /\ bl.conf2 = calib /\ bl.pdiv = Conf(soc).pdiv
    THEN Encode(die[z]) ELSE Encode(GarbageTemp)

NoTemps == [cpu |-> 0, gpu |-> 0, pllx |-> 0, mem |-> 0]

\* The block and the temperatures after ReadTSensors.
ReadTSensors(bl) ==
    IF IsDisabledThroughSleep(bl) THEN [block |-> bl, temps |-> NoTemps]
    ELSE LET b == IF IsSensorEnabled(bl) THEN bl ELSE StartSensors(bl)
         IN  [block |-> b,
              temps |-> [z \in {"cpu", "gpu", "pllx", "mem"} |->
                           IF z = "mem" /\ soc = "Mariko" THEN -1
                           ELSE TranslateTemp(Measured(b, z))]]

---------------------------------------------------------------------------
(* AOTAG and the values shown. *)

InitializeAotag(s, f) ==
    [ready |-> TRUE, valid |-> FALSE,
     conf2 |-> CalcTSensorCalib(AotagConf(s), f, AotagCoeff(s))]

ReadAotag(ready, valid) ==
    IF ~ready THEN -126
    ELSE IF ~valid THEN -125
    ELSE TranslateTemp(Encode(die["ao"]))

AtLeastZero(x) == IF x < 0 THEN 0 ELSE x

BlendBelowZero(s, t, ao1, ao2) ==
    IF s = "MEM" /\ soc = "Mariko" /\ aotag.ready
    THEN AtLeastZero((t.pllx + 9 * ao2) \div 10)
    ELSE AtLeastZero(t.pllx)

\* GetTemperatureMilli; ao1 and ao2 are its two readings of the AOTAG. The
\* blend of the memory's temperature is in float in the code, cut to an integer.
GetTemperatureMilli(s, t, ao1, ao2) ==
    CASE s = "PMIC" -> 50000
      [] s = "CPU"  -> AtLeastZero(t.cpu)
      [] s = "GPU"  -> AtLeastZero(t.gpu)
      [] s = "PLLX" -> AtLeastZero(t.pllx)
      [] s = "AO"   -> AtLeastZero(ao1)
      [] s = "MEM"  ->
            IF soc = "Erista" THEN AtLeastZero(t.mem)
            ELSE IF aotag.ready /\ ao1 > 0 THEN AtLeastZero((t.pllx + 9 * ao2) \div 10)
            ELSE AtLeastZero(t.pllx)

---------------------------------------------------------------------------

ThermalInit ==
    /\ soc \in {"Mariko", "Erista"}
    /\ fuse \in Fuses
    /\ die \in Dies
    /\ calib = NoCalib
    /\ block = ResetBlock
    /\ aotag = [ready |-> FALSE, valid |-> FALSE, conf2 |-> NoCalib]
    /\ shown = [sensor |-> "CPU", milli |-> 0]

InitializeSoctherm(bl) ==
    [bl EXCEPT !.conf2 = AllCalib(soc, fuse), !.pdiv = Conf(soc).pdiv, !.clken = TRUE]

\* InitializeSoctherm, then InitializeAotag if the secure monitor lets the
\* process read the PMC.
InitializeSensors ==
    /\ calib = NoCalib
    /\ calib' = AllCalib(soc, fuse)
    /\ block' = InitializeSoctherm(block)
    /\ \/ aotag' = InitializeAotag(soc, fuse)
       \/ UNCHANGED aotag
    /\ UNCHANGED <<soc, fuse, die, shown>>

\* The console sleeps and wakes (external): SOC_THERM loses its registers.
Sleep ==
    /\ calib # NoCalib /\ block.on
    /\ block' = [ResetBlock EXCEPT !.on = FALSE]
    /\ UNCHANGED <<soc, fuse, die, calib, aotag, shown>>

Wake ==
    /\ ~block.on
    /\ block' = ResetBlock
    /\ UNCHANGED <<soc, fuse, die, calib, aotag, shown>>

\* The AOTAG finishes a conversion, or starts over (external).
AotagConverts ==
    /\ aotag.ready
    /\ aotag' = [aotag EXCEPT !.valid = ~@]
    /\ UNCHANGED <<soc, fuse, die, calib, block, shown>>

\* One sensor of RefreshContext's loop; the AOTAG's second reading may find
\* another state than the first.
Refresh(s) ==
    /\ calib # NoCalib
    /\ LET r == ReadTSensors(block)
       IN  \E v \in BOOLEAN :
             /\ block' = r.block
             /\ shown' = [sensor |-> s, milli |->
                    GetTemperatureMilli(s, r.temps, ReadAotag(aotag.ready, aotag.valid),
                                        ReadAotag(aotag.ready, v))]
    /\ UNCHANGED <<soc, fuse, die, calib, aotag>>

ThermalNext ==
    \/ InitializeSensors \/ Sleep \/ Wake \/ AotagConverts
    \/ \E s \in DieSensors : Refresh(s)

ThermalSpec == ThermalInit /\ [][ThermalNext]_thermal

---------------------------------------------------------------------------

ThermalTypeOK ==
    /\ soc \in {"Mariko", "Erista"} /\ fuse \in Fuses /\ die \in Dies
    /\ calib \in {NoCalib, AllCalib(soc, fuse)}
    /\ block.on \in BOOLEAN /\ block.clken \in BOOLEAN
    /\ aotag.ready \in BOOLEAN /\ aotag.valid \in BOOLEAN
    /\ shown.sensor \in DieSensors /\ shown.milli \in Nat

\* A sensor's line, applied to the counts the fuses record, gives the fused
\* temperatures as corrected by alpha and beta, to two degrees (four half
\* degrees): no coefficient has lost its sign or overflowed 16 bits
\* (CalcTSensorCalib).
Line(conf, c, count) == (c.a * ((count * conf.div) \div conf.mult)) \div 8192 + c.b

Corrected(corr, t) == (t * corr[1] + corr[2]) \div 10000

Hits(f, conf, c, corr) ==
    LET sh == CalcSharedCal(f)
    IN  /\ Line(conf, c, CountCp(f)) - Corrected(corr, sh.temp_cp) \in -4..4
        /\ Line(conf, c, CountFt(f)) - Corrected(corr, sh.temp_ft) \in -4..4

CalibrationHitsFusedPoints ==
    /\ \A x \in DOMAIN calib : Hits(fuse, Conf(soc), calib[x], TSensors(soc)[x])
    /\ aotag.ready => Hits(fuse, AotagConf(soc), aotag.conf2, AotagCoeff(soc))

\* The arithmetic loses nothing on these fuses: what CalibrationHitsFusedPoints
\* says of a console once its sensors are initialized.
FusesMeet ==
    \A s \in {"Mariko", "Erista"}, f \in Fuses :
        /\ \A x \in DOMAIN TSensors(s) :
              Hits(f, Conf(s), CalcTSensorCalib(Conf(s), f, TSensors(s)[x]), TSensors(s)[x])
        /\ Hits(f, AotagConf(s), CalcTSensorCalib(AotagConf(s), f, AotagCoeff(s)),
                AotagCoeff(s))

\* Whatever the console slept through, a temperature of the die is shown as it
\* is or, below zero or while the block is held in reset, as 0; the reading of
\* a sensor that lost its calibration is never shown (ReadTSensors restarts the
\* sensors first).
DieOf(s) == CASE s = "CPU" -> "cpu" [] s = "GPU" -> "gpu"
              [] s = "PLLX" -> "pllx" [] s = "AO" -> "ao"

DieShown ==
    shown.sensor \in {"CPU", "GPU", "PLLX", "AO"} =>
        shown.milli \in {0, AtLeastZero(500 * die[DieOf(shown.sensor)])}

\* The memory's temperature is PLLX alone or blended with the AOTAG, and never
\* warmer than both. PLLX counts as 0 while the block is held in reset; when the
\* AOTAG starts over between the two readings of one call the blend falls to a
\* tenth of PLLX, never lower than that (board_sensor.cpp:88-93).
MemBlend ==
    soc = "Mariko" /\ shown.sensor = "MEM" =>
        \E pll \in {0, 500 * die["pllx"]} :
            /\ shown.milli >= pll \div 10 - 113
            /\ shown.milli <= AtLeastZero(pll) \/ shown.milli <= 500 * die["ao"]

\* Temperatures that are shown, and that the thermal throttle decides on, were
\* measured: by calibrated sensors that meet their two fused points.
ThermalInv == CalibrationHitsFusedPoints /\ DieShown /\ MemBlend
=============================================================================
