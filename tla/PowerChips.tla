------------------------------ MODULE PowerChips ------------------------------
(***************************************************************************)
(* The chips behind I2C: the charger and the display rail the clock        *)
(* manager programs every eleventh tick (i2c/i2cDrv.cpp, HandleMisc-       *)
(* Features of mgr/clock_manager.cpp), the MAX17050 fuel gauge and the     *)
(* TMP451 thermometer, each behind a cache of one second (i2c/max17050.c,  *)
(* tmp451.c). Every transfer may fail. A measurement of the gauge is       *)
(* modelled by the update it was taken in: what the code may mix up is     *)
(* which readings a power is computed from, not the product.               *)
(***************************************************************************)
EXTENDS Integers, Sequences, FiniteSets

CONSTANTS ChargeCurrents,   \* values of BatteryChargeCurrent, 0: do not override
          DisplayMvs,       \* values of DisplayVoltage
          Boards,           \* temperatures the TMP451 measures, in sixteenths
          RailRegisters,    \* what a converter's register may hold
          MaxUpdates        \* bound: updates of the fuel gauge

\* hocclkValidConfigValue of the two settings.
ValidCharge(ma) == ma = 0 \/ (ma >= 1024 /\ ma <= 3072)
ValidDisplay(mv) == mv >= 800 /\ mv <= 1325

\* A temperature is a byte of degrees and four bits, a register a byte.
Temperatures == 0..4095

ASSUME ChipsAssumption ==
    /\ \A ma \in ChargeCurrents : ma \in Nat /\ ValidCharge(ma)
    /\ \A mv \in DisplayMvs : mv \in Nat /\ ValidDisplay(mv)
    /\ Boards \subseteq Temperatures
    /\ RailRegisters \subseteq 0..255
    /\ MaxUpdates \in Nat

VARIABLES asked,    \* the settings: charge current and display voltage
          tick,     \* HandleMiscFeatures' static counter
          since,    \* ticks since a setting changed or a transfer failed, cut at 11
          charger,  \* the charger's current register
          ldo0,     \* the display rail's register
          hot,      \* what the TMP451 would measure now
          chip,     \* tmp451.c: the next step of its update, and its results
          gauge,    \* max17050.c: the updates done, its next step, its results
          volt      \* GetVoltage: the rail asked for, its register, the readings, the answer

chips == <<asked, tick, since, charger, ldo0, hot, chip, gauge, volt>>

---------------------------------------------------------------------------
(* The display rail; mask is one more than volt_mask. *)

I2c_Display == [mask |-> 64, step |-> 25000, min |-> 800000, max |-> 1325000, por |-> 0]
I2c_SOC == [mask |-> 128, step |-> 12500, min |-> 600000, max |-> 1400000, por |-> 0]
I2c_VDD2 == [I2c_SOC EXCEPT !.max = 1350000]
I2c_Mariko == [mask |-> 256, step |-> 5000, min |-> 250000, max |-> 1525000, por |-> 120]

MultiplierToUvOut(d, m) == d.min + d.step * m

MvOutToMultiplier(d, mv) ==
    LET uv == mv * 1000
    IN  ((IF uv < d.min THEN d.min ELSE IF uv > d.max THEN d.max ELSE uv) - d.min)
            \div d.step

\* The register SetMvOut writes: the voltage bits (below mask) are replaced.
WholeRegister(d, reg, mv) == MvOutToMultiplier(d, mv)

SetMvOut(d, reg, mv) == (reg - (reg % d.mask)) + (MvOutToMultiplier(d, mv) % d.mask)

\* A reading ends GetUvOut when it failed or is not the value the register has
\* at power-on, which the chip now and then gives while it is busy.
FirstReadingEnds(d, r) == TRUE
ReadingEnds(d, r) == r = -1 \/ d.por = 0 \/ r # d.por

\* GetUvOut of the readings it takes, five at most; a failed one makes it 0.
GetUvOut(d, reads) ==
    LET last == reads[Len(reads)]
    IN  IF last = -1 THEN 0 ELSE MultiplierToUvOut(d, last % d.mask)

\* The converter GetVoltage reads for a voltage of the context; on Erista CPU and
\* GPU are left to the regulator service.
DomainOf(s, v) ==
    CASE v = "SOC" -> I2c_SOC
      [] v = "EMCVDD2" \/ (v = "EMCVDDQ" /\ s = "Erista") -> I2c_VDD2
      [] v = "Display" -> I2c_Display
      [] OTHER -> I2c_Mariko

Voltages == {"SOC", "EMCVDD2", "CPU", "GPU", "EMCVDDQ", "Display"}
Serviced(s, v) == s = "Erista" /\ v \in {"CPU", "GPU"}

---------------------------------------------------------------------------
(* The charger. *)

MA_RANGE_MIN == 512
MA_RANGE_MAX == 4544

\* u32 arithmetic: a current below a fifth of 448 would wrap; the settings
\* allow none.
Convert_mA_Raw(ma) ==
    LET capped == IF ma > MA_RANGE_MAX THEN MA_RANGE_MAX ELSE ma
        pct20  == capped <= MA_RANGE_MIN - 64
        scaled == IF pct20 THEN capped * 5 ELSE capped
        steps  == ((scaled - (scaled % 100)) - (MA_RANGE_MIN - 64)) \div 64
    IN  ((steps * 4) % 256) + (IF pct20 THEN 1 ELSE 0)

Convert_Raw_mA(raw) ==
    LET ma == (raw \div 4) * 64 + MA_RANGE_MIN
    IN  IF raw % 2 = 1 THEN (ma * 20) \div 100 ELSE ma

---------------------------------------------------------------------------
(* The TMP451: the two registers of a channel are read one after the other. *)

Whole(h) == (h \div 16) * 1000
Decimal(h) == ((h % 16) * 625) \div 10

OneDegree == -1000..1000

---------------------------------------------------------------------------

ChipsInit ==
    /\ asked = [charge |-> 0, display |-> 1200]
    /\ tick = 0 /\ since = 0
    /\ charger = 96
    /\ ldo0 = 192 + 16     \* both mode bits, 1.2 V
    /\ hot \in Boards
    /\ chip = [at |-> "idle", pcb |-> 0, soc |-> 0, of |-> 0]
    /\ gauge = [at |-> "idle", n |-> 0, amp |-> 0,
                now |-> [amp |-> 0, volt |-> 0], avg |-> [amp |-> 0, volt |-> 0]]
    /\ volt \in [soc: {"Mariko", "Erista"}, of: Voltages, reg: RailRegisters,
                 reads: {<<>>}, out: {-1}]

\* The user changes a setting.
ChangeSetting ==
    /\ asked' \in [charge: ChargeCurrents, display: DisplayMvs]
    /\ since' = 0
    /\ UNCHANGED <<tick, charger, ldo0, hot, chip, gauge, volt>>

\* HandleMiscFeatures, once a tick.
NextTick(t) == IF t + 1 > 10 THEN 0 ELSE t + 1

HandleMiscFeatures ==
    /\ tick' = NextTick(tick)
    /\ since' = IF since = 11 THEN 11 ELSE since + 1
    /\ IF tick' = 0
       THEN /\ charger' = IF asked.charge # 0 THEN Convert_mA_Raw(asked.charge) ELSE charger
            /\ ldo0' = SetMvOut(I2c_Display, ldo0, asked.display)
       ELSE UNCHANGED <<charger, ldo0>>
    /\ UNCHANGED <<asked, hot, chip, gauge, volt>>

\* One of the tick's transfers fails: its register stays as it is, the results
\* are ignored.
TransferFails ==
    /\ tick = 10
    /\ tick' = 0 /\ since' = 0
    /\ \/ /\ UNCHANGED charger
          /\ ldo0' \in {ldo0, SetMvOut(I2c_Display, ldo0, asked.display)}
       \/ /\ asked.charge # 0
          /\ charger' = Convert_mA_Raw(asked.charge)
          /\ UNCHANGED ldo0
    /\ UNCHANGED <<asked, hot, chip, gauge, volt>>

\* The board warms up or cools down (external).
Drift ==
    /\ hot' \in Boards \ {hot}
    /\ UNCHANGED <<asked, tick, since, charger, ldo0, chip, gauge, volt>>

\* tmp451TempSoc or tmp451TempPcb, once the last update is a second old.
StartTmp451 ==
    /\ chip.at = "idle"
    /\ chip' = [chip EXCEPT !.at = "pcbWhole"]
    /\ UNCHANGED <<asked, tick, since, charger, ldo0, hot, gauge, volt>>

\* _tmp451_get_temp: a channel's whole degrees are stored, then its decimals
\* are added. The field "of" remembers what the SoC's whole degrees were read of.
AddWhole(c) ==
    IF c.at = "pcbWhole" THEN [c EXCEPT !.pcb = Whole(hot), !.at = "pcbDec"]
    ELSE [c EXCEPT !.soc = Whole(hot) + (@ % 1000), !.of = hot, !.at = "socDec"]

StoreWhole(c) ==
    IF c.at = "pcbWhole" THEN [c EXCEPT !.pcb = Whole(hot), !.at = "pcbDec"]
    ELSE [c EXCEPT !.soc = Whole(hot), !.of = hot, !.at = "socDec"]

ReadWhole ==
    /\ chip.at \in {"pcbWhole", "socWhole"}
    /\ chip' = StoreWhole(chip)
    /\ UNCHANGED <<asked, tick, since, charger, ldo0, hot, gauge, volt>>

ReadDecimal ==
    /\ chip.at \in {"pcbDec", "socDec"}
    /\ chip' = IF chip.at = "pcbDec"
               THEN [chip EXCEPT !.pcb = @ + Decimal(hot), !.at = "socWhole"]
               ELSE [chip EXCEPT !.soc = @ + Decimal(hot), !.at = "idle"]
    /\ UNCHANGED <<asked, tick, since, charger, ldo0, hot, gauge, volt>>

\* A failed transfer ends its channel, with whole degrees if those were read.
Tmp451Fails ==
    /\ chip.at # "idle"
    /\ chip' = [chip EXCEPT !.at = IF @ \in {"pcbWhole", "pcbDec"} THEN "socWhole"
                                   ELSE "idle"]
    /\ UNCHANGED <<asked, tick, since, charger, ldo0, hot, gauge, volt>>

\* _max17050_get_power: the first transfer brings voltage, current and average
\* current, the second the average voltage.
ReadGauge ==
    /\ gauge.at = "idle" /\ gauge.n < MaxUpdates
    /\ gauge' = [gauge EXCEPT !.n = @ + 1, !.at = "second", !.amp = gauge.n + 1,
                              !.now = [amp |-> gauge.n + 1, volt |-> gauge.n + 1]]
    /\ UNCHANGED <<asked, tick, since, charger, ldo0, hot, chip, volt>>

AverageOf(g) == [amp |-> g.amp, volt |-> g.n]

ReadGaugeAverage ==
    /\ gauge.at = "second"
    /\ gauge' = [gauge EXCEPT !.at = "idle", !.avg = AverageOf(gauge)]
    /\ UNCHANGED <<asked, tick, since, charger, ldo0, hot, chip, volt>>

HalfUpdated(g) ==
    IF g.at = "idle" THEN [g EXCEPT !.n = @ + 1, !.avg.amp = g.n + 1]
    ELSE [g EXCEPT !.at = "idle", !.avg.amp = g.n]

\* A failed transfer leaves what the rest of the update would have written.
FailedGauge(g) ==
    IF g.at = "idle" THEN [g EXCEPT !.n = @ + 1] ELSE [g EXCEPT !.at = "idle"]

GaugeFails ==
    /\ gauge.at = "second" \/ gauge.n < MaxUpdates
    /\ gauge' = FailedGauge(gauge)
    /\ UNCHANGED <<asked, tick, since, charger, ldo0, hot, chip, volt>>

\* GetVoltage through the regulator service: a failure leaves 0.
AskRegulator ==
    /\ Serviced(volt.soc, volt.of) /\ volt.out = -1
    /\ volt' \in {[volt EXCEPT !.out = 0],
                  [volt EXCEPT !.out = MultiplierToUvOut(I2c_Mariko, volt.reg)]}
    /\ UNCHANGED <<asked, tick, since, charger, ldo0, hot, chip, gauge>>

\* GetVoltage through I2C, one reading: what the register holds, the value at
\* power-on, or a failure.
ReadRail ==
    LET d == DomainOf(volt.soc, volt.of)
    IN  /\ ~Serviced(volt.soc, volt.of) /\ volt.out = -1
        /\ \E r \in {volt.reg, d.por, -1} :
              LET reads == Append(volt.reads, r)
              IN  volt' = [volt EXCEPT !.reads = reads,
                              !.out = IF ReadingEnds(d, r) \/ Len(reads) = 5
                                      THEN GetUvOut(d, reads) ELSE -1]
        /\ UNCHANGED <<asked, tick, since, charger, ldo0, hot, chip, gauge>>

VoltNext == AskRegulator \/ ReadRail
RailNext == ChangeSetting \/ HandleMiscFeatures \/ TransferFails
TmpNext == Drift \/ StartTmp451 \/ ReadWhole \/ ReadDecimal \/ Tmp451Fails
GaugeNext == ReadGauge \/ ReadGaugeAverage \/ GaugeFails

ChipsNext == RailNext \/ TmpNext \/ GaugeNext \/ VoltNext

ChipsSpec == ChipsInit /\ [][ChipsNext]_chips

---------------------------------------------------------------------------

ChipsTypeOK ==
    /\ asked \in [charge: ChargeCurrents \cup {0}, display: DisplayMvs \cup {1200}]
    /\ tick \in 0..10 /\ since \in 0..11
    /\ charger \in 0..255 /\ ldo0 \in 0..255 /\ hot \in Boards
    /\ gauge.n \in 0..MaxUpdates
    /\ volt.out >= -1 /\ Len(volt.reads) <= 5

\* Once eleven ticks have passed without a failed transfer, the chips carry the
\* settings: the charge current to a step of 64 mA of the one asked, the
\* display rail the highest step not above the voltage asked, and the rail's
\* mode bits are the ones it had (HandleMiscFeatures; an override set back to 0
\* leaves the charger's limit as it was).
SettingsLand ==
    /\ ldo0 \div 64 = 3
    /\ since = 11 =>
        /\ asked.charge # 0 => Convert_Raw_mA(charger) - asked.charge \in -100..64
        /\ asked.display * 1000 - GetUvOut(I2c_Display, <<ldo0>>)
              \in 0..(I2c_Display.step - 1)

\* A temperature of the TMP451, on which the thermal throttle decides, is
\* within a degree of what the chip measured when the update came to read it,
\* however far it drifts before its decimals are read, cut short by a failed
\* transfer or not (_tmp451_get_temp).
TmpWithinADegree == chip.soc - (chip.of * 625) \div 10 \in OneDegree

\* Each power is computed from a current and a voltage of one update, and the
\* average the TDP limit decides on is never newer than the last one read
\* (_max17050_get_power).
PowerOfOneUpdate ==
    /\ gauge.now.amp = gauge.now.volt
    /\ gauge.avg.amp = gauge.avg.volt

\* The voltage GetVoltage shows for a converter with a power-on value is the one
\* in its register, or 0 after a failed transfer, and the power-on value in its
\* place only when five readings in a row gave that (I2c_BuckConverter_GetUvOut).
VoltageShownIsTheRails ==
    LET d == DomainOf(volt.soc, volt.of)
    IN  ~Serviced(volt.soc, volt.of) /\ volt.out # -1 /\ d.por # 0 =>
          \/ volt.out = MultiplierToUvOut(d, volt.reg % d.mask)
          \/ volt.out = 0 /\ \E i \in DOMAIN volt.reads : volt.reads[i] = -1
          \/ Len(volt.reads) = 5 /\ \A i \in 1..5 : volt.reads[i] = d.por

\* Settings reach the chips and measurements come from them whole, though any
\* transfer may fail and the chips convert between two transfers.
ChipsInv == SettingsLand /\ TmpWithinADegree /\ PowerOfOneUpdate /\ VoltageShownIsTheRails
=============================================================================
