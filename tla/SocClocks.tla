------------------------------ MODULE SocClocks ------------------------------
(***************************************************************************)
(* What the sysmodule does to the SoC's clocks and counters behind PCV's   *)
(* back: the slide of the GPU's PLL to a clock PCV does not offer          *)
(* (soc/gm20b.cpp, board::SetHz), the measurement of the memory's load     *)
(* (soc/t210.c), the loads of GPU and CPU (board/board_load.cpp) and the   *)
(* tuning of the CPU's DFLL (board/board_volt.cpp, HandleCpuUv). Clocks    *)
(* are in kHz.                                                             *)
(***************************************************************************)
EXTENDS Integers, Sequences

CONSTANTS GpuClocks,    \* clocks asked of board::SetHz(GPU)
          Samples,      \* gpu_samples_average: 8 in the code
          GpuSamples,   \* loads the GPU's counter gives, in tenths of a percent
          IdleTicks,    \* idle ticks of a core over a half-second window
          EmcClocks,    \* memory clocks PTO measures
          Levels        \* undervolt levels, 0: none

ASSUME SocAssumption ==
    /\ GpuClocks \subseteq Nat
    /\ Samples \in Nat \ {0}
    /\ GpuSamples \subseteq 0..1000
    /\ IdleTicks \subseteq Nat
    /\ EmcClocks \subseteq Nat \ {0}

VARIABLES pll,     \* GPCPLL: the dividers m, n, p and the slowdown bits
          slide,   \* setClock: the step it is at, the coefficients it read, its target
          injected,  \* currentInjectedHz, or 0
          clash,   \* PCV wrote the PLL since it was set, or setClock gave up
          ring,    \* gpu_load_array, how many samples it took, gpuLoad
          idle,    \* idletick0 to idletick2
          emc,     \* t210.c: memory clock, loads and bandwidths of the last update
          cpu,     \* the CPU's clock as PCV has it
          tune     \* the level in force in CL_DVFS_TUNE0/1, and the settings

pllVars == <<pll, slide, injected, clash>>
loadVars == <<ring, idle, emc>>
tuneVars == <<cpu, tune>>
socVars == <<pll, slide, injected, clash, ring, idle, emc, cpu, tune>>

---------------------------------------------------------------------------
(* The GPU's PLL. *)

Osc == 38400

\* GM20B_Hz: what t210.c reads off the coefficients.
GpuFreq(c) == ((Osc * c.n) \div (c.m * c.p)) \div 2

\* Clocks PCV cannot set (useGm20b, Mariko), and the one it is given instead.
UseGm20b(f) == f % 38400 = 0 /\ f % 76800 # 0 /\ f < 1228800
PcvHz(f) == IF UseGm20b(f) THEN ((f + 76800 - 1) \div 76800) * 76800 ELSE f

\* The dividers PCV may choose for a clock (external), within the VCO's range.
VcoMin == 1300000
VcoMax == 2688000
PostDividers == {1, 2, 3, 4, 6, 8, 12, 16}

PcvDividers(f) ==
    {[m |-> 1, n |-> (2 * f * p) \div Osc, p |-> p] :
        p \in {q \in PostDividers : 2 * f * q \in VcoMin..VcoMax}}

NewDivn(c, f) ==
    LET n == (f * c.m * c.p * 2) \div Osc
    IN  IF n < 8 THEN 8 ELSE IF n > 255 THEN 255 ELSE n

NoSlide == [at |-> "idle", coeff |-> [m |-> 1, n |-> 1, p |-> 1], divn |-> 0, hz |-> 0]

\* SetHz(GPU): PCV sets its clock; a middle clock then starts a slide, unless
\* the dividers already give it, or one of them is read as 0 (unread: the GPU is
\* off). The clock is reported as injected when setClock returns, whatever it
\* returns.
SetGpu(f) ==
    /\ slide.at = "idle"
    /\ \E d \in PcvDividers(PcvHz(f)), unread \in BOOLEAN :
         /\ pll' = [pll EXCEPT !.c = d]
         /\ slide' = IF UseGm20b(f) /\ ~unread /\ NewDivn(d, f) # d.n
                     THEN [at |-> "setup", coeff |-> d, divn |-> NewDivn(d, f), hz |-> f]
                     ELSE slide
         /\ clash' = (UseGm20b(f) /\ unread)
    /\ injected' = IF UseGm20b(f) /\ slide' = slide THEN f ELSE 0
    /\ UNCHANGED <<ring, idle, emc, cpu, tune>>

\* _gpu_pllg_slide, one register write at a time: the slowdown, the new
\* coefficients (the ones read before, with another n), the ramp.
SlideSetup ==
    /\ slide.at = "setup"
    /\ pll' = [pll EXCEPT !.slow = TRUE]
    /\ slide' = [slide EXCEPT !.at = "coeff"]
    /\ UNCHANGED <<injected, clash>> /\ UNCHANGED loadVars /\ UNCHANGED tuneVars

SlideCoeff ==
    /\ slide.at = "coeff"
    /\ pll' = [pll EXCEPT !.c = [slide.coeff EXCEPT !.n = slide.divn]]
    /\ slide' = [slide EXCEPT !.at = "ramp"]
    /\ UNCHANGED <<injected, clash>> /\ UNCHANGED loadVars /\ UNCHANGED tuneVars

SlideRamp ==
    /\ slide.at = "ramp"
    /\ pll' = [pll EXCEPT !.ramp = TRUE]
    /\ slide' = [slide EXCEPT !.at = "wait"]
    /\ UNCHANGED <<injected, clash>> /\ UNCHANGED loadVars /\ UNCHANGED tuneVars

\* The PLL reports DYNRAMP_DONE_SYNCED within 500 us or not: the slowdown is
\* released either way.
LeaveOnTimeout(done) ==
    IF done THEN [pll EXCEPT !.slow = FALSE, !.ramp = FALSE] ELSE pll

Release(done) == [pll EXCEPT !.slow = FALSE, !.ramp = FALSE]

SlideEnds ==
    /\ slide.at = "wait"
    /\ \E done \in BOOLEAN : pll' = Release(done)
    /\ slide' = NoSlide
    /\ injected' = slide.hz
    /\ UNCHANGED clash /\ UNCHANGED loadVars /\ UNCHANGED tuneVars

\* Another process has PCV set the GPU's clock (external); at any time.
PcvOverwrites ==
    /\ \E f \in {g \in GpuClocks : ~UseGm20b(g)} :
         \E d \in PcvDividers(f) : pll' = [pll EXCEPT !.c = d]
    /\ clash' = TRUE
    /\ UNCHANGED <<slide, injected>> /\ UNCHANGED loadVars /\ UNCHANGED tuneVars

SlideNext ==
    \/ \E f \in GpuClocks : SetGpu(f)
    \/ SlideSetup \/ SlideCoeff \/ SlideRamp \/ SlideEnds \/ PcvOverwrites

---------------------------------------------------------------------------
(* Loads. *)

\* The sum of the first n samples, as the loop over gpu_load_array takes it.
SumOf(s) ==
    LET sum[n \in 0..Samples] == IF n = 0 THEN 0 ELSE sum[n - 1] + s[n]
    IN  sum[Samples]

\* One round of GpuLoadThread: the sample replaces the oldest one.
ShiftedSlot(i) == 1
Slot(i) == (i % Samples) + 1

SampleGpu ==
    /\ \E x \in GpuSamples :
         LET a == [ring.array EXCEPT ![Slot(ring.count)] = x]
         IN  ring' = [array |-> a, count |-> IF ring.count = 2 * Samples - 1 THEN Samples
                                             ELSE ring.count + 1,
                      load |-> SumOf(a) \div Samples,
                      last |-> IF Len(ring.last) < Samples THEN Append(ring.last, x)
                               ELSE Append(Tail(ring.last), x)]
    /\ UNCHANGED <<idle, emc>> /\ UNCHANGED pllVars /\ UNCHANGED tuneVars

\* One window of CheckCore on a core; a wait that overslept counts more idle
\* ticks than a window has.
CheckCore ==
    /\ \E c \in 0..2, t \in IdleTicks : idle' = [idle EXCEPT ![c] = t]
    /\ UNCHANGED <<ring, emc>> /\ UNCHANGED pllVars /\ UNCHANGED tuneVars

\* GetMaxCpuLoad, the window's ticks in thousands: 9600 for half a second.
WindowTicks == 9600

Usage(t) ==
    IF t > WindowTicks THEN 0
    ELSE ((WindowTicks - t) * 1000 + WindowTicks \div 2) \div WindowTicks

Higher(a, b) == IF a < b THEN b ELSE a

GetMaxCpuLoad(id) == Higher(Usage(id[0]), Higher(Usage(id[1]), Usage(id[2])))

\* _clock_update_freqs: the load is the share of the memory cycles of a period
\* (all and cpu are the two counters, in thousands of cycles), the bandwidths
\* in MB/s. The GPU's share is a difference of two counters read one after the
\* other: u32 arithmetic wraps if the CPU's is the higher.
EmcLoad(count, mhz) == (count * 1000) \div (mhz * 20)
EmcBw(mhz, load) == (mhz * 16 * load) \div 1000

Unscaled(mhz, all, own) ==
    LET la == EmcLoad(all, mhz)
        lc == EmcLoad(own, mhz)
    IN  [mhz |-> mhz, all |-> la, cpu |-> lc, bwAll |-> EmcBw(mhz, la),
         bwCpu |-> EmcBw(mhz, lc), bwGpu |-> EmcBw(mhz, lc) - EmcBw(mhz, la),
         peak |-> mhz * 16]

UpdateOf(mhz, all, own) ==
    LET la == EmcLoad(all, mhz)
        lc == EmcLoad(own, mhz)
    IN  [mhz |-> mhz, all |-> la, cpu |-> lc, bwAll |-> EmcBw(mhz, la),
         bwCpu |-> EmcBw(mhz, lc), bwGpu |-> EmcBw(mhz, la) - EmcBw(mhz, lc),
         peak |-> mhz * 16]

\* While the GPU is gated or a mapping is missing, only the clocks are new.
UpdateFreqs ==
    /\ \E mhz \in EmcClocks, share \in {0, 3, 10}, part \in {0, 7, 10} :
         \/ emc' = UpdateOf(mhz, mhz * 2 * share, (mhz * 2 * share * part) \div 10)
         \/ emc' = [emc EXCEPT !.mhz = mhz, !.peak = mhz * 16]
    /\ UNCHANGED <<ring, idle>> /\ UNCHANGED pllVars /\ UNCHANGED tuneVars

LoadNext == SampleGpu \/ CheckCore \/ UpdateFreqs

---------------------------------------------------------------------------
(* The CPU's DFLL. A tuning is <<table, level>>. *)

\* KipConfigValue_tableConf gives the clock at which the DFLL changes range.
CalculateTbreak(table) == IF table = 3 THEN 1683000 ELSE 1581000

TuneIgnoringBreak(low, high, clock, table, old) ==
    IF high # 0 THEN <<"high", high>> ELSE IF low # 0 THEN <<"low", low>> ELSE old

\* SetDfllTunings on Mariko; without a level nothing is written, and without a
\* low one nothing is written below the break.
SetDfllTunings(low, high, clock, table, old) ==
    IF clock < CalculateTbreak(table) \/ high = 0
    THEN IF low # 0 THEN <<"low", low>> ELSE old
    ELSE <<"high", high>>

CpuClocks == {1020000, 1581000, 1785000}

\* board::SetHz(CPU) with LiveCpuUv: the clock, then HandleCpuUv.
SetCpu ==
    /\ \E f \in CpuClocks :
         /\ cpu' = [clock |-> f, tuned |-> TRUE]
         /\ tune' = [tune EXCEPT !.now = SetDfllTunings(tune.low, tune.high, f, tune.table, @)]
    /\ UNCHANGED pllVars /\ UNCHANGED loadVars

\* The operating system changes the clock (external), the user the levels: the
\* tuning follows at the next HandleCpuUv.
OsSetsCpu ==
    /\ \E f \in CpuClocks : cpu' = [clock |-> f, tuned |-> FALSE]
    /\ UNCHANGED tune /\ UNCHANGED pllVars /\ UNCHANGED loadVars

SetLevels ==
    /\ \E l, h \in Levels, t \in {1, 3} :
         tune' = [now |-> tune.now, low |-> l, high |-> h, table |-> t]
    /\ cpu' = [cpu EXCEPT !.tuned = FALSE]
    /\ UNCHANGED pllVars /\ UNCHANGED loadVars

\* HandleMiscFeatures, every eleventh tick.
HandleCpuUv ==
    /\ tune' = [tune EXCEPT !.now =
                   SetDfllTunings(tune.low, tune.high, cpu.clock, tune.table, @)]
    /\ cpu' = [cpu EXCEPT !.tuned = TRUE]
    /\ UNCHANGED pllVars /\ UNCHANGED loadVars

TuneNext == SetCpu \/ OsSetsCpu \/ SetLevels \/ HandleCpuUv

---------------------------------------------------------------------------

SocInit ==
    /\ pll = [c |-> [m |-> 1, n |-> 48, p |-> 1], slow |-> FALSE, ramp |-> FALSE]
    /\ slide = NoSlide /\ injected = 0 /\ clash = FALSE
    /\ ring = [array |-> [i \in 1..Samples |-> 0], count |-> 0, load |-> 0, last |-> <<>>]
    /\ idle = [c \in 0..2 |-> 0]
    /\ emc = [mhz |-> 0, all |-> 0, cpu |-> 0, bwAll |-> 0, bwCpu |-> 0, bwGpu |-> 0, peak |-> 0]
    /\ cpu = [clock |-> 1020000, tuned |-> FALSE]
    /\ tune = [now |-> <<"stock", 0>>, low |-> 0, high |-> 0, table |-> 1]

SocNext == SlideNext \/ LoadNext \/ TuneNext

SocSpec == SocInit /\ [][SocNext]_socVars

SocTypeOK ==
    /\ pll.c.n \in 1..111     \* 38400000 * n fits in the 32 bits of t210.c:245
    /\ pll.slow \in BOOLEAN
    /\ slide.at \in {"idle", "setup", "coeff", "ramp", "wait"}
    /\ ring.load \in 0..1000 /\ cpu.clock \in CpuClocks

\* When a slide has ended, PCV did not write the PLL meanwhile and setClock could
\* read the dividers, the PLL runs at the clock the sysmodule reports, so that the comparison of real and
\* reported clock in Tick does not fire on every tick; and the slowdown is
\* released, whether the ramp finished in time or not (gm20b.cpp, t210.c).
InjectedClockRuns ==
    slide.at = "idle" =>
        /\ ~pll.slow /\ ~pll.ramp
        /\ injected # 0 /\ ~clash => GpuFreq(pll.c) = injected

\* The GPU's load is between the least and the most of the last Samples loads
\* once there are that many, and never above the CPU and GPU maximum of 1000.
LoadsInRange ==
    /\ Len(ring.last) = Samples =>
          /\ \E i \in 1..Samples : ring.last[i] <= ring.load
          /\ \E i \in 1..Samples : ring.last[i] >= ring.load
    /\ GetMaxCpuLoad(idle) \in 0..1000

\* The parts of the memory's bandwidth add up within one update, and loads that
\* were measured at an earlier clock never exceed the whole (_clock_update_freqs).
BandwidthAddsUp ==
    /\ emc.all \in 0..1000 /\ emc.cpu <= emc.all
    /\ emc.bwGpu >= 0 /\ emc.bwCpu + emc.bwGpu = emc.bwAll

\* After HandleCpuUv, with a low level set, the tuning in force is that of the
\* side of the break the CPU's clock is on. (Without a low level the high
\* tuning stays when the clock falls below the break: the code that would
\* restore it is after a return, board_volt.cpp:130-139.)
TuningFollowsClock ==
    cpu.tuned /\ tune.low # 0 =>
        tune.now = IF cpu.clock >= CalculateTbreak(tune.table) /\ tune.high # 0
                   THEN <<"high", tune.high>> ELSE <<"low", tune.low>>

\* What the sysmodule does behind PCV's back stays in step with PCV: the injected
\* clock, the loads and the tunings fit the clocks that run.
SocInv == InjectedClockRuns /\ LoadsInRange /\ BandwidthAddsUp /\ TuningFollowsClock
=============================================================================
