---------------------------- MODULE ClockManager ----------------------------
(***************************************************************************)
(* The core of the sysmodule: the Tick loop of mgr/clock_manager.cpp and   *)
(* the governor thread of mgr/governor.cpp over one set of clocks, with    *)
(* the overlay's IPC calls and the console around them.                    *)
(*                                                                         *)
(* The Tick thread takes gContextMutex and keeps it for the whole tick, so *)
(* its steps are interleaved with everything that does not need the mutex: *)
(* the operating system, IPC calls and the governor's unlocked checks.     *)
(* The governor thread takes the mutex once per component it drives.       *)
(***************************************************************************)
EXTENDS FreqTable

CONSTANTS Titles,       \* title ids, GlobalTitle not among them
          GlobalTitle,  \* HOCCLK_GLOBAL_PROFILE_TID
          Chargers,     \* undocked profiles: "Handheld", "USB", "Official"
          Table,        \* gFreqTable: [Module -> table]
          Apm,          \* the APM configurations the console goes through
          Ini,          \* the contents config.ini takes: [names -> Config]
          Override,     \* the temporary overrides: [names -> Setting]
          NoOverride,   \* the name of the override that sets nothing
          Alarms,       \* "none", "power" or "thermal"
          Loads,        \* CPU and GPU loads, in tenths of a percent
          GovernorMin,  \* HocClkConfigValue_CpuGovernorMinimumFreq
          DvfsOffset,   \* HocClkConfigValue_DVFSOffset, in mV
          HijackMayFail, \* PcvHijackGpuVolts may find no PCV process to debug
          CoarseMtime,  \* two writes of config.ini may get the same mtime
          MaxEvents     \* bound on console events and IPC calls

\* ComponentGovernorState of the CPU and the GPU, as packed in one u32; the
\* packed value 0 is "nothing set".
Component == {"DoNotOverride", "Disabled", "Enabled"}
GovSetting == [CPU: Component, GPU: Component]
NoGov == [CPU |-> "DoNotOverride", GPU |-> "DoNotOverride"]

\* One row of clocks and a governor setting: a profile or the overrides.
Setting == [hz: [Module -> Nat], gov: GovSetting]

NoSetting == [hz |-> [m \in Module |-> 0], gov |-> NoGov]

Titles0 == Titles \cup {GlobalTitle}

Config == [auto: [Titles0 -> [Profile -> Setting]],
           uncapped: BOOLEAN, overwriteBoost: BOOLEAN, hijack: BOOLEAN]

ASSUME HijackAssumption == HijackMayFail \in BOOLEAN

ASSUME ClockManagerAssumption ==
    /\ Titles # {} /\ GlobalTitle \notin Titles
    /\ Chargers # {} /\ Chargers \subseteq {"Handheld", "USB", "Official"}
    /\ Table \in [Module -> Seq(Nat)]
    /\ \A m \in Module : IsTable(Table[m])
    /\ Apm # {} /\ Apm \subseteq [docked: BOOLEAN, boost: BOOLEAN, hz: [Module -> Nat]]
    /\ Ini \in [DOMAIN Ini -> Config] /\ DOMAIN Ini # {}
    /\ Override \in [DOMAIN Override -> Setting]
    /\ NoOverride \in DOMAIN Override /\ Override[NoOverride] = NoSetting
    /\ "none" \in Alarms /\ Alarms \subseteq {"none", "power", "thermal"}
    /\ Loads # {} /\ Loads \subseteq Nat
    /\ GovernorMin \in Nat
    /\ DvfsOffset \in Int
    /\ CoarseMtime \in BOOLEAN
    /\ MaxEvents \in Nat

-----------------------------------------------------------------------------
(* The clock hardware as the sysmodule drives it: board::SetHz, GetHz,     *)
(* GetRealHz, the ResetToStock family and the PCV voltage hijack           *)
(* (board/board_freq.cpp, board_freq.hpp, board_volt.cpp), as operators    *)
(* from one hardware record to the next.                                   *)
(*                                                                         *)
(*   rate      what PCV/clkrst reports for each module                     *)
(*   pll       the clock the GPU really runs at                            *)
(*   injected  currentInjectedHz: the 38.4 MHz step clock gm20b::setClock  *)
(*             programmed behind PCV's back, or 0                          *)
(*   vmin      the floor written into PCV's GPU voltage table (ramVmin)    *)
(*   gpuVmin   the floor the GPU rail follows: PCV reads its table only    *)
(*             when it sets the GPU clock                                  *)

Hardware == [rate: [Module -> Nat], pll: Nat, injected: Nat,
             vmin: Nat, gpuVmin: Nat]

\* Clocks on the 38.4 MHz grid that PCV does not offer (useGm20b).
IsMiddle(f) ==
    Soc = "Mariko" /\ f % 38400 = 0 /\ f % 76800 # 0 /\ f < 1228800

\* The PCV clock under an injected one.
PcvStep(f) == ((f + 76799) \div 76800) * 76800

SetCpuOrMem(h, m, f) == [h EXCEPT !.rate[m] = f]

SetGpu(h, f) ==
    [h EXCEPT !.rate["GPU"] = IF IsMiddle(f) THEN PcvStep(f) ELSE f,
              !.pll = f,
              !.injected = IF IsMiddle(f) THEN f ELSE 0,
              !.gpuVmin = h.vmin]

SetHz(h, m, f) == IF m = "GPU" THEN SetGpu(h, f) ELSE SetCpuOrMem(h, m, f)

\* An injected GPU clock is reported as it was set, whatever PCV did since.
GetHz(h, m) ==
    IF m = "GPU" /\ h.injected # 0 THEN h.injected ELSE h.rate[m]

\* stock: the clocks of the current APM configuration.
ResetToStock(h, stock, m) == SetHz(h, m, stock[m])

ResetAllToStock(h, stock) ==
    ResetToStock(ResetToStock(ResetToStock(h, stock, "CPU"), stock, "GPU"),
                 stock, "MEM")

\* The hardware after PcvHijackGpuVolts(v); without a handle nothing changes.
HijackOutcomes(h, v) ==
    {[h EXCEPT !.vmin = v]} \cup (IF HijackMayFail THEN {h} ELSE {})

\* The operating system applies an APM configuration through PCV.
PcvApply(h, stock) ==
    [h EXCEPT !.rate = stock, !.pll = stock["GPU"], !.gpuVmin = h.vmin]

-----------------------------------------------------------------------------
VARIABLES
    app, charger, apm, alarm,   \* the console: title, charger, APM mode, sensors
    cfg, stale, ovr,            \* config: loaded values, mtime # gMtime, gOverrideFreqs
    hw,                         \* the clock hardware
    ctxApp, ctxProfile,         \* gContext.applicationId, .profile
    freq, ctxOvr,               \* gContext.freqs, .overrideFreqs
    lock,                       \* gContextMutex: "free" or "tick"
    tpc, isBoost, skip, changed, plan,  \* the Tick thread and its locals
    gpc, govOn,                 \* the governor thread; isCpu/GpuGovernorEnabled
    setBy,                      \* history: what left each clock where it is
    events, quiet               \* bound; nothing outside moved since tick began

console == <<app, charger, apm, alarm>>
settings == <<cfg, stale, ovr>>
context == <<ctxApp, ctxProfile, freq, ctxOvr>>
tick == <<lock, tpc, isBoost, skip, changed, plan>>
governor == <<gpc, govOn, setBy>>
vars == <<console, settings, hw, context, tick, governor, events, quiet>>

\* gContext.freqs has a row for the governor "module", which reads the CPU bus.
FreqRow == Module \cup {"Governor"}
RowHz(h, r) == IF r = "Governor" THEN GetHz(h, "CPU") ELSE GetHz(h, r)

TickPC == {"idle", "ids", "volts", "sync", "decide", "cpu", "gpu", "mem",
           "memset", "memdown", "dvfsreset", "gov"}
GovernorPC == {"idle", "boost", "cpu", "gpucheck", "gpu"}

\* A clock is where the last SetClocks put it ("tick"), where the governor's
\* thread put it, or was left elsewhere by a tick that saw it change: a throttled
\* one, one of boost mode, or one that turned its governor off.
Setter == {"tick", "governor", "left"}

NoPlan == [target |-> 0, nearest |-> 0, old |-> 0]
Plan == [target: Nat, nearest: Nat, old: Nat]

TypeOK ==
    /\ app \in Titles /\ charger \in Chargers /\ apm \in Apm /\ alarm \in Alarms
    /\ cfg \in DOMAIN Ini /\ stale \in BOOLEAN /\ ovr \in DOMAIN Override
    /\ hw \in Hardware
    /\ ctxApp \in Titles \cup {GlobalTitle} /\ ctxProfile \in Profile
    /\ freq \in [FreqRow -> Nat]
    /\ ctxOvr \in DOMAIN Override
    /\ lock \in {"free", "tick"} /\ tpc \in TickPC
    /\ isBoost \in BOOLEAN /\ skip \in BOOLEAN /\ changed \in BOOLEAN
    /\ plan \in Plan
    /\ gpc \in GovernorPC /\ govOn \in [{"CPU", "GPU"} -> BOOLEAN]
    /\ setBy \in [Module -> Setter]
    /\ events \in 0..MaxEvents /\ quiet \in BOOLEAN

-----------------------------------------------------------------------------
(* config::GetAutoClockHz and the override, app profile, global profile    *)
(* order in which SetClocks and the governor resolve a target.             *)

Else(a, b) == IF a # 0 THEN a ELSE b
ElseGov(a, b) == IF a # NoGov THEN a ELSE b

AutoHz(tid, p, m) ==
    LET c(q) == Ini[cfg].auto[tid][q].hz[m]
    IN  CASE p \in {"Handheld", "Docked"} -> c(p)
          [] p = "Official" -> Else(c("Official"), Else(c("Charging"), c("Handheld")))
          [] OTHER -> Else(c("USB"), Else(c("Charging"), c("Handheld")))

AutoGov(tid, p) ==
    LET c(q) == Ini[cfg].auto[tid][q].gov
    IN  CASE p \in {"Handheld", "Docked"} -> c(p)
          [] p = "Official" -> ElseGov(c("Official"), ElseGov(c("Charging"), c("Handheld")))
          [] OTHER -> ElseGov(c("USB"), ElseGov(c("Charging"), c("Handheld")))

Target(m) ==
    Else(Override[ctxOvr].hz[m],
         Else(AutoHz(ctxApp, ctxProfile, m), AutoHz(GlobalTitle, ctxProfile, m)))

TargetGov ==
    ElseGov(Override[ctxOvr].gov,
            ElseGov(AutoGov(ctxApp, ctxProfile), AutoGov(GlobalTitle, ctxProfile)))

CapIgnored(m) == MaxAllowed(TRUE, m, ctxProfile)
Cap(m) == MaxAllowed(Ini[cfg].uncapped, m, ctxProfile)

NearestHz(m, f) == Nearest(Table[m], f, Cap(m))

-----------------------------------------------------------------------------
(* The Tick thread.                                                        *)

\* board::GetProfile: docked by performance mode, else by charger type.
CurrentProfile == IF apm.docked THEN "Docked" ELSE charger

Throttles == alarm = "thermal" \/ (alarm = "power" /\ ctxProfile # "Docked")

\* ResetToStockClocks: CPU and GPU, not the memory.
StockClocks(h) == ResetToStock(ResetToStock(h, apm.hz, "CPU"), apm.hz, "GPU")

\* Tick up to HandleMiscFeatures.
TickBegin ==
    /\ tpc = "idle" /\ lock = "free"
    /\ lock' = "tick" /\ tpc' = "ids"
    /\ isBoost' = apm.boost
    /\ skip' = Throttles
    /\ hw' = IF Throttles THEN StockClocks(hw) ELSE hw
    /\ setBy' = IF Throttles THEN [setBy EXCEPT !["CPU"] = "left", !["GPU"] = "left"]
                ELSE setBy
    /\ quiet' = TRUE
    /\ UNCHANGED <<console, settings, context, changed, plan, gpc, govOn, events>>

\* RefreshContext: a new title or profile puts every clock back to stock.
RefreshIds ==
    LET same == app = ctxApp /\ CurrentProfile = ctxProfile
    IN  /\ tpc = "ids"
        /\ ctxApp' = app /\ ctxProfile' = CurrentProfile
        /\ changed' = ~same
        /\ hw' = IF same THEN hw ELSE ResetAllToStock(hw, apm.hz)
        /\ tpc' = IF same THEN "sync" ELSE "volts"
        /\ UNCHANGED <<console, settings, freq, ctxOvr, lock, isBoost, skip,
                       plan, governor, events, quiet>>

\* ... and drops the GPU voltage floor, then sleeps with the mutex held.
RefreshVolts ==
    /\ tpc = "volts"
    /\ hw' \in IF Ini[cfg].hijack
               THEN {ResetToStock(h, apm.hz, "GPU") : h \in HijackOutcomes(hw, 0)}
               ELSE {hw}
    /\ tpc' = "sync"
    /\ UNCHANGED <<console, settings, context, lock, isBoost, skip, changed,
                   plan, governor, events, quiet>>

\* What the loop over modules compares: clocks that moved, overrides that were
\* set.
MovedClocksOnly(seen) == seen # freq
Moved(seen) == seen # freq \/ ovr # ctxOvr

RefreshSync ==
    LET seen == [r \in FreqRow |-> Else(RowHz(hw, r), freq[r])]
    IN  /\ tpc = "sync"
        /\ freq' = seen
        /\ ctxOvr' = ovr
        /\ changed' = (changed \/ Moved(seen))
        /\ tpc' = "decide"
        /\ UNCHANGED <<console, settings, hw, ctxApp, ctxProfile, lock, isBoost,
                       skip, plan, governor, events, quiet>>

\* The condition under which Tick calls SetClocks.
Differs(reload) == changed \/ reload \/ hw.pll # freq["GPU"]
AppliesThrottled(reload) == Differs(reload)
Applies(reload) == Differs(reload) /\ ~skip

\* config::Refresh, evaluated only when RefreshContext saw nothing; then the
\* comparison with the real GPU clock, the throttle and the boost return. What
\* a tick saw and does not set is seen for good.
Decide ==
    LET reload == ~changed /\ stale
        boostReturn == isBoost /\ ~Ini[cfg].overwriteBoost
    IN  /\ tpc = "decide"
        /\ stale' = (stale /\ ~reload)
        /\ IF Applies(reload) /\ ~boostReturn
           THEN tpc' = "cpu" /\ UNCHANGED <<lock, setBy>>
           ELSE /\ tpc' = "idle" /\ lock' = "free"
                /\ setBy' = IF Differs(reload) THEN [m \in Module |-> "left"] ELSE setBy
        /\ UNCHANGED <<console, cfg, ovr, hw, context, isBoost, skip, changed,
                       plan, gpc, govOn, events, quiet>>

\* HandleFreqReset for the CPU or the GPU: no clock is wanted any more. The CPU
\* keeps the boost's.
HandleFreqReset(m) ==
    IF m = "CPU" /\ isBoost THEN hw ELSE ResetToStock(hw, apm.hz, m)

\* SetClocks for the CPU or the GPU: left alone while its governor runs.
SetModule(m) ==
    LET nearest == NearestHz(m, Target(m))
    IN  \/ /\ govOn[m]
           /\ UNCHANGED <<hw, freq>>
        \/ /\ ~govOn[m] /\ Target(m) # 0 /\ nearest = freq[m]
           /\ UNCHANGED <<hw, freq>>
        \/ /\ ~govOn[m] /\ Target(m) # 0 /\ nearest # freq[m]
           /\ hw' = SetHz(hw, m, nearest)
           /\ freq' = [freq EXCEPT ![m] = nearest]
        \/ /\ ~govOn[m] /\ Target(m) = 0
           /\ hw' = HandleFreqReset(m)
           /\ UNCHANGED freq

SetClocksCpu ==
    /\ tpc = "cpu" /\ SetModule("CPU") /\ tpc' = "gpu"
    /\ UNCHANGED <<console, settings, ctxApp, ctxProfile, ctxOvr, lock, isBoost,
                   skip, changed, plan, governor, events, quiet>>

SetClocksGpu ==
    /\ tpc = "gpu" /\ SetModule("GPU") /\ tpc' = "mem"
    /\ UNCHANGED <<console, settings, ctxApp, ctxProfile, ctxOvr, lock, isBoost,
                   skip, changed, plan, governor, events, quiet>>

DvfsVminUnguarded(f) ==
    Lower(GpuVmin(f \div 1000) + (IF DvfsOffset < -80 THEN -80 ELSE DvfsOffset), 1000)

\* The floor ApplyGpuDvfs asks for: u32 arithmetic, then at most 1000 mV.
DvfsVmin(f) ==
    LET vmin == GpuVmin(f \div 1000)
        offset == IF DvfsOffset < -80 THEN -80 ELSE DvfsOffset
    IN  IF vmin = 0 THEN 0 ELSE Lower(vmin + offset, 1000)

ApplyGpuDvfsTableOnly(target) == hw' \in HijackOutcomes(hw, DvfsVmin(target))

\* Rewrite the GPU voltage table, then set the GPU clock so that it is used.
ApplyGpuDvfs(target) ==
    hw' \in {SetHz(h, "GPU", NearestHz("GPU", GetHz(h, "GPU"))) :
                h \in HijackOutcomes(hw, DvfsVmin(target))}

\* SetClocks for the memory up to board::SetHz: a rise lifts the floor first.
SetClocksMem ==
    LET p == [target |-> Target("MEM"),
              nearest |-> NearestHz("MEM", Target("MEM")),
              old |-> GetHz(hw, "MEM")]
    IN  /\ tpc = "mem"
        /\ \/ /\ p.target # 0 /\ p.nearest = freq["MEM"]
              /\ tpc' = "gov" /\ UNCHANGED <<hw, plan>>
           \/ /\ p.target # 0 /\ p.nearest # freq["MEM"]
              /\ IF Ini[cfg].hijack /\ p.target > p.old
                 THEN ApplyGpuDvfs(p.target) ELSE UNCHANGED hw
              /\ plan' = p /\ tpc' = "memset"
           \/ /\ p.target = 0
              /\ hw' = ResetToStock(hw, apm.hz, "MEM")
              /\ tpc' = "dvfsreset" /\ UNCHANGED plan
        /\ UNCHANGED <<console, settings, context, lock, isBoost, skip,
                       changed, governor, events, quiet>>

SetClocksMemSet ==
    /\ tpc = "memset"
    /\ hw' = SetHz(hw, "MEM", plan.nearest)
    /\ freq' = [freq EXCEPT !["MEM"] = plan.nearest]
    /\ tpc' = "memdown"
    /\ UNCHANGED <<console, settings, ctxApp, ctxProfile, ctxOvr, lock, isBoost,
                   skip, changed, plan, governor, events, quiet>>

\* A fall lowers the floor afterwards.
SetClocksMemDown ==
    /\ tpc = "memdown"
    /\ IF Ini[cfg].hijack /\ plan.target < plan.old
       THEN ApplyGpuDvfs(plan.target) ELSE UNCHANGED hw
    /\ plan' = NoPlan /\ tpc' = "gov"
    /\ UNCHANGED <<console, settings, context, lock, isBoost, skip, changed,
                   governor, events, quiet>>

\* DVFSReset, when the memory has no target: it puts the GPU to stock, for PCV
\* to read the table, and then back to its own target.
GpuLeftAtStock(h) == h
GpuAgain(h) ==
    IF Target("GPU") = 0 THEN h
    ELSE SetHz(h, "GPU", NearestHz("GPU", Target("GPU")))

DvfsReset ==
    /\ tpc = "dvfsreset"
    /\ hw' \in IF Ini[cfg].hijack
               THEN {GpuAgain(ResetToStock(h, apm.hz, "GPU")) :
                        h \in HijackOutcomes(hw, 0)}
               ELSE {hw}
    /\ tpc' = "gov"
    /\ UNCHANGED <<console, settings, context, lock, isBoost, skip, changed,
                   plan, governor, events, quiet>>

\* HandleGovernor comes after the clocks: a component whose governor is turned
\* off goes back to stock, and the mutex is released.
HandleGovernor ==
    LET on == [c \in {"CPU", "GPU"} |-> TargetGov[c] = "Enabled"]
        off(c) == govOn[c] /\ ~on[c]
        cpu(h) == IF off("CPU") THEN ResetToStock(h, apm.hz, "CPU") ELSE h
        gpu(h) == IF off("GPU") THEN ResetToStock(h, apm.hz, "GPU") ELSE h
    IN  /\ tpc = "gov"
        /\ govOn' = on
        /\ hw' = gpu(cpu(hw))
        /\ setBy' = [m \in Module |->
                        IF m \notin {"CPU", "GPU"} THEN "tick"
                        ELSE IF off(m) THEN "left"
                        ELSE IF govOn[m] THEN setBy[m] ELSE "tick"]
        /\ tpc' = "idle" /\ lock' = "free"
        /\ UNCHANGED <<console, settings, context, isBoost, skip, changed, plan,
                       gpc, events, quiet>>

Tick ==
    \/ TickBegin \/ RefreshIds \/ RefreshVolts \/ RefreshSync \/ Decide
    \/ SetClocksCpu \/ SetClocksGpu \/ SetClocksMem \/ SetClocksMemSet
    \/ SetClocksMemDown \/ DvfsReset \/ HandleGovernor

-----------------------------------------------------------------------------
(* The governor thread.  It reads its flag, and the boost mode, before it  *)
(* takes the mutex.  The hold timer that delays a step down, and the poll  *)
(* count after which GovernorMin is read, are a choice here.               *)

GovernorPoll ==
    /\ gpc = "idle"
    /\ gpc' = IF govOn["CPU"] THEN "boost" ELSE "gpucheck"
    /\ UNCHANGED <<console, settings, hw, context, tick, govOn, setBy, events, quiet>>

GovernorBoost ==
    /\ gpc = "boost"
    /\ gpc' = IF apm.boost THEN "gpucheck" ELSE "cpu"
    /\ UNCHANGED <<console, settings, hw, context, tick, govOn, setBy, events, quiet>>

GovernorSets(m, f) ==
    IF IsAssignable(m, f)
    THEN /\ hw' = SetHz(hw, m, f) /\ freq' = [freq EXCEPT ![m] = f]
         /\ setBy' = [setBy EXCEPT ![m] = "governor"]
    ELSE UNCHANGED <<hw, freq, setBy>>

GovernorHolds == UNCHANGED <<hw, freq, setBy>>

GovernorChoice(m, load) == GovernorHz(Table[m], load, Target(m), Cap(m))

\* minHz is 612 (Hz, below 1 kHz) until the configured minimum is first read.
GovernorCpu ==
    /\ gpc = "cpu" /\ lock = "free"
    /\ \/ \E load \in Loads, minHz \in {1, GovernorMin} :
             LET f == GovernorChoice("CPU", load)
             IN  GovernorSets("CPU", IF f < minHz THEN minHz ELSE f)
       \/ GovernorHolds
    /\ gpc' = "gpucheck"
    /\ UNCHANGED <<console, settings, ctxApp, ctxProfile, ctxOvr, tick, govOn,
                   events, quiet>>

GovernorGpuCheck ==
    /\ gpc = "gpucheck"
    /\ gpc' = IF govOn["GPU"] THEN "gpu" ELSE "idle"
    /\ UNCHANGED <<console, settings, hw, context, tick, govOn, setBy, events, quiet>>

GovernorGpu ==
    /\ gpc = "gpu" /\ lock = "free"
    /\ \/ \E load \in Loads : GovernorSets("GPU", GovernorChoice("GPU", load))
       \/ GovernorHolds
    /\ gpc' = "idle"
    /\ UNCHANGED <<console, settings, ctxApp, ctxProfile, ctxOvr, tick, govOn,
                   events, quiet>>

GovernorThread ==
    \/ GovernorPoll \/ GovernorBoost \/ GovernorCpu
    \/ GovernorGpuCheck \/ GovernorGpu

-----------------------------------------------------------------------------
(* The console and the overlay.                                            *)

Event == /\ events > 0 /\ events' = events - 1
         /\ quiet' = FALSE

\* The operating system changes APM configuration (boost, dock, a request of
\* the game) and sets the clocks through PCV.
ApmChange ==
    /\ Event
    /\ \E a \in Apm \ {apm} : apm' = a /\ hw' = PcvApply(hw, a.hz)
    /\ UNCHANGED <<app, charger, alarm, settings, context, tick, governor>>

TitleChange ==
    /\ Event
    /\ app' \in Titles \ {app}
    /\ UNCHANGED <<charger, apm, alarm, settings, hw, context, tick, governor>>

ChargerChange ==
    /\ Event
    /\ charger' \in Chargers \ {charger}
    /\ UNCHANGED <<app, apm, alarm, settings, hw, context, tick, governor>>

AlarmChange ==
    /\ Event
    /\ alarm' \in Alarms \ {alarm}
    /\ UNCHANGED <<app, charger, apm, settings, hw, context, tick, governor>>

\* IPC SetOverride, under gOverrideMutex.
SetOverride ==
    /\ Event
    /\ ovr' \in DOMAIN Override \ {ovr}
    /\ UNCHANGED <<console, cfg, stale, hw, context, tick, governor>>

\* IPC SetProfiles or SetConfigValues with immediate set, under gConfigMutex:
\* the file and the loaded values change together.  A new mtime is what
\* Refresh notices.
SetConfig ==
    /\ Event
    /\ cfg' \in DOMAIN Ini \ {cfg}
    /\ stale' \in IF CoarseMtime THEN {stale, TRUE} ELSE {TRUE}
    /\ UNCHANGED <<console, ovr, hw, context, tick, governor>>

Environment ==
    \/ ApmChange \/ TitleChange \/ ChargerChange \/ AlarmChange
    \/ SetOverride \/ SetConfig

-----------------------------------------------------------------------------

\* clockManager::Initialize, and config::Refresh before it.  The application id
\* 0 of the empty context is no title: the global one stands for it, since
\* nothing reads it before the first tick replaces it.
Init ==
    /\ app \in Titles /\ charger \in Chargers /\ apm \in Apm
    /\ alarm = "none"
    /\ cfg \in DOMAIN Ini /\ stale = FALSE
    /\ ovr = NoOverride /\ ctxOvr = NoOverride
    /\ hw = [rate |-> apm.hz, pll |-> apm.hz["GPU"], injected |-> 0,
             vmin |-> 0, gpuVmin |-> 0]
    /\ ctxApp = GlobalTitle /\ ctxProfile = "Handheld"
    /\ freq = [r \in FreqRow |-> 0]
    /\ lock = "free" /\ tpc = "idle"
    /\ isBoost = FALSE /\ skip = FALSE /\ changed = FALSE /\ plan = NoPlan
    /\ gpc = "idle" /\ govOn = [c \in {"CPU", "GPU"} |-> FALSE]
    /\ setBy = [m \in Module |-> "left"]
    /\ events = MaxEvents /\ quiet = FALSE

Next == Tick \/ GovernorThread \/ Environment

Spec == Init /\ [][Next]_vars

\* The Tick thread runs for ever: main.cpp's loop calls Tick again after each
\* WaitForNextTick. The mutex is never in its way: the governor holds it within a
\* step. Of the governor's thread nothing is asked.
FairSpec == Spec /\ WF_vars(Tick)

-----------------------------------------------------------------------------
(* Properties.                                                             *)

\* What the user asked of module m, read from the live settings and console
\* and not from the copies the Tick thread made of them.
WantedHz(m) ==
    Else(Override[ovr].hz[m],
         Else(AutoHz(app, CurrentProfile, m), AutoHz(GlobalTitle, CurrentProfile, m)))

\* The clock module m really runs at.
ActualHz(m) == IF m = "GPU" THEN hw.pll ELSE hw.rate[m]

\* Module m runs at the table entry nearest to what was asked within the cap
\* of the profile, or at stock when nothing was asked.
Applied(m) ==
    ActualHz(m) = IF WantedHz(m) = 0 THEN apm.hz[m]
                  ELSE Nearest(Table[m], WantedHz(m),
                               MaxAllowed(Ini[cfg].uncapped, m, CurrentProfile))

\* The RAM never runs above 1600 MHz on a GPU rail whose floor is lower than
\* GetMinimumGpuVmin asks for that clock.  It is about the order of the PCV
\* table write, the GPU clock and the RAM clock in SetClocks, DVFSReset and
\* RefreshContext ("The logic MUST be done in this order otherwise you WILL
\* get crashes", clock_manager.cpp:501).
MemFloor ==
    hw.rate["MEM"] > 1600000 => hw.gpuVmin >= DvfsVmin(hw.rate["MEM"])

\* What makes MemFloor inductive: which clocks the RAM runs at, the floor that
\* both the voltage table and the rail keep meanwhile, and what the steps of
\* SetClocks and RefreshContext between two of their board calls rely on.
FloorFor(f) == hw.vmin >= DvfsVmin(f) /\ hw.gpuVmin >= DvfsVmin(f)

PlanRounds ==
    /\ plan.nearest \in Entries(Table["MEM"])
    /\ plan.nearest \div 1000 = plan.target \div 1000

FloorInv ==
    /\ hw.rate["MEM"] > 1600000 =>
          hw.rate["MEM"] \in Entries(Table["MEM"]) /\ FloorFor(hw.rate["MEM"])
    /\ tpc \in {"volts", "dvfsreset"} => hw.rate["MEM"] <= 1600000
    /\ tpc = "memset" => PlanRounds /\ FloorFor(plan.nearest)
    /\ tpc = "memdown" => /\ PlanRounds
                          /\ \/ hw.rate["MEM"] = plan.nearest
                             \/ hw.rate["MEM"] <= 1600000

\* Every RAM clock the settings ask for.
MemTargets ==
    ({Override[o].hz["MEM"] : o \in DOMAIN Override}
        \cup UNION {{Ini[c].auto[t][p].hz["MEM"] : t \in Titles0, p \in Profile} :
                        c \in DOMAIN Ini}) \ {0}

\* When SetClocks can keep its promise: the hijack is on in every configuration
\* and never fails, no APM configuration asks for more than 1600 MHz of RAM,
\* settings name a RAM clock by its MHz, as the overlay offers them, and the
\* voltage grows with the clock along the RAM table.
DvfsSetup ==
    /\ ~HijackMayFail
    /\ \A c \in DOMAIN Ini : Ini[c].hijack
    /\ \A a \in Apm : a.hz["MEM"] <= 1600000
    /\ \A f \in MemTargets, max \in {NoCap, Uncapped} :
          Nearest(Table["MEM"], f, max) \div 1000 = f \div 1000
    /\ \A f, g \in Entries(Table["MEM"]) : f <= g => DvfsVmin(f) <= DvfsVmin(g)

\* When a cap can be kept: it is a clock of the table, or no clock is above it.
CapsSetup ==
    \A m \in {"CPU", "GPU"}, uncapped \in BOOLEAN, p \in Profile :
        Keepable(Table[m], MaxAllowed(uncapped, m, p))

\* When what the sysmodule sees of a clock is what runs: no GPU clock is a step
\* PCV does not know, every clock is more than 0, and a stock GPU clock is one the
\* table rounds to itself, so that setting the GPU again leaves it.
PlainClocks ==
    /\ \A m \in Module : 0 \notin Entries(Table[m])
    /\ \A f \in Entries(Table["GPU"]) : ~IsMiddle(f)
    /\ \A a \in Apm :
          /\ ~IsMiddle(a.hz["GPU"]) /\ \A m \in Module : a.hz[m] # 0
          /\ \A c \in DOMAIN Ini, p \in IF a.docked THEN {"Docked"} ELSE Chargers :
                Nearest(Table["GPU"], a.hz["GPU"], MaxAllowed(Ini[c].uncapped, "GPU", p))
                    = a.hz["GPU"]

\* When SetClocks reaches the governor module and nothing outside moved since
\* the tick began, every clock no governor drives is the one asked for: the
\* "nearestHz != gContext.freqs" short cut, the DVFS steps, which set the GPU
\* again, and the resets of the refresh leave none of them elsewhere.
SetClocksApplies ==
    tpc = "gov" /\ quiet =>
        \A m \in Module :
            \/ m \in {"CPU", "GPU"} /\ govOn[m]
            \/ m = "CPU" /\ isBoost
            \/ Applied(m)

\* A clock the program gives the CPU or the GPU is stock or within the cap of
\* the profile it knows (GetMaxAllowedHz), whichever thread sets it and
\* however it was rounded, the DVFS steps included.  The configured governor
\* minimum is the one exception: it is put back after the cap.
CapRespected ==
    [][\A m \in {"CPU", "GPU"} :
          ActualHz(m)' # ActualHz(m) /\ events' = events =>
              \/ ActualHz(m)' = apm.hz[m]
              \/ Within(ActualHz(m)', MaxAllowed(Ini[cfg].uncapped, m, ctxProfile'))
              \/ m = "CPU" /\ ActualHz(m)' = GovernorMin]_vars

\* A tick that found the console too hot or over its power limit leaves the CPU
\* and the GPU at stock until the next tick decides again: the settings it saw
\* change are not applied on top, and only the governor's thread, which knows
\* nothing of the throttle, takes a clock from there, within the cap
\* (HandleSafetyFeatures, Tick, governor.cpp).
RaisedByGovernor(m) ==
    /\ setBy[m] = "governor"
    /\ \/ Within(ActualHz(m), Cap(m))
       \/ m = "CPU" /\ ActualHz(m) = GovernorMin

ThrottleHolds ==
    skip /\ tpc \in {"idle", "decide"} /\ quiet =>
        \A m \in {"CPU", "GPU"} : ActualHz(m) = apm.hz[m] \/ RaisedByGovernor(m)

\* Every setting takes effect: once the console and the overlay are quiet, the
\* clocks that no governor drives come to be, and stay, what was asked, unless
\* the last tick that saw a difference left it there, because it was throttled
\* or in boost mode or turned the governor off, or a turn the governor began
\* before was late. It is about changes that a tick consumes (RefreshContext,
\* Refresh) without applying them, and about what brings a clock back: SetClocks
\* sets all of them, whatever was left before. (In boost mode the CPU keeps its
\* clock when none is asked for.)
SettingsTakeEffect ==
    <>[](\A m \in Module :
            \/ m \in {"CPU", "GPU"} /\ govOn[m]
            \/ setBy[m] # "tick"
            \/ m = "CPU" /\ apm.boost /\ WantedHz(m) = 0
            \/ Applied(m))
=============================================================================
