-------------------------------- MODULE Display --------------------------------
(***************************************************************************)
(* The refresh rate of the screen: display/display_refresh_rate.cpp, the   *)
(* display part of the tick (RefreshContext and SetClocks, mgr/clock_      *)
(* manager.cpp) and the VRR half of the governor thread (mgr/governor.cpp) *)
(* on a console that is put into a dock and taken out of it.  The tick     *)
(* holds gContextMutex from RefreshContext to the end of SetClocks; the    *)
(* governor thread looks at isVRREnabled, the profile and the focus before *)
(* it takes the mutex.  The RETRO SUPER panel, which has a setter of its   *)
(* own, is here as operators only: no action uses them.                    *)
(***************************************************************************)
EXTENDS Integers, Sequences, FiniteSetsExt

CONSTANTS Console,        \* Icosa, Iowa, Aula or Hoag
          Sinks,          \* the screens a dock may drive: [v, rates]
          OverrideRates,  \* display overrides, 0 for none
          HandheldRates,  \* display rates of a handheld profile, 0 for none
          DockedRates,    \* and of the docked profile
          FpsSeen,        \* what SaltyNX reports; 254 is nothing
          Holds,          \* what may keep a tick from setting clocks: see hold
          OverBoosts,     \* values of the setting OverwriteBoostMode
          VrrFocusTicks,  \* 100: rounds between two looks at the focus
          VrrTicks,       \* 50: rounds between two tries of the highest rate
          PanelMax,       \* the highest rate MaxDisplayClockH can be set to
          MaxEvents       \* bound: changes made outside the sysmodule

ASSUME DisplayAssumption ==
    /\ Console \in {"Icosa", "Iowa", "Aula", "Hoag"}
    /\ Sinks # {}
    /\ \A s \in Sinks : s.v \in {720, 1080} /\ s.rates \subseteq Nat
    /\ VrrFocusTicks \in Nat /\ VrrTicks \in Nat /\ MaxEvents \in Nat
    \* "Max Handheld Display Hz" and the pages of the overrides and the profiles.
    /\ PanelMax \in 60..75
    /\ OverrideRates \cup HandheldRates \subseteq {0} \cup (40..PanelMax)
    /\ DockedRates \subseteq {0} \cup (40..240)
    /\ FpsSeen \subseteq 0..255
    /\ "none" \in Holds /\ Holds \subseteq {"none", "boost", "throttle"}
    /\ OverBoosts \subseteq BOOLEAN

-------------------------------------------------------------------------------
(* The rates and timings of a docked console, of the RETRO SUPER panel and *)
(* of the built-in panel, and how a wanted rate becomes one of them.       *)

g_dockedRefreshRates ==
    <<40, 45, 50, 55, 60, 70, 72, 75, 80, 90, 95, 100, 110, 120, 130, 140, 144,
      150, 160, 165, 170, 180, 190, 200, 210, 220, 230, 240>>

Timing(hFP, hSync, hBP, vFP, vSync, vBP, pclk) ==
    [h |-> hFP + hSync + hBP, v |-> vFP + vSync + vBP, pclk |-> pclk]

\* Most modes differ in the vertical front porch and the pixel clock only.
ReducedBlanking(vFP, pclk) == Timing(8, 32, 40, vFP, 8, 6, pclk)

g_dockedTimings1080p ==
    <<ReducedBlanking(7, 88080), ReducedBlanking(9, 99270),
      Timing(528, 44, 148, 4, 5, 36, 148500), ReducedBlanking(15, 121990),
      Timing(88, 44, 148, 4, 5, 36, 148500), ReducedBlanking(22, 156240),
      ReducedBlanking(23, 160848), ReducedBlanking(25, 167850),
      ReducedBlanking(28, 179520), ReducedBlanking(33, 202860),
      ReducedBlanking(36, 214700), Timing(528, 44, 148, 4, 5, 36, 297000),
      ReducedBlanking(44, 250360), Timing(88, 44, 148, 4, 5, 36, 297000),
      ReducedBlanking(55, 298750), ReducedBlanking(61, 323400),
      ReducedBlanking(63, 333216), ReducedBlanking(67, 348300),
      ReducedBlanking(72, 373120), ReducedBlanking(75, 385770),
      ReducedBlanking(78, 398480), ReducedBlanking(84, 424080),
      ReducedBlanking(90, 449920), ReducedBlanking(96, 476000),
      ReducedBlanking(102, 502320), ReducedBlanking(108, 528880),
      ReducedBlanking(114, 555680), ReducedBlanking(121, 583200)>>

\* The panel's rates from 40 Hz up, one entry per Hz.
g_handheldTimingsRETRO ==
    LET porch == <<660, 612, 567, 524, 483, 443, 406, 370, 335, 302, 270, 239, 210,
                   182, 154, 128, 103, 78, 55, 32, 10>>
        clock == <<78000, 77982, 77994, 78002, 78012, 77985, 78016, 78020, 78000,
                   78008, 78000, 77979, 78000, 78016, 77976, 77990, 78008, 77976,
                   78010, 77998, 78000>>
    IN  [i \in DOMAIN porch |-> Timing(136, 72, 72, porch[i], 1, 9, clock[i])]

\* What a mode is read as: whole Hz, from the pixel clock and the totals.
ModeHz(t, hActive, vActive) ==
    (t.pclk * 1000 + 999) \div ((hActive + t.h) * (vActive + t.v))

-------------------------------------------------------------------------------
(* Docked.                                                                 *)

RateIndices == DOMAIN g_dockedRefreshRates

\* _getDockedHighestRefreshRate, of the rates a sink offers at 1080p: each cut
\* to 8 bits; 60 at least, 240 at most.
HighestRate(rates) ==
    LET most == Max({60} \cup {r % 256 : r \in rates})
    IN  IF most > 240 THEN 240 ELSE most

FirstIndex(S) == IF S = {} THEN 5 ELSE Min(S)

DockedIndexUnclamped(rate, matchLowest, highest) ==
    LET multiples == {i \in RateIndices : g_dockedRefreshRates[i] % rate = 0}
    IN  IF 60 % rate = 0 \/ multiples = {} THEN 5 ELSE Min(multiples)

\* The entry for a wanted rate: 60 Hz for its divisors, else the first
\* multiple, else 60 Hz or, to match the lowest rate, the next one up; then
\* the clamp to the highest rate of the sink.
DockedIndex(rate, matchLowest, highest) ==
    LET multiples == {i \in RateIndices : g_dockedRefreshRates[i] % rate = 0}
        above == {i \in RateIndices : rate < g_dockedRefreshRates[i]}
        itr == IF rate <= 60 /\ 60 % rate = 0 THEN 5
               ELSE IF multiples # {} THEN Min(multiples)
               ELSE IF matchLowest THEN FirstIndex(above) ELSE 5
        below == {i \in 1..itr : g_dockedRefreshRates[i] <= highest}
    IN  IF g_dockedRefreshRates[itr] > highest /\ below # {} THEN Max(below) ELSE itr

\* The mode set for entry itr: 720 lines keep their blanking.
DockedMode(itr, vActive, t) ==
    IF vActive = 720
    THEN [t EXCEPT !.pclk = ((1280 + t.h) * (720 + t.v)
                                * g_dockedRefreshRates[itr]) \div 1000]
    ELSE g_dockedTimings1080p[itr]

-------------------------------------------------------------------------------
(* Handheld.                                                               *)

g_handheldModeRefreshRate == 40..80

\* A rate below the range is shown a whole number of times, 60 Hz first.
HandheldRate(rate, most) ==
    LET fits == {i \in 2..most : rate * i \in g_handheldModeRefreshRate}
    IN  IF rate > 80 THEN 80
        ELSE IF rate \in g_handheldModeRefreshRate THEN rate
        ELSE IF (\E i \in 2..4 : rate * i = 60) \/ fits = {} THEN 60
        ELSE rate * Min(fits)

\* _setPLLDHandheldRefreshRate: the divider in steps of 2 and the fraction
\* that makes up the rest, 3328 units per Hz.
Plld(rate) ==
    LET divn == (4 * (rate - (rate % 5))) \div 10
    IN  [divn |-> divn, sdm |-> 3328 * rate - 4096 * (2 * divn + 1)]
PlldRate(pll) == (4096 * (2 * pll.divn + 1) + pll.sdm) \div 3328

\* The coarse rate that tells a docked console, whose PLLD does not drive the
\* panel, from a handheld one.
LooksDocked(pll) == (pll.divn * 10) \div 4 \in {0, 80}

\* _setNvDispHandheldRefreshRate: the entry taken for a rate.
RetroIndex(rate) == (rate - 40) \div 5 + 1

-------------------------------------------------------------------------------
(* The console, the tick and the governor thread.                          *)

VARIABLES
    place, sink, link,  \* in the hand or in the dock, with which screen, which answers
    hold,               \* boost mode, or too hot or over the power limit, or neither
    hw,                 \* the PLLD of the panel and the mode of the dock's screen
    mod,                \* g_config.isDocked and the globals about the dock
    ctx,                \* gContext: profile, display clock and override
    settings,           \* override, profile rates, VRR, the two overwrite settings
    stale,              \* the settings changed since config::Refresh
    tick,               \* the tick: idle, or between RefreshContext and SetClocks
    vrr,                \* isVRREnabled and lastVrrGovernorState
    thread,             \* the governor thread
    game,               \* the frames per second and the focus of the game
    held, drove, swapped,  \* history, see below
    events

\* held: a tick saw a change that concerns the display when boost mode or the
\* throttle was on, and no tick has set the display since.
\* drove: what last moved the panel's or the docked screen's rate: the system, a
\* tick that took the console for what it is, one that set the panel to a rate
\* of the docked profile, VRR, VRR ("late" in a turn it had begun before it
\* was turned off), or VRR up to a rate above the panel's ("cut", "latecut").
\* swapped: a screen took the place of another one that was still known.
Drivers == {"system", "tick", "docked", "vrr", "late", "cut", "latecut"}

console == <<place, sink, link, hold>>
outside == <<console, settings, stale, game, events>>
history == <<held, drove, swapped>>
vars == <<outside, hw, mod, ctx, tick, vrr, thread, history>>

Rates == 0..255
Int16Max == 32767

TypeOK ==
    /\ place \in {"hand", "dock"} /\ sink \in Sinks /\ link \in BOOLEAN
    /\ hold \in Holds
    /\ hw.pll.divn \in 0..32 /\ hw.pll.sdm \in (-Int16Max - 1)..Int16Max /\ hw.mode \in Rates
    /\ mod.isDocked \in BOOLEAN /\ mod.canChange \in BOOLEAN
    /\ mod.highest \in 60..240 /\ mod.lastVActive \in {720, 1080}
    /\ ctx.profile \in {"Handheld", "Docked"} /\ ctx.freq \in Rates
    /\ ctx.override \in OverrideRates
    /\ settings.override \in OverrideRates
    /\ settings.auto \in [Handheld: HandheldRates, Docked: DockedRates]
    /\ settings.vrr \in BOOLEAN /\ settings.overwrite \in BOOLEAN
    /\ settings.overBoost \in OverBoosts
    /\ stale \in BOOLEAN /\ tick \in {"idle", "set", "boost", "skip"}
    /\ vrr.on \in BOOLEAN /\ vrr.last \in BOOLEAN
    /\ thread.pc \in {"idle", "lock"} /\ thread.fps \in Rates
    /\ thread.focusTick \in 0..VrrFocusTicks /\ thread.vrrTick \in 0..VrrTicks
    /\ held \in BOOLEAN /\ drove \in Drivers /\ swapped \in BOOLEAN
    /\ events \in 0..MaxEvents

Lite == Console = "Hoag"

-------------------------------------------------------------------------------
(* The display driver.  A call meets nv: "ok", "nodock" when nvdisp-disp1  *)
(* cannot be opened, "none" when no device can.                            *)

\* The mode of the dock's screen is kept as the rate it is read as.
SetDocked(h, m, rate) ==
    IF Lite \/ ~m.canChange THEN h
    ELSE [h EXCEPT !.mode = g_dockedRefreshRates[DockedIndex(rate, FALSE, m.highest)]]

SetPlldUnchecked(h, rate) ==
    LET target == HandheldRate(rate, 4)
    IN  IF PlldRate(h.pll) = target THEN h ELSE [h EXCEPT !.pll = Plld(target)]

SetPlld(h, rate) ==
    LET target == HandheldRate(rate, 4)
    IN  IF LooksDocked(h.pll) \/ PlldRate(h.pll) = target THEN h
        ELSE [h EXCEPT !.pll = Plld(target)]

SetRate(h, m, rate, nv) ==
    IF rate = 0 \/ nv = "none" THEN h
    ELSE IF Lite \/ nv = "nodock" \/ ~link THEN SetPlld(h, rate)
    ELSE IF m.isDocked THEN SetDocked(h, m, rate) ELSE h

NoRate == 0

\* GetRate(internal = false): the rate read, or NoRate, and what it learnt.
GetRate(h, m, nv) ==
    LET docked == [m EXCEPT !.isDocked = TRUE]
        found  == IF m.canChange THEN docked
                  ELSE [docked EXCEPT !.canChange = TRUE,
                                      !.highest = HighestRate(sink.rates)]
        again  == IF m.lastVActive = sink.v THEN found
                  ELSE [found EXCEPT !.lastVActive = sink.v,
                                     !.highest = HighestRate(sink.rates)]
    IN  IF ~LooksDocked(h.pll)
        THEN [hz |-> PlldRate(h.pll),
              mod |-> [m EXCEPT !.isDocked = FALSE, !.canChange = FALSE]]
        ELSE IF Lite THEN [hz |-> NoRate, mod |-> m]
        ELSE IF ~m.canChange /\ (nv # "ok" \/ ~link)
        THEN [hz |-> NoRate, mod |-> docked]
        ELSE IF nv # "ok" THEN [hz |-> 60, mod |-> found]
        ELSE [hz |-> h.mode, mod |-> again]

-------------------------------------------------------------------------------
(* The tick.                                                               *)

\* board::GetProfile, here without chargers.
Profile == IF place = "dock" THEN "Docked" ELSE "Handheld"

Target(c) == IF c.override # 0 THEN c.override ELSE settings.auto[c.profile]

\* Where a tick goes that saw a change, or none: throttled, it sets nothing, and
\* in boost mode SetClocks may return at once.
TickAfter(differs) ==
    IF ~differs \/ hold = "throttle" THEN "skip"
    ELSE IF hold = "boost" THEN "boost" ELSE "set"

RefreshUnread(nv, other) ==
    LET read    == GetRate(hw, mod, nv)
        ours    == Profile # ctx.profile \/ settings.override # ctx.override
        changed == ours \/ other
    IN  /\ tick = "idle"
        /\ ctx' = [profile |-> Profile, override |-> settings.override,
                   freq |-> ctx.freq]
        /\ mod' = [read.mod EXCEPT !.isDocked = (Profile = "Docked")]
        /\ stale' = (stale /\ changed)
        /\ tick' = TickAfter(changed \/ stale)
        /\ held' = (held \/ ((ours \/ stale) /\ hold # "none"))
        /\ UNCHANGED <<console, settings, game, events, hw, vrr, thread, drove, swapped>>

\* The tick up to SetClocks: the boost mode and the throttle are looked at, then
\* RefreshContext and config::Refresh note what has changed as seen; other: some
\* other clock has changed.
Refresh(nv, other) ==
    LET read    == GetRate(hw, mod, nv)
        moved   == read.hz # NoRate /\ read.hz # ctx.freq
        ours    == Profile # ctx.profile \/ moved \/ settings.override # ctx.override
        changed == ours \/ other
    IN  /\ tick = "idle"
        /\ ctx' = [profile |-> Profile, override |-> settings.override,
                   freq |-> IF moved THEN read.hz ELSE ctx.freq]
        /\ mod' = IF Lite THEN read.mod
                  ELSE [read.mod EXCEPT !.isDocked = (Profile = "Docked")]
        /\ stale' = (stale /\ changed)
        /\ tick' = TickAfter(changed \/ stale)
        /\ held' = (held \/ ((ours \/ stale) /\ hold # "none"))
        /\ UNCHANGED <<console, settings, game, events, hw, vrr, thread, drove, swapped>>

\* A step of who moved a rate, if it did.
Drives(who) == drove' = IF hw' = hw THEN drove ELSE who

\* SetClocks: HandleGovernor first, then the display unless VRR has it.
SetClocks(nv) ==
    LET reset == IF vrr.last /\ ~settings.vrr THEN SetRate(hw, mod, 60, nv) ELSE hw
        rate  == IF Target(ctx) # 0 THEN Target(ctx) ELSE 60
        ours  == ~settings.vrr /\ settings.overwrite
    IN  /\ tick = "set" \/ (tick = "boost" /\ settings.overBoost)
        /\ vrr' = [on |-> settings.vrr, last |-> settings.vrr]
        /\ hw' = IF ours THEN SetRate(reset, mod, rate, nv) ELSE reset
        /\ ctx' = IF ours /\ Target(ctx) # 0 THEN [ctx EXCEPT !.freq = rate] ELSE ctx
        /\ tick' = "idle"
        /\ held' = (held /\ ~ours)
        /\ Drives(IF ctx.profile = "Docked" /\ ctx.override = 0 THEN "docked" ELSE "tick")
        /\ UNCHANGED <<outside, mod, thread, swapped>>

\* SetClocks in a boost mode that the settings do not overrule.
BoostReturn ==
    /\ tick = "boost" /\ ~settings.overBoost
    /\ tick' = "idle"
    /\ UNCHANGED <<outside, hw, mod, ctx, vrr, thread, history>>

\* A tick without SetClocks.
TickEnds ==
    /\ tick = "skip"
    /\ tick' = "idle"
    /\ UNCHANGED <<outside, hw, mod, ctx, vrr, thread, history>>

-------------------------------------------------------------------------------
(* The VRR half of the governor thread.                                    *)

VrrRuns == vrr.on /\ ctx.profile # "Docked"

\* The frame rate is read, and without one the round is over.
Counted(ticks) ==
    [thread EXCEPT !.focusTick = ticks,
                   !.pc = IF game.fps = 254 THEN "idle" ELSE "lock",
                   !.fps = IF game.fps = 254 THEN 0 ELSE game.fps]

\* A look at the focus, without the mutex; out of focus the panel gets 60 Hz.
LookAtFocus(nv) ==
    /\ thread.pc = "idle" /\ VrrRuns
    /\ thread.focusTick = VrrFocusTicks
    /\ IF game.focus
       THEN thread' = Counted(0) /\ UNCHANGED hw
       ELSE /\ thread' = [thread EXCEPT !.focusTick = 0]
            /\ hw' = SetRate(hw, mod, 60, nv)
    /\ Drives("vrr")
    /\ UNCHANGED <<outside, mod, ctx, tick, vrr, held, swapped>>

LookAtFps ==
    /\ thread.pc = "idle" /\ VrrRuns
    /\ thread.focusTick < VrrFocusTicks
    /\ thread' = Counted(thread.focusTick + 1)
    /\ UNCHANGED <<outside, hw, mod, ctx, tick, vrr, history>>

\* The highest rate VRR may set, in 8 bits: a profile's rate arrives in Hz
\* multiplied by 1000000, an override as it is.
MaxDisplay ==
    LET hz == IF ctx.override # 0 THEN ctx.override
              ELSE settings.auto[ctx.profile] * 1000000
    IN  IF hz = 0 THEN 60 ELSE hz % 256
MinDisplay == IF Console = "Aula" THEN 45 ELSE 40

VrrRateUnbounded(fps) ==
    LET fits == {i \in 1..9 : fps * i >= MinDisplay}
    IN  IF fits = {} THEN 0 ELSE fps * Max(fits)

\* The first multiple of the frame rate that fits, 0 if none does.
VrrRate(fps) ==
    LET fits == {i \in 1..9 : fps * i \in MinDisplay..MaxDisplay}
    IN  IF fits = {} THEN 0 ELSE fps * Min(fits)

\* What drives the rate in a turn of VRR, for the history.
VrrDriver ==
    IF MaxDisplay > PanelMax
    THEN IF VrrRuns THEN "cut" ELSE "latecut"
    ELSE IF VrrRuns THEN "vrr" ELSE "late"

AdjustOffByOne(nv) ==
    LET rate  == VrrRate(thread.fps)
        first == SetRate(hw, mod, rate, nv)
        top   == thread.vrrTick > VrrTicks
    IN  /\ thread.pc = "lock" /\ tick = "idle"
        /\ hw' = IF top THEN SetRate(first, mod, MaxDisplay, nv) ELSE first
        /\ ctx' = IF rate = 0 THEN ctx ELSE [ctx EXCEPT !.freq = rate]
        /\ thread' = [thread EXCEPT !.pc = "idle", !.fps = 0,
                         !.vrrTick = IF top THEN 0 ELSE @ + 1]
        /\ Drives(VrrDriver)
        /\ UNCHANGED <<outside, mod, tick, vrr, held, swapped>>

\* With the mutex, whatever has become of VRR since: the rate, and now and
\* then the highest one.
Adjust(nv) ==
    LET rate  == VrrRate(thread.fps)
        first == SetRate(hw, mod, rate, nv)
        top   == thread.vrrTick = VrrTicks
    IN  /\ thread.pc = "lock" /\ tick = "idle"
        /\ IF MaxDisplay = MinDisplay
           THEN /\ thread' = [thread EXCEPT !.pc = "idle", !.fps = 0]
                /\ UNCHANGED <<hw, ctx>>
           ELSE /\ hw' = IF top THEN SetRate(first, mod, MaxDisplay, nv) ELSE first
                /\ ctx' = IF rate = 0 THEN ctx ELSE [ctx EXCEPT !.freq = rate]
                /\ thread' = [thread EXCEPT !.pc = "idle", !.fps = 0,
                                 !.vrrTick = IF top THEN 0 ELSE @ + 1]
        /\ Drives(VrrDriver)
        /\ UNCHANGED <<outside, mod, tick, vrr, held, swapped>>

-------------------------------------------------------------------------------
(* The console, the user and the game.                                     *)

Event == events < MaxEvents /\ events' = events + 1

\* The operating system drives the new screen at 60 Hz and stops the panel.
Dock(s, divn) ==
    /\ Event /\ place = "hand" /\ ~Lite
    /\ place' = "dock" /\ sink' = s /\ link' = FALSE
    /\ hw' = [pll |-> [divn |-> divn, sdm |-> 0], mode |-> 60]
    /\ swapped' = (swapped \/ mod.canChange)
    /\ drove' = "system"
    /\ UNCHANGED <<hold, settings, stale, game, mod, ctx, tick, vrr, thread, held>>

\* The screen has been trained and answers.
LinkUp ==
    /\ place = "dock" /\ ~link
    /\ link' = TRUE
    /\ UNCHANGED <<place, sink, hold, settings, stale, game, events, hw, mod, ctx, tick,
                   vrr, thread, history>>

Undock ==
    /\ Event /\ place = "dock"
    /\ place' = "hand" /\ link' = FALSE
    /\ hw' = [hw EXCEPT !.pll = Plld(60)] /\ drove' = "system"
    /\ UNCHANGED <<sink, hold, settings, stale, game, mod, ctx, tick, vrr, thread, held,
                   swapped>>

\* Boost mode, or a throttle, begins or ends.
HoldChange(h) ==
    /\ Event /\ h # hold
    /\ hold' = h
    /\ UNCHANGED <<place, sink, link, settings, stale, game, hw, mod, ctx, tick, vrr,
                   thread, history>>

SetOverride(r) ==
    /\ Event /\ settings.override # r
    /\ settings' = [settings EXCEPT !.override = r]
    /\ UNCHANGED <<console, stale, game, hw, mod, ctx, tick, vrr, thread, history>>

SetConfig(c) ==
    /\ Event /\ c.override = settings.override /\ c # settings
    /\ settings' = c /\ stale' = TRUE
    /\ UNCHANGED <<console, game, hw, mod, ctx, tick, vrr, thread, history>>

Play(g) ==
    /\ Event /\ g # game
    /\ game' = g
    /\ UNCHANGED <<console, settings, stale, hw, mod, ctx, tick, vrr, thread, history>>

-------------------------------------------------------------------------------
Settings == [override: OverrideRates, vrr: BOOLEAN, overwrite: BOOLEAN,
             overBoost: OverBoosts, auto: [Handheld: HandheldRates, Docked: DockedRates]]
Games == [fps: FpsSeen, focus: BOOLEAN]

\* clockManager::Initialize and display::Initialize, on a console in the hand.
Init ==
    /\ place = "hand" /\ sink = (CHOOSE s \in Sinks : TRUE) /\ link = FALSE
    /\ hold = "none"
    /\ hw = [pll |-> Plld(60), mode |-> 60]
    /\ mod = [isDocked |-> FALSE, canChange |-> FALSE, highest |-> 60,
              lastVActive |-> 1080]
    /\ ctx = [profile |-> "Handheld", freq |-> 0, override |-> 0]
    /\ settings \in {s \in Settings : s.override = 0 /\ s.overwrite}
    /\ stale = TRUE /\ tick = "idle"
    /\ vrr = [on |-> FALSE, last |-> FALSE]
    /\ thread = [pc |-> "idle", fps |-> 0, focusTick |-> 0, vrrTick |-> 0]
    /\ game \in {g \in Games : g.focus /\ g.fps # 254}
    /\ held = FALSE /\ drove = "system" /\ swapped = FALSE /\ events = 0

Driver == {"ok", "nodock", "none"}

Tick ==
    \/ \E other \in BOOLEAN : Refresh("ok", other)
    \/ SetClocks("ok")
    \/ BoostReturn
    \/ TickEnds

Governor == LookAtFocus("ok") \/ LookAtFps \/ Adjust("ok")

DriverFails ==
    \E nv \in {"nodock", "none"} :
        \/ \E other \in BOOLEAN : Refresh(nv, other)
        \/ SetClocks(nv) \/ LookAtFocus(nv) \/ Adjust(nv)

Outside ==
    \/ \E s \in Sinks, divn \in {0, 32} : Dock(s, divn)
    \/ LinkUp \/ Undock
    \/ \E h \in Holds : HoldChange(h)
    \/ \E r \in OverrideRates : SetOverride(r)
    \/ \E c \in Settings : SetConfig(c)
    \/ \E g \in Games : Play(g)

Next == Tick \/ Governor \/ DriverFails \/ Outside

Spec == Init /\ [][Next]_vars

\* The Tick thread runs for ever, a docked screen answers in the end, and the
\* driver does not fail every time: a call made again and again succeeds. Of the
\* governor thread nothing is asked.
FairSpec ==
    /\ Spec
    /\ SF_vars(\E other \in BOOLEAN : Refresh("ok", other))
    /\ SF_vars(SetClocks("ok")) /\ WF_vars(TickEnds \/ BoostReturn)
    /\ WF_vars(LinkUp)

-------------------------------------------------------------------------------
PanelRate == PlldRate(hw.pll)

\* "The maximum display clock frequency in handheld mode (in Hz)."
\* (config_info_strings.cpp:121): the panel is never driven above the highest
\* rate that setting can have. VRR takes it there: the highest rate it tries is a
\* profile's in Hz times 1000000, cut to 8 bits (governor.cpp:247).
PanelWithinMax == place = "hand" => PanelRate <= PanelMax

\* What the code keeps of it: the panel never leaves the rates it has timings
\* for, and is taken above its maximum in two ways only: a tick that saw the
\* console in the dock sets the docked profile's rate after it was taken out, or
\* VRR tries a highest rate that the cut to 8 bits has raised. An override, a
\* handheld profile, a look at the focus, a failure of the driver never do.
HandheldWithinMax ==
    place = "hand" =>
        PanelRate <= 80 /\ (PanelRate <= PanelMax \/ drove \in {"docked", "cut", "latecut"})

\* A docked screen is never set to more than it offers, unless it was put in
\* the place of another one between two ticks: GetRate asks for the rates of a
\* screen only when the console has been seen out of the dock
\* (g_canChangeRefreshRateDocked), or when its number of lines changes.
MonitorWithin ==
    place = "dock" => hw.mode <= HighestRate(sink.rates) \/ swapped

\* A console in the dock never has its panel's PLLD programmed, whichever call
\* of the driver fails: the operating system leaves it where it is read as
\* docked, and the setter stops there (display_refresh_rate.cpp:317).
PanelLeftAlone ==
    [][place = "dock" /\ place' = "dock" => hw'.pll = hw.pll]_vars

\* What the display should show: the wanted rate in the hand, and in the dock
\* the entry of the table that stands for it.
Shown(r) ==
    IF place = "hand" THEN PanelRate = r
    ELSE hw.mode = g_dockedRefreshRates[DockedIndex(r, FALSE, HighestRate(sink.rates))]

WantedRate == IF settings.override # 0 THEN settings.override ELSE settings.auto[Profile]

\* A panel at 80 Hz is read as one that is not driven: the setter refuses it from
\* then on, until the console is put into a dock and taken out again.
Stuck == place = "hand" /\ LooksDocked(hw.pll)

\* With refresh rate changing on and VRR off, the rate that is wanted comes to be
\* shown, and stays, after failures of the driver, docking, throttles, boost mode
\* and VRR: SetClocks notes a rate as set even when it is not, and RefreshContext
\* notices the difference. What keeps it away until SetClocks has its next turn is
\* a tick that saw a change and was held, and a turn of VRR that was begun before
\* VRR was turned off, whose rate is noted as the current one. (And a screen that
\* was swapped unseen, and a panel taken to 80 Hz by the docked profile's rate or
\* by VRR.)
RateShown ==
    <>[](settings.overwrite /\ ~settings.vrr /\ WantedRate # 0 =>
            \/ held \/ drove \in {"late", "latecut"} \/ swapped \/ Stuck
            \/ Shown(WantedRate))

\* Whatever was set, docked and undocked in whatever order, the panel and the
\* docked screen run at rates they may run at (SetRate, SetClocks, the VRR
\* governor).
RatesAllowed == TypeOK /\ HandheldWithinMax /\ MonitorWithin
=============================================================================
