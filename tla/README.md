# TLA+ models of RCU

RCU overclocks and underclocks the Nintendo Switch. A patch of the Atmosphere
loader lifts the limits of the operating system at boot; a sysmodule decides
which clock the CPU, the GPU, the RAM and the display run at from profiles per
title, temporary overrides, load governors and safety features, beside an
operating system that sets the same clocks; an overlay lets the user change the
settings of both. The modules here model the three with the memory tester that
belongs to them, TLC checks them on small instances, and TLAPS proves what
matters most of the core for all values of the constants.

File names below are relative to `Source/ryazha-clk/sysmodule/src` unless they
start with another directory of the repository (`overlay/` and `common/` are
beside `sysmodule/`, `loader/` is
`Source/Atmosphere/stratosphere/loader/source/oc`).

## Inventory

| component | state | operations | correct when |
|---|---|---|---|
| clock manager, `mgr/clock_manager.cpp` | `gContext` (title, profile, clocks, overrides), `gFreqTable`, `gContextMutex` | `Initialize`, `Tick` = `HandleSafetyFeatures`, `RefreshContext`, `SetClocks`, `HandleFreqReset`, `ApplyGpuDvfs`, `DVFSReset`; `GetCurrentContext`, `GetFreqList` | settings come to be applied and stay applied; no clock over the cap of the profile; the RAM never outruns the GPU voltage; a throttled console stays at stock |
| governor, `mgr/governor.cpp` | `isCpuGovernorEnabled`, `isGpuGovernorEnabled`, `isVRREnabled`, hold timers | `HandleGovernor` (called by `SetClocks`), `GovernorThread` with its CPU, GPU and VRR parts | a clock of the table that follows the load, within cap and user's clock; lets go when switched off |
| board clocks, `board/board_freq.cpp` | `currentInjectedHz`, the hardware | `SetHz`, `GetHz`, `GetRealHz`, `ResetToStock` family, `GetProfile` | what is reported is what runs |
| board voltages, `board/board_volt.cpp` | the GPU voltage table in PCV's memory, the DFLL's tunings | `PcvHijackGpuVolts`, `CacheGpuVoltTable`, `GetMinimumGpuVmin`, `SetDfllTunings`, `GetVoltage` | the floor is enough for the RAM clock; the debug handle is closed |
| config store, `file/config.cpp` over minIni | loaded values, `gProfileMHzMap`, overrides, mtime; `config.ini` | `Refresh`, `Load`, `SetProfiles`, `SetConfigValues`, `SetOverrideHz` | loaded values and file agree; no change lost; the file survives a power loss |
| kip settings, `file/kip.cpp` | the customization table of the kip file, its checksum in `config.ini` | `GetKipData`, `MigrateKipData`, `SetKipData` | table and config agree after a start; a setting arrives at the field it is for |
| IPC server and service, `ipc/`, `common/src/client` | up to 42 session handles, running flag; the client's session | accept, receive, dispatch, close, stop; every command | every session is served or closed; no handle lost; both ends mean the same call |
| display, `display/display_refresh_rate.cpp` | last rate, docked state, the panel's PLLD | `SetRate`, `GetRate`, `SetDisplayState` | a rate the screen may run at, and the one asked for |
| sensors, loads, battery: `board/board_sensor.cpp`, `board_load.cpp`, `tsensor/`, `i2c/`, `pwr/` | registers | calibration, read-out, settings | the temperature, load or power of the die, in range and of one moment |
| SoC registers, `soc/` | memory-mapped I/O | slide of the GPU's PLL, memory activity, PLLMB | the clock that was asked for |
| process management and integrations, `hos/` | the running title, its focus, SaltyNX' shared memory | queries | answers about the game in front |
| file utilities, `file/file_utils.cpp` | log and its flag file, CSV | write | the log follows its flag |
| lifecycle, `main.cpp`, `board/board.cpp` | services and threads | start, loop, stop | threads end before what they use |
| overlay, `overlay/src` | a stack of pages, each with copies of lists of the sysmodule | open, edit, go back, refresh | edits do not undo each other; the kip is saved |
| process creation, `loader/../ldr_process_creation.cpp` (beside `oc`) | the headers and marks of this call, the new process and its memory, RoManager's pins | `PinProgram`, `CreateProcess`, `UnpinProgram` | a process is created whole, in its own place and patched for what it is, or not at all |
| loader patches, `loader/` | the customization table, PCV's image | `SafetyCheck`, `PatcherEntry`, every patch, RAM tables | the console boots with all limits lifted or stops; tables in order and for the user's clock |
| secure monitor, `secmon_*` in `Source/Atmosphere-Patches` | the restriction mask, access tables, the mapping of the devices | `HandleSmc`, `SmcReadWriteRegister` | every register that is allowed is reached, no other; what is read is what the register held |
| MemTesterNX, `Source/MemTesterNX` | shares of memory, jobs and reports in shared integers | three suites | sound memory passes, faults are found |

Textual patches of Atmosphere and its older sources, TinyMemBenchNX, the fatal handler
payload, scripts, CI files and `timings` are beside these and not modelled.

### Interactions

- The Tick thread (`main.cpp`) calls `Tick`, then `WaitForNextTick`. `Tick`
  holds `gContextMutex` from its first line to its last, and `RefreshContext`
  may sleep meanwhile.
- The governor thread polls every 5 ms. It looks at its flags, at the boost mode
  and, for VRR, at the profile and the focus *before* it takes the mutex.
- The IPC thread changes overrides under `gOverrideMutex` and the config under
  `gConfigMutex`, at any point of a tick.
- The operating system changes the APM configuration (boost, docking, a request
  of the game) and then sets clocks through PCV by itself.
- `config.ini` is also written from outside; its mtime is what `Refresh` sees.
- The overlay reads whole lists over IPC, edits its copy and sends it back
  whole; `SetKipData` writes the copy of the sysmodule into the kip, and at the
  next boot the loader reads it there and patches PCV while it is loaded.

### What is hard

Changes that one thread consumes and another step decides not to apply; flags
read before a lock and used after it; the order of voltage table, GPU clock and
RAM clock, over four paths that set them; a table write that fails silently; a
clock that is reported from a cache while PCV has set another; integer rounding
at caps and table ends; config files and kips that are written in several steps
without a transaction; lists that several pages hold copies of and send whole;
layouts that three programs have to agree on; threads nobody ends; a fixed
session table; tables of clocks and timings computed from what the user may
set. `PROJECT.json` has each at its line under `hazards`, with the properties
that are about it.

## The modules

### The sysmodule's core

| module | models | from |
|---|---|---|
| `FreqTable` | caps, assignable clocks, `GetNearestHz`, the load to clock mapping, `GetMinimumGpuVmin`, what `RefreshFreqTableRow` makes of PCV's list: operators over any table | `mgr/clock_manager.cpp`, `mgr/governor.cpp`, `board/board_volt.cpp` |
| `ClockManager` | the clock hardware as a record with `SetHz`, `GetHz`, `ResetToStock`, `PcvHijackGpuVolts` as functions of it; the Tick thread, the CPU and GPU governors, the console and the overlay | `mgr/clock_manager.cpp`, `mgr/governor.cpp`, `board/board_freq.cpp`, `board_freq.hpp`, `board_volt.cpp`, `board/board_profile.cpp`, parts of `file/config.cpp` |
| `Display` | rates, timings and PLL dividers of a docked screen and of the panels; the display's part of the tick and the VRR half of the governor thread, docking, other screens, a driver that fails | `display/display_refresh_rate.cpp`, `mgr/clock_manager.cpp`, `mgr/governor.cpp` |
| `IpcServer` | the service: sessions, table of handles, its thread, its start and stop | `ipc/ipc_server.c`, `ipc/ipc_service.cpp`, `main.cpp` |
| `IpcCalls` | every command at both ends: sizes, buffers, answers, the client's connection | `ipc/ipc_service.cpp`, `common/src/client/ipc.c`, `overlay/src/main.cpp` |
| `Lifecycle` | what `main` opens and closes beside the IPC thread and the threads nobody ends; the log; the title behind a process id | `main.cpp`, `file/file_utils.cpp`, `hos/process_management.cpp` |

### Settings, from the page to the loader

| module | models | from |
|---|---|---|
| `ConfigValues` | the values a user may configure, defaults and which are accepted | `common/include/hocclk/config.h` |
| `Ini` | minIni on a file that is a sequence of lines | `lib/minIni/dev/minIni.c` |
| `Settings` | the abstract promise to the clients: parts changed atomically, in store and memory together | |
| `ConfigStore` | `config.ini`, mtime, `Refresh`, `Load`, `SetProfiles`, `SetConfigValues` step by step, edits from outside, power loss; implements `Settings` | `file/config.cpp`, minIni |
| `KipSync` | kip, checksum and config values through start, migration, `SetKipData`, failing writes, power loss, releases | `file/kip.cpp` |
| `KipFields` | every config value with its name in `config.ini`, its word in the kip and the loader's field there | `config.h`, `file/kip.hpp`, `file/kip.cpp`, `loader/customize.hpp` |
| `CustFile` | the search for the table in `loader.kip`, piece by piece | `file/kip.hpp` |
| `Overlay` | the stack of pages and every listener with its call and its error path | `overlay/src/ui/gui` |
| `Menus` | every control of the settings pages and the values it offers on each model | `overlay/src/ui/gui/misc_gui.cpp` |
| `Latencies` | the page of RAM latencies and its graph | the same |
| `FreqChoice` | a clock from the list the user picks from to the hardware | `freq_choice_gui.cpp`, `app_profile_gui.cpp`, `mgr/clock_manager.cpp` |

### The loader

| module | models | from |
|---|---|---|
| `Customize` | the customization table, its released values, `SafetyCheck` | `loader/customize.{hpp,cpp}`, `pcv/pcv.cpp` |
| `MtcMariko` | Mariko's RAM tables: clocks, voltages, latencies, timings, registers, PLL dividers | `loader/mtc*`, `loader/mariko/`, `pcv/pcv_mariko.cpp` |
| `PcvPatch` | what every patch writes, Erista's RAM tables, PTM's table | `pcv/`, `loader/erista/`, `loader/ptm/` |
| `Loader` | the pass of the patcher over PCV's words, its counts and panics | `loader/oc_common.hpp`, `pcv/` |
| `ProcessCreation` | how the loader makes a process of a program: meta, NSOs, layout, loading in place, the calls of the patchers, failures | `loader/../ldr_process_creation.cpp` |
| `SecureMonitor` | which calls of the secure monitor there are, where it maps the devices, reads and writes of registers by two cores | `Source/Atmosphere-Patches`: `secmon_smc_handler.cpp`, `secmon_smc_register_access.cpp`, `secmon_memory_layout.hpp` |

### Hardware, operating system, tools

| module | models | from |
|---|---|---|
| `Thermal` | SOC_THERM and AOTAG: calibration, read-out, sleep | `tsensor/` |
| `PowerChips` | TMP451, MAX17050, the converters and the charger behind failing I2C transfers, `HandleMiscFeatures` | `i2c/`, `mgr/clock_manager.cpp` |
| `SocClocks` | the slide of the GPU's PLL, loads of GPU, CPU and memory, the DFLL | `soc/`, `board/board_load.cpp`, `board/board_volt.cpp` |
| `BoardBringUp` | `Initialize`, `Exit`, fuses, the search of PCV's memory | `board/board.cpp`, `board_fuse.cpp`, `board_misc.cpp`, `board_volt.cpp` |
| `Games` | the focus from PDM's events, SaltyNX' block | `hos/process_management.cpp`, `hos/integrations.cpp` |
| `MemPatterns`, `MemTester` | the tests on a region with a fault; shares, workers, jobs | `Source/MemTesterNX/source` |

`ClockManager` EXTENDS `FreqTable`. `ConfigStore` EXTENDS
`Ini` and `ConfigValues` and has `Settings` as an instance. `Loader` EXTENDS
`PcvPatch` and through it the tables; `MCLoader` joins it with `Menus` and
`KipFields`, so that what the overlay offers is carried to the loader, and with
`ProcessCreation` and `SecureMonitor`, which share no state with them: a behaviour
is about one of the three (`half`).
`MCHardware` takes several modules that share no state: each behaviour of it picks
one part and stays with it. `MC...` modules are instances. Proofs are in
`ClockManagerProofs` (the arithmetic of clocks, types, the voltage floor and
which clocks are set), `IpcServerProofs`, `DisplayProofs`, `ConfigStoreProofs`,
`OverlayProofs`, `LoaderProofs` (`KipSync`, `ProcessCreation`), `HardwareProofs`
(`Lifecycle`, `BoardBringUp`, `SocClocks`) and `MemTesterProofs`.

## How the state and the actions correspond to the code

### `ClockManager`

The state is `gContext` (`ctxApp`, `ctxProfile`, `freq`, `ctxOvr`), the live
settings (`cfg`, the loaded `config.ini`; `stale`, its mtime is not the one
loaded; `ovr`), the hardware (`hw`), the console's inputs (`app`, `charger`,
`apm`, `alarm`), the mutex and the two threads with their program counters and
locals. One tick is a sequence of actions, cut where another thread can be
observed or a board call takes effect:

| action | code |
|---|---|
| `TickBegin` | take the mutex, read the boost mode, `HandleSafetyFeatures` |
| `RefreshIds` | `RefreshContext` up to the reset on a new title or profile |
| `RefreshVolts` | the drop of the voltage floor after it, and the sleep |
| `RefreshSync` | the copy of real clocks and overrides to `gContext` |
| `Decide` | `config::Refresh` and the condition of `SetClocks`, boost return |
| `SetClocksCpu`, `SetClocksGpu` | one turn of the loop over the modules |
| `SetClocksMem`, `SetClocksMemSet`, `SetClocksMemDown` | the RAM's turn, before, at and after `board::SetHz` |
| `DvfsReset` | `DVFSReset`, when the RAM has no target |
| `HandleGovernor` | the governor's turn, and the release of the mutex |
| `GovernorPoll` ... `GovernorGpu` | the governor thread, its unlocked checks as steps of their own |
| `ApmChange`, `TitleChange`, `ChargerChange`, `AlarmChange` | the console |
| `SetOverride`, `SetConfig` | IPC calls of the overlay (edits of the file from outside are in `ConfigStore`) |

What is abstracted, and why that is safe:

- Clocks are in kHz. Every clock the code names is a whole number of kHz, and
  u32 Hz would not fit TLC's integers. `GetNearestHz` compares a whole number of
  kHz with half a sum, so the floor of the half changes nothing. The governor's
  division may lose less than 1 kHz before it looks for an entry; no property
  tells the two apart.
- A title without a profile has the all-zero setting, as the maps of
  `config.cpp` give. Overrides are read as one value per tick; the code takes
  `gOverrideMutex` per module, in one loop without a pause.
- `prepareBoostExit` sets a clock that the same tick sets again; it is left out.
- The governor's hold timer and the poll count after which the configured
  minimum is read are a choice (`GovernorHolds`, `minHz`).
- `setBy` is history: whether a clock is where `SetClocks` put it, where the
  governor's thread put it, or where a tick left it that saw a change without
  applying it (a throttled one, one of boost mode, one that switched its governor
  off). `Differs` is the condition of `SetClocks` without the throttle.
- The `Governor` row of `gContext.freqs` reads the CPU clock, as the code does.
- The VRR part of a governor setting and the display module are in `Display`;
  calls of apm are taken to succeed, and firmware to be 9.0.0 or later.
- Before the first tick `gContext.applicationId` is 0. `GlobalTitle` stands for
  it; the first tick replaces it before anything reads it.

### `IpcServer`

`table` is `handles[1 .. count - 1]`, so an index of the code is an index of the
sequence; `handles[0]`, the port, is left out of it. `opened` is what the kernel
knows of this process's ends of sessions, kept apart from `table` so that a leak
is a difference between the two. `client`, `req` and `port` are the other end:
who is connected, whose request has no reply, who waits to be accepted.

| action | code |
|---|---|
| `Wait` | `svcWaitSynchronization`: the port, the lowest signalled entry, or the cancellation |
| `NewSession` | `_ipcServerProcessNewSession`, with the refusal at the limit |
| `Receive` | receive, `_ipcServerParseRequest` and the handler; `_ipcServerDeleteSession` on failure |
| `Reply` | the reply; `_ipcServerDeleteSession` on failure or after a close message |
| `MainStarts` | `clockManager::SetRunning(true)`, then the start of the thread |
| `MainStops` | the loop ends, `svcCancelSynchronization` |
| `MainExits` | the thread is joined, `ipcServerExit` |
| `Connect`, `Ask`, `Leave` | clients and the kernel |

The kernel is modelled as the code uses it. A session counts against the limit
of its port until both of its ends are closed. It is signalled by a request and
by the close of the client's end. A wait looks at its handles in order, and at
the cancellation only when none is signalled; a cancellation that finds the
thread at work is kept for its next wait. A client whose session is closed gets
an error for the request it waits on, which counts as an answer here.

### `Display`

`hw` is the panel's PLLD and the docked mode, `mod` the static variables of
`display_refresh_rate.cpp`, `ctx` the copies in `gContext`, `settings`, `game`
and `sink` what the user, SaltyNX and the dock give. The mutex is held from
`Refresh` to `TickEnds`, with `SetClocks` between them: the console may leave
the dock there. `hold` is boost mode or a throttle, which the tick looks at before
it takes note of changes (`TickAfter`): a throttled tick sets no rate (`TickEnds`),
one in boost mode returns from `SetClocks` at once unless the settings overrule
boost (`BoostReturn`). The governor thread's three VRR steps are `LookAtFocus`,
`LookAtFps`, which end where it waits for the mutex, and `Adjust`, which does
what it decided before. Each call of nvdisp may fail. `held`, `drove` and `swapped`
are history: that a tick saw a change of the display while it was held, what moved
a rate last (a tick, one that took the console for a docked one, VRR, VRR in a turn
it had begun before it was turned off or the console docked, with a maximum above
the panel's or not), and that a screen was replaced between two ticks.

### `ConfigStore` and `Settings`

`ini` is the file, `mtime` its time in granules, `values`, `mhzMap`, `countMap`
and `gMtime` what is loaded. `put` is the write under way and holds
`gConfigMutex`: `SetProfiles` and `SetConfigValues` start it (`Put`), `WriteNew`
puts the lines into the temporary file (or into `config.ini`, when there is
none), `Remove` and `Rename` are minIni's replacement, `Apply` is what the code
does to the loaded maps afterwards. `RefreshStat` and `RefreshBrowse` are the
tick's `Refresh`; a browse that fails reads nothing, and leaves the defaults
loaded with the time of the file, so that it is not read again before it changes. `PowerLoss` may hit any step; a file being written is then any
prefix of its lines. `EditFile` is a change of the card from outside.

In `Settings` a change replaces one part, in store and memory at once; an edit
changes the store, memory follows by being dropped and read; a power loss costs
all of the store or nothing of it. The refinement takes `stored` to be what a
load of the file would give, or of the lines being written once the old file is
gone, and `loaded` the maps, or the new ones from that moment on. That moment,
and not the return of the call, is when a change takes effect; the mutex hides
the rest. What the code cannot keep is in `Settings`, too: a first `config.ini`
is written in place, so a store of a single part may lose some of it.

### `KipSync`, `KipFields`, `CustFile`

`kip` is the file's version and table, `conf` the values of `config.ini` with
the checksum, `list` the copy a page of the overlay holds. `GetKipData` runs at
start, in one step up to its write of `config.ini`; `WriteTable`, `Sign` are the
two halves of `SetKipData`, with the reload of `config.ini` free to come in
between. A checksum is the content it is of, so equal checksums are equal
files. `asked` and `saved` are what the user asked for last and what the last
agreement was; `risk` counts installs, edits and losses since then.
`ConfigStore`'s promise is what `KipSync` assumes of `config.ini`.

`KipFields` takes the fields as they are: the enumeration of `config.h` (with
one name for a family such as the GPU voltages), the names
`hocclkFormatConfigValue` gives them, the words of the sysmodule's
`CustomizeTable` and of the loader's. The path of a value is `Section`,
`Loaded`, `SetKipData`, `LoaderTakes`, and `GetKipData` back.

### `Overlay`

`stack` is libtesla's stack of pages, each with the list it read when it was
built; `config`, `profiles`, `overrides` and `kip` are the sysmodule's side.
Every action of the user may fail in its IPC call and then ends at the error
page. `Refresh` is a page's update once a second: it reads its list again only
where the code does. `hasty` is history: the user acted on a page between the
change of its list by a submenu and the next refresh.

### `Loader`

An image is the sequence of those words of PCV that hold a value some entry
looks for, each with the structure it is in; `at` walks over it as
`Patch` does, `count` is `patched_count`. The customization table `c` is fixed at
the start, so everything about tables is an invariant over the choice of `c`.
Tables are computed by the operators of `Customize`, `MtcMariko` and `PcvPatch`
at their real size. Timings are computed in the code with
doubles; here in fractions of integers with the same floors and ceilings.

### `ProcessCreation`

`stage` is how far the call of `CreateProcess` is, `program` its meta and files,
`nsos` the modules whose headers are in `g_nso_headers`, `info` the `ProcessInfo`,
`is_pcv` and `is_ptm` the globals. `memory` has, for every unit of the new
process, the module and segment it is from, so that data unpacked over something
else shows. One module is one step (`LoadAutoLoadModule`), and between any two
steps a call into the operating system may fail (`GiveUp`); `Fail` is every
`R_TRY`, with the scope that closes the new process. The decompressors give the
segment or fail.

### `SecureMonitor`

Addresses count words of four bytes. `device` holds the registers that are looked
at, `cores` the call each core is in. `HandleSmc` is the dispatch, the check of the
restriction and `SmcReadWriteRegister` up to its access of the register;
`WriteRegister` is the write and the return, so that the other core may come in
between. Handlers that are not in the repository answer what they like. The access
tables of the PMC and of the memory controllers are not in the repository either:
they are constants, with at least one of the first eight registers allowed, since
the virtual address of a table does not move with the head that is cut off it
(`TablesAssumption`). A register that holds its own address, which a caller takes
for a refused read, cannot occur in the model.

### `MemTester`

The main thread and the workers share `testJobId` and `testWorkerReport`, plain
integers; `SeesReady` and `RunJob` are a worker's two places where it polls, the
other actions are main's. A test is the function of `MemPatterns` from a region
to its outcomes. `rand_ul` gives one of `Samples`.

### The parts of `MCHardware`

| part | module | steps |
|---|---|---|
| `table` | `FreqTable` | a wanted clock, a load, a RAM clock that climb through every table, profile and set of disabled clocks |
| `thermal` | `Thermal` | set-up, sleep and wake, conversions of AOTAG between its two reads |
| `rails`, `tmp451`, `gauge`, `volts` | `PowerChips` | settings every tenth tick, readings of several transfers, each of which may fail |
| `slide`, `gpuload`, `cpuload`, `emc`, `dfll` | `SocClocks` | the slide against PCV's own writes, samples, updates under changing clocks |
| `board` | `BoardBringUp` | services opened one by one and closed, every speedo, processes and regions until one fits |
| `games` | `Games` | launch, focus changes, ends, queries that fail |
| `latencies` | `Latencies` | choices in every row, a maximum that changes |
| `ipc` | `IpcCalls` | the overlay's start, every command, other versions, a sysmodule that stops |
| `life` | `Lifecycle` | start with a failure at any step, loop, stop |
| `cust` | `CustFile` | files up to 14 bytes with up to two magics |
| `choice` | `FreqChoice` | every clock of every list, through profile and override |

## The runs

Passing runs. A property that joins several parts is listed with them; each
part is an operator of its own with a comment that says what it is about.

| run | module | shows |
|---|---|---|
| `settings` | `MCClockManager` | titles, docking, boost mode, overheating, overrides and config changes, governors switched on and off: `SettingsTakeEffect`, `SetClocksApplies`, `MemFloor`, `TypeOK` |
| `throttle` | `MCClockManager` | thermal and power alarms, boost mode and a charger plugged in and out, with the governor thread at any step: `ThrottleHolds`, `CapRespected` |
| `display` | `MCDisplay` | docking in the middle of a tick, boost mode, throttles, VRR: `RatesAllowed` = type, `HandheldWithinMax`, `MonitorWithin`; `PanelLeftAlone`; `RateShown` |
| `limit` | `IpcServer` | clients that connect, ask, leave at any moment and end the program, with more of them than places: `HandlesMatch`, `NoneRefused`, `ClosedForCause`, `RequestsAnswered`, `ClosedAreFreed`, `ServiceEnds` = `ExitStops`, `StopEnds` |
| `store` | `MCConfigStore` | `PromiseKept`: `ConfigStore` implements `Settings`; `StoreInv` = type, `CountMatches`, `FreshWhenOlder`; `FileIsLoaded` |
| `kip` | `MCKipSync` | `SyncInv` = type, `AgreeAfterStart`; `StepsRight` = `SettingsSurvive`, `ForeignKipUntouched` |
| `overlay` | `MCOverlay` | `EditsKept` = type, `ProfilesKept`, `ConfigKept`, `OverridesKept`, `KipSaved`; `WrongAppNoticed`; `PagesSettle` |
| `loader` | `MCLoader` | `BootInv` = type, `BootsPatched`, `OfficialBoots`, `MonitorInv`; `OffersWork` = `OffersAccepted`, `OffersBoot`, `SettingsArrive`; `TablesRight` = `LimitsOrdered`, `TablesIncrease`, `VoltsFollowClocks`, `BoostTaken`, `ClockListed`, `DvbFollowsClock`, `LatencyFollowsClock`, `TimingsFit`, `PllmbHitsRate`, `EristaRates`; `CreatedWhole` = type, `PatchedByKind`, `NothingLeft`, `LayoutRight`, `MemoryRight` |
| `hardware` | `MCHardware` | `ClocksRight` = type, `NearestIsClosest`, `CapHolds`, `PickedIsApplied`, `CapsAreSafe`; `MoreNeverLess` = `GovernorFollowsLoad`, `VminFollowsRam`; `ThermalInv`; `ChipsInv`; `SocInv`; `BringUpInv`; `ServedByLive`; `SidesAgree` = `GraphIsWhatLoads`, `CallsUnderstood`, `SessionClosed`, `FirstMagicFound`; `AnswersInStep` = `FocusAnswerRight`, `FpsOfThisGame`, `TidWasInFront`, `LogFollowsFlag`, `ChoiceKept` |
| `memtester` | `MCMemTester` | `VerdictRight` = `SoundMemoryPasses`, `ReportIsOfThisJob`, `AllRamShared`; `RegionTested` = type, `FaultsFound`; `LoopsOn` |

Two runs show where the program does not do what it says of itself (the entries
under `findings`):

- `voltoffset`: with the GPU undervolt off and an offset set, `GpuFreqCvbTable`
  (`loader/pcv/pcv.hpp:181`) takes the offset off every entry, although
  `customize.cpp:149` says of a voltage the user sets that the "offset will not be
  applied".
- `panel`: with a display rate in the handheld profile VRR takes the low byte of
  that rate times a million for its maximum (`mgr/governor.cpp:247`); 50 Hz becomes
  128, which the setter cuts to 80 Hz, although `config_info_strings.cpp:121` calls
  the setting of at most 75 Hz "The maximum display clock frequency in handheld
  mode" (`PanelWithinMax`).

### Bounds, and why they are enough

- `ClockManager`: tables have three or four entries: one below, at and above
  each cap of the profile, and RAM clocks on both sides of 1600 MHz with two
  above it, so that a rise and a fall between DVFS clocks both happen.
  `MaxEvents` (2 or 3) bounds what the console and the overlay do, not what the
  threads do: two changes reach every divergence listed below, three allow a
  third in the middle of the tick that handles the second. Two titles and up to
  three APM configurations are what `RefreshContext` and `GetProfile` can tell
  apart; loads are an idle and a saturated one, since the part `table` scans
  the loads between them.
- `Display`: a 60 Hz and a 120 Hz screen, one override, a handheld rate whose low
  byte is above the panel's and none, the docked rate of 120 Hz that is above the
  panel's and not in every screen, a frame rate below the panel's range, boost mode
  (overruled or not) and a throttle, on an Iowa (the panel of the RETRO SUPER, with
  a setter of its own, is there as operators only); the counters of the governor
  thread are cut to one round, which only makes its looks at focus and rate more
  frequent. Three events: dock, another setting or a hold, undock.
- `IpcServer` has no counter to bound. Three sessions over two places are the
  least with a connection that waits, an entry to shift, and a client that takes
  the place of another.
- `ConfigStore`: one title with two slots and two config values, so that every
  part has something beside what changes; two granules of time, so that an edit
  may fall into that of the load or not; two changes, an edit, a power loss.
- `KipSync`: two fields, one of them migrated; a version below, at and above;
  two asks, two installs, an edit, a failed write and two losses of power. One
  more of any gives no new order of an interruption between the write of the
  table and its checksum, and the proofs need no bound.
- `Overlay`: a toggle, a button of the kip and a bar of the kip over a page and
  its submenu; two clocks and two bytes of the governor word; two edits and any
  number of pages, failures and changes of application.
- `Loader`: nothing is cut but the image, which has one word per place. Every
  value of every control by itself, every RAM clock with every step mode,
  voltage shift and limit, and timing presets at both ends.
- `ProcessCreation`: pages of two units and blocks of four pages; headers that
  break each rule by itself, packed and not, with and without hashes; every choice
  of modules that `CheckAutoLoad` tells apart. Two programs one after the other
  are what a stale mark needs.
- `SecureMonitor`: two calls, which is what a race needs; two bits of a register;
  registers that are allowed, that are not, and next to such; firmwares on both
  sides of each that is told apart.
- `MemTester`: two words in each half and one faulty region; heaps on both sides
  of every limit of the allocation. Words have 64 bits.
- `MCHardware`: tables and arrays of numbers at their real size; the climbing
  clock goes in steps that divide every half distance of the table, the load by
  5 %, the RAM clock by 1 MHz; climbs start at several heights, so that none is
  long.

Deadlock is checked in the runs of `ClockManager` and in `display`. Elsewhere a
system may really stop: the program ends and every client leaves, bounded
changes are used up, a scan reaches its end, the memory test ends with an error.

### Fairness

- `ClockManager`: `WF(Tick)`, since `main.cpp:157-161` calls `Tick` again after
  every wait, for ever. Nothing is assumed of the governor thread, nor of the
  environment; that one ends after `MaxEvents` events, which is what "once the
  console is quiet" means.
- `Display`: `Refresh` and `SetClocks` with a driver that works are taken strongly
  fair: the driver may fail often, not for ever; a tick ends, and a docked screen
  answers in the end. Nothing is assumed of the governor thread.
- `IpcServer`: `WF(Thread)` and `WF(Main)`; the thread's loop has no exit but the
  cancellation and a handler gets its mutexes in the end; main's loop looks at
  `Running()` once per interval. Nothing is assumed of clients, and the wait
  serves the lowest index first, so one client that asks without a pause can
  starve the rest and delay the stop. The liveness properties say so:
  `RequestsAnswered` and `ClosedAreFreed` hold *unless* the port or an earlier
  entry is served for ever, `StopEnds` unless clients act for ever.
- `ConfigStore`: `WF(Refresh)`, part of every tick, and `WF(PutStep)`, a thread in
  the middle of a write goes on. Clients, edits and power are free.
- `Overlay`: `WF(Refresh)`, the frame callback. The user is free.
- `MemTester`: weak fairness of main and of each worker: they are threads of
  their own which spin.

## The proofs

| theorem | says |
|---|---|
| `TypeCorrect` (`ClockManagerProofs`) | `Spec => []TypeOK` |
| `MemFloorHolds` (`ClockManagerProofs`) | `DvfsSetup => (Spec => []MemFloor)` |
| `CapRespectedHolds` (`ClockManagerProofs`) | `CapsSetup => (Spec => CapRespected)`: what either thread gives the CPU or the GPU is stock, within the cap, or the governor's minimum |
| `ThrottleHoldsAlways` (`ClockManagerProofs`) | `CapsSetup => (Spec => []ThrottleHolds)`: what a throttled tick put to stock stays there until the next one, or a governor has taken it away and keeps its cap or its minimum |
| `SetClocksAppliesHolds` (`ClockManagerProofs`) | `PlainClocks => (Spec => []SetClocksApplies)`: after `SetClocks` every clock is the one asked for |
| `GovernorFacts` (`ClockManagerProofs`) | the governor's clock is an entry of the table and keeps a cap that can be kept (`Keepable`) |
| `GpuVminFacts` (`ClockManagerProofs`) | the voltage floor is none or at least 525 mV |
| `TableMatches` (`IpcServerProofs`) | `Spec => []HandlesMatch`: the table holds the open handles, each once |
| `NeverFull` (`IpcServerProofs`) | `Spec => []NoneRefused`: an accepted connection finds room |
| `ClosesForCause` (`IpcServerProofs`) | `Spec => ClosedForCause`: a session is closed only for a cause its client gave, or at the end |
| `MonitorWithinHolds` (`DisplayProofs`) | `Spec => [](TypeOK /\ MonitorWithin)`: a docked screen runs within what it offers |
| `RatesAllowedHolds` (`DisplayProofs`) | `Spec => []RatesAllowed`: so does the panel, but for a late docked rate and a maximum of VRR that was cut to 8 bits |
| `PanelLeftAloneHolds` (`DisplayProofs`) | `Spec => PanelLeftAlone`: in the dock the panel's PLL is never programmed |
| `StoreInvHolds` (`ConfigStoreProofs`) | `TidyEdits => (Spec => []StoreInv)`: valid values in memory, counts that match the profiles, and a modification time that tells when to read again |
| `ImplementsSettings` (`ConfigStoreProofs`) | `TidyEdits => (Spec => PromiseKept)`: `ConfigStore` implements `Settings` |
| `EditsKeptHolds` (`OverlayProofs`) | `Spec => []EditsKept`: no page takes back what was set on another |
| `SyncInvHolds` (`LoaderProofs`) | `Spec => []SyncInv`: kip and `config.ini` agree after every start whose writes succeeded |
| `StepsRightHold` (`LoaderProofs`) | `Spec => StepsRight`: no start costs the user what was agreed on, no kip of another version is written |
| `CreatedWholeHolds` (`LoaderProofs`) | `CreationInit /\ [][CreationNext]_creation => []CreatedWhole`: a process is created whole, in its own place and patched for what it is, or not at all |
| `ServedByLiveHolds` (`HardwareProofs`) | `LifeSpec => []ServedByLive`: what a request works with is up until its answer |
| `LogFollowsFlagHolds` (`HardwareProofs`) | `LifeSpec => LogFollowsFlag`, a part of `AnswersInStep` |
| `TidWasInFrontHolds` (`HardwareProofs`) | `LifeSpec => TidWasInFront`, a part of `AnswersInStep` |
| `BringUpInvHolds` (`HardwareProofs`) | `BringUpSpec => [](BringUpTypeOK /\ BringUpInv)`: services are closed as often as they were opened, whatever fails; the debug handle is released; the bracket errs on the safe side |
| `SocInvHolds` (`HardwareProofs`) | `SocSpec => [](SocTypeOK /\ SocInv)`: the PLL runs at the clock reported as injected, loads lie between their samples, bandwidths add up, the tuning follows the clock |
| `ChipsInvHolds` (`HardwareProofs`) | `ChipsSpec => [](ChipsTypeOK /\ ChipsInv)`: settings land on the charger and the display rail, temperatures, powers and voltages come back whole, whichever transfer fails |
| `DieShownHolds` (`HardwareProofs`) | `ThermalSpec => [](DieShown /\ MemBlend)`: a temperature shown was measured, whatever the console slept through |
| `ThermalInvHolds` (`HardwareProofs`) | `FusesMeet => (ThermalSpec => []ThermalInv)`: so do the lines in the sensors meet their fused points |
| `ReportIsOfThisJobHolds` (`MemTesterProofs`) | `MemTesterSpec => []ReportIsOfThisJob`: a report counts for the job it is about |
| `SoundMemoryPassesHolds` (`MemTesterProofs`) | `MemTesterSpec => []SoundMemoryPasses`: no test reports memory that is sound |
| `AllRamSharedHolds` (`MemTesterProofs`) | `HeapsFit => (MemTesterSpec => []AllRamShared)`: the shares add up to the memory there is |
| `VerdictRightHolds` (`MemTesterProofs`) | `HeapsFit => (MemTesterSpec => []VerdictRight)`: the three at once |

### The clock manager

The first seven hold for all tables, APM configurations, config files, overrides,
loads, offsets and numbers of events that satisfy `FreqTableAssumption`,
`HijackAssumption` and `ClockManagerAssumption`, which TLC evaluates in the runs
of `MCClockManager`, under the hypothesis they name. The hypotheses are
assumptions of `MCClockManager`, too (`MCDvfsSetup`, `MCCapsSetup`,
`MCPlainClocks`), so TLC checks that they can be met.

`TypeCorrect` is more than a formality in one place: `DvfsVmin` subtracts the
configured offset from the table's floor in unsigned arithmetic, and that it
stays a natural number needs `GpuVminFacts` (525 mV at least, offset at most
80 mV). The rest is one lemma per action.

`MemFloor`, the RAM runs above 1600 MHz only on a GPU rail high enough for it,
is not inductive: between the table write and the RAM clock, or between the RAM
clock and the lowering of the floor, it holds only because of what the steps
before left. `FloorInv` adds that the written floor (`hw.vmin`) is as high as
the one the rail follows, so that an APM change or the governor, which make the
rail follow the table at any moment, cannot lower it; that where the floor is
about to be dropped the RAM is at stock; and that a pending `plan` has the floor
its clock needs. The argument then has three parts: setting the CPU or the GPU
keeps the RAM clock and can only bring the rail to the table's floor (`KeepsMem`),
which covers the governor thread and most of the tick; the three steps of the
RAM's turn, by cases on rise or fall and on whether the RAM is above 1600 MHz;
and the resets, which put the RAM below it first.

`DvfsSetup` says when that promise is made. Each conjunct is needed: the hijack
is on in every configuration the console goes through and never fails
(what happens otherwise is listed below); the APM configurations have at most
1600 MHz of RAM; settings name a RAM clock by its MHz, as the overlay does,
because `ApplyGpuDvfs` takes the floor of the clock asked for and not of the
entry it is rounded to; and the voltage grows with the clock over the RAM table
(not for an entry from 1601 to 1632 MHz, which `GetMinimumGpuVmin` gives the
voltage of the table's start).

`CapRespected` is an action property that needs no more than the types, but
every place that sets a clock has to be shown to go through the cap: the turns of
the CPU and the GPU, the second setting of the GPU in `ApplyGpuDvfs`, `DVFSReset`
and the governors. `NearestKeepsCap` is the lemma behind them, and it is where
`CapsSetup` comes in: the cap is an entry of the table or no entry is above it.

`ThrottleInv` adds to `ThrottleHolds` that a tick that skips the clocks goes no
further than `Decide`, that it keeps the governor thread out, and that until it
ends the CPU and the GPU are at stock. After it a governor may raise a throttled
clock; that it keeps the cap, or is the configured minimum, is `GovernorFacts` with
`CapsSetup`, and that the cap it was computed with still is the cap follows from
nothing having moved since (`quiet`).

`SetClocksApplies` is about the end of a tick, and `ApplyInv` carries it there:
what the tick has read is what is so (`InStep`), `gContext.freqs` is what runs
for every module whose turn is to come (`SeesClocks`), and the modules that had
their turn run at the clock asked for (`TurnsDone`), which the RAM's turn must
not undo, although it sets the GPU again; that it does not is
`NearestAgain`, rounding a rounded clock. `TickLocks` keeps the governor thread
out. `PlainClocks` rules out the steps of 38.4 MHz, for which what is reported is
not what runs (listed below), and stock GPU clocks that the table does not round
to themselves, which `ApplyGpuDvfs` would move.

### The IPC server

The three about `IpcServer` hold for every finite set of sessions and every limit
(`IpcServerAssumption`). `HandlesMatch` by itself does not say why an accepted
session is new to the table; `SessionInv` adds that the port and the table share
no session and that the kernel counts all of them, `ThreadInv` that the index the
wait returned is still an entry of the table when the reply is sent, with the
request of that very session. `NeverFull` is then counting: the entries of the
table and the connection at the head of the port are different and alive, and at
most `MaxSessions` are. The shift of `_ipcServerDeleteSession` is `RemoveAt`, and
`RemoveAtRange` proves that it takes out the one entry and keeps the others.

### The display

For any screens, rates of profiles and overrides, frame rates, intervals of VRR and
number of events (`DisplayAssumption`: what a setting's u8 and the list of docked
rates hold). The inductive invariant `DisplayIInv` has, beside `StateRight` (types,
where both threads are), three parts. `HwRight` knows the two registers: in
the dock the PLLD is where the operating system put it, which is read as docked,
and in the hand it stands for a rate of 40 to 80 Hz (`PlldFacts`: a programmed PLLD is read back as its rate). `ModeWithin` is
`MonitorWithin`. `ScreenKnown` says that the highest rate the module remembers is the
screen's, unless the screen was replaced between two ticks. The docked setter
then keeps within it because the choice of a mode is cut to that rate
(`DockedWithin`), and the panel's setter stops in the dock before it writes.

`RatesAllowed` needs no hypothesis about the rates. `Fits` adds to the invariant
that in the hand the PLLD stands for a rate of 40 to 80 Hz, of at most `PanelMax`
unless `drove` says that a tick set a docked rate there or that VRR tried a maximum
that was cut. Every other way is shown to bear the panel: an override and a rate of
the handheld profile as the settings offer them (`TargetBorne`), 60 Hz at a look at
the focus, the multiples of a frame rate (`VrrBorne`). It is not claimed that the
two exceptions are harmless: at 80 Hz the panel is read as docked (`Stuck` of
`RateShown`), and the run `panel` is a violation of the documented maximum.

### The config store

For any titles, slots, clocks and config values, any edits, changes and losses of
power (`StoreAssumption`, `EditsAssumption`), given `TidyEdits`: a file left by
an edit has no section of a part twice and no clock of a title twice. Both halves
are needed. `ini_putsection` replaces the first section of a name, and a load
lets the last callback for a key win: with a second `[values]` the old value
would come back. And `BrowseIniFunc` counts callbacks, not keys. The program
itself never writes such a file, which is part of the invariant (`Tidy`);
the `ASSUME` of `MCConfigStore` has TLC confirm that the edits of its run are
tidy, invalid values and unknown keys and sections included.

The argument about files is one law. A file is cut into pieces that begin with
the head of a section; what stands for a key in `a \o b` is what stands in `b`
if `b` says anything, else what stands in `a` (`StandingCat`). `ini_putsection`
keeps what is before and after the section it replaces (`PutSplit`), so
`PutOthers` and `PutOwn` say what a load finds after it, and `PutLoaded` that it
is the client's list in one part and the old settings in all others.
`PieceLoaded` is the same for the prefix that a loss of power leaves of a first
`config.ini`: each key has the client's value or the default. `KeyLinesFacts` has
the order of the lines from the enumeration, and `CountFacts` that callbacks
and keys are as many.

The inductive invariant `StoreIInv` has four parts: files are tidy and the times
in order (`StateRight`), memory has accepted values and counts that match
(`MemoryRight`), a write under way holds the lines that `ini_putsection` made of
the file as it was, and what it will leave in memory (`PutRight`), and
`FreshWhenOlder`. With it every step is one of `Settings` or a stutter:
`Put` of a first file and `Remove` are its `Change`, `RefreshStat` drops what is
loaded, `RefreshBrowse` reads it, `EditFile` and `PowerLoss` are their
namesakes, and the other steps change nothing a client can see.

### The overlay

For any keys, pages they are on, kinds of control, clocks, governor bytes and
applications (`OverlayAssumption`), with every call free to fail. A page sends
its whole list, so all turns on the copies: `CopiesRight` says that the page in
use (the last one, or the one under a choice or a governor submenu) holds
what the sysmodule has, a settings or override page once it has been read again.
Pages that are covered may hold anything. That a stale one never comes back into
use as it is needs the shape of the stack, `StackRight`: nothing but an error is
opened over a choice or a governor submenu, nothing but these over a profile page
(which is never read again), and of the pages under an error none is ever used.
For the kip the invariant is the property itself (`KipSaved`): a page that changed
it carries the flag for `~MiscGui` until it goes.

### Kip and `config.ini`

For any set of fields and values, any versions and any number of changes,
installs, failed writes and power losses (`KipAssumption`). `IInv` has five
parts. `Agreeing` relates table, checksum and list at every step of a start, and
gives `AgreeAfterStart`. `SettingsSurvive` speaks of two histories, and each
has its part: with at most one risk since the last agreement every table in
sight was once asked for or agreed on, the kip's excepted, which may be a mix only
while the next start is bound to find its checksum wrong and to write over it
(`AtMostOneRisk`); with none, the kip has the table agreed on last unless the next
one has been written and not yet signed (`NoRisk`). `Loading` says what a first
load and a foreign kip mean for the risks there were. The property is weaker
than "settings survive", because the code does not keep that: an edit of
`config.ini` loaded between the write of the table and its signature is lost at the
next start, and the overlay's list with an old checksum, together with a torn
write, may bring back an older table that was once agreed on.

### Process creation

For any programs, headers of any sizes, any window, page and block size and any
number of launches (`CreationAssumption`, `ProgramsAssumption`: the fields of headers
are unsigned, PCV and PTM have no browser DLLs). The layout is a sum over the modules
and the memory a fold over their segments, which are recursive functions here, so
what they compute is proved without induction over an operator: if a fact about
the first k modules failed for some k, it would fail for a least one, and the
step to that one keeps it (`LeastExists` and the lemmas after it). What comes of
it is that modules end before the next begins, with the arguments apart; that
segments are unpacked in order, so that packed data at the end of a module is
overwritten only once it has been read; and that every unit belongs to the segment
whose header claims it. `CreationIInv` has four parts beside the types: `Marked`, the
marks are those of this program, which is what a stale mark of the program before
would break; `Kept`, there is a process exactly from its creation to its end, and a
pin while it may still fail; `Listed`, only modules that passed the checks are
loaded; `InMemory`, every module loaded so far is right to the last unit
(`ModuleRight`) and nothing loaded later reaches into it.

### Lifecycle

For any games and any number of them (`LifeAssumption`). `ServedByLive` follows
main: what each step of its start has brought up (`Rising`), that all is up in
the loop and until the IPC thread has ended (`Open`, `Waiting`), and that
everything else is closed only after the IPC service is gone (`Closing`); a
request is served only by a running thread (`Serving`). For `LogFollowsFlag` the
invariant is `FlagKnown`: the logger's flag is the file's, or the file has
changed since the last look. For `TidWasInFront` it is `FrontSeen`: whatever was
in front between the two calls has been seen.

### Board and SoC

`BringUpInv` holds for all fuses and RAM clocks (`BringUpAssumption`). A service
may be opened in several places, so `BringUpIInv` bounds its guard by what has been
opened before this step (`OpenedBefore`, `AtMost`), and `Exit` closes each as often
as that; the bracket is none or the one that the fuses give (`FetchedBracket`), which is where the
order of `FetchHardwareInfos` matters; and a debug handle is open for one process
at most, none when the search is done.

`SocInv` holds for all clocks, samples, ticks and levels, and any length of the
ring (`SocAssumption`). Each part has an invariant of its own. `PllFits` says what
each step of the slide has made of the coefficients it read, unless PCV wrote the
PLL meanwhile; `RingFits` that the ring holds the last samples with the
oldest in the slot that is written next, and `LoadFits` that their mean is between two of
them, a sum over a recursive function again; `EmcFits` that loads and bandwidths of one
update belong together; `TuneFits` that the tuning is that of the level and clock.

`ChipsInv` holds for every charge current and display voltage that
`hocclkValidConfigValue` lets in, every temperature the TMP451's registers can
hold and every content of a converter's register (`ChipsAssumption`). Four chips share no state, so `ChipsIInv` has a part for
each. `RailsFit` says that the counter of `HandleMiscFeatures` has come round since the
last change or failure as soon as more ticks have passed than it shows, and that
from then on the registers are those of the settings (`Carried`); `ChargeStep`
and `DisplayStep` are what the registers stand for. `TmpFits` is the
whole degrees with or without decimals, which may be those of another
temperature; `GaugeFits` that the second transfer's update is the one the first began;
`VoltFits` that a rail whose reading goes on has given nothing but its value at
power-on. The temperature is compared with the one its degrees were read of
(`chip.of`, a history variable): how far the board drifts during an update is not
bounded.

`DieShown` and `MemBlend` hold for all fuses and all temperatures that fit a
register (`ThermalAssumption`). `SensorsFit` says that sensors that run have this console's
calibration and pre-divider: `StartSensors` writes the clock enable last, and a
reset of the block loses it with the rest. `ReadAsEncoded` is the read-back of a register. The proof
asked for a correction of `MemBlend`: while the block is held in reset PLLX counts
as 0 in the blend, too, so that a console with a cool AOTAG shows less than a tenth
of PLLX. The dies of the run have such a zone now. What the calibration's 16-bit
arithmetic makes of a fuse array is a matter of its numbers: `ThermalInvHolds`
supposes that it loses nothing on `Fuses` (`FusesMeet`, which the run checks of its
fuses with `CalibrationHitsFusedPoints`, as each of them is initialized) and shows that
the sensors then never hold another line.

### MemTesterNX

For any number of words, random values, heap, suite and faults of the memory, and
with any of the threads failing to start (`PatternsAssumption`,
`MemTesterAssumption`). Main and its workers share `testJobId` and
`testWorkerReport` and nothing else, so what keeps a report from being taken for
another job is that no number left from an earlier job is one a worker still polls
for. `HandshakeIInv` says so phase by phase (`ReadyPhase`, `JobPhase`,
`ReportPhase`): of each worker that main has been at in this round, and of each it
has still to come to, whether the job is `Due`, `Issued` (and run or not) or its
report `Taken`. `AfterJobMovesOn` is the fact about the code it rests on: what a worker
waits for after a job is never that job.

`SoundMemoryPasses` is about what the tests leave in the memory. `SoundIInv` adds to
the handshake that the job of each worker is one of its table (`JobsKnown`) and that
on sound memory the two halves are alike before every test but one (`MemRight`):
after the address test, which leaves them different, the first of each table writes
both (`WritesBoth`). Every test is a loop over the words or over rounds of such
loops; `LoopKeeps` carries a property of the memory through one, from a least
counterexample, and each test has a lemma that says what its body keeps
(`FillSound`, `UpdateSound`, ...). For the address test that is the
pattern of this round in every cell written so far (`RoundSound`).

`AllRamShared` is arithmetic over the two allocations. `AllFound` shows that the
first one finds every page: the first malloc below 2047 MB is the one at which the memory ends.
`SharesAre` and `AllShared` follow the second one worker by
worker: each gets what it wants, the limit of malloc or the rest (`GivenTyped`), and
in each of the cases the sum is what the property says. `HeapsFit` is needed: from 8191 MB on four mallocs of 2048 MB
succeed and none is freed again. It is an `ASSUME` of `MCMemTester`.

### What is only model-checked

- Of the loader `BootInv`, `OffersWork` and `TablesRight`: scans of tables and of
  images that are constants of the code, so that there is little for a proof to
  generalise.
- `RegionTested`: that a faulty cell is found depends on the bits of the words
  and addresses of the region, and is not true of a region of any size.
- Of `MCHardware` `ClocksRight`, `SidesAgree`, `MoreNeverLess`, and `AnswersInStep` but
  for `LogFollowsFlag` and `TidWasInFront`: mostly scans of arithmetic over tables of
  the code. That a fuse array is one the calibration's arithmetic bears (`FusesMeet`).
- Liveness (`SettingsTakeEffect`, `RequestsAnswered`,
  `ClosedAreFreed`, `ServiceEnds`, `FileIsLoaded`, `RateShown`, `WrongAppNoticed`,
  `PagesSettle`, `LoopsOn`): fairness is outside the prover.
- What recursive definitions over data compute, beyond what a least
  counterexample gives: it needs induction over an operator.

## What the properties do not promise

Each line is something the models reach and the properties except, or that was
seen while they were written.

Clocks:

- A setting is lost in three ways: boost mode that ends while a tick runs
  (`mgr/clock_manager.cpp:763`, it was read before the refresh), a throttle during
  which the setting changed (`:772`), and a governor that is switched off:
  `SetClocks` passes over the CPU and the GPU as governed before `HandleGovernor`
  puts them to stock. In each the tick notes the change and no later tick sees
  one; so does a governor's turn that waited for the mutex. The run `settings` has
  all of them, and `SettingsTakeEffect` excepts a clock only as long as `setBy`
  says that this is how it was left; the next `SetClocks` must bring it back.
- A 38.4 MHz step GPU clock that PCV has overwritten is not set again:
  `GetHz` reports `currentInjectedHz` (the comment at `mgr/clock_manager.cpp:771`
  says it would be).
- The cap is not kept when the clock of the cap is disabled in the table: the
  scan goes on to the next one up (`mgr/clock_manager.cpp:134`). `Disabled` of
  `hardware` leaves the caps alone.
- The governor raises the clocks of a throttled console (`mgr/governor.cpp:127`),
  which is what `RaisedByGovernor` leaves open; and it puts its configured minimum
  back after the cap.
- The RAM clock rises although the voltage table was not written
  (`board/board_volt.cpp:406`); `HijackMayFail` makes `MemFloor` fail.
- The floor is computed from the clock asked for and not from the entry it is
  rounded to (`mgr/clock_manager.cpp:338`), see `DvfsSetup`; 1601 to 1632 MHz get
  a floor above the ramp's.
- The GPU bracket is chosen before the SoC is known (`board/board.cpp:74`), which
  is on the safe side (`BracketOnSafeSide`).
- A search of the process list that ends without PCV leaves the debug handle of
  the last process it tried open (`board/board_volt.cpp:303`);
  `DebugHandleReleased` is about a search that finds PCV.

Display:

- The panel exceeds its maximum, up to 80 Hz, in two ways (`HandheldWithinMax`). The
  rate of a profile is cut to 8 bits in VRR (`mgr/governor.cpp:247`): 62 Hz times a
  million becomes 128 Hz. And a console that leaves the dock between
  `RefreshContext` and `SetClocks` gets the docked rate on its panel.
- A panel at 80 Hz has the divider that is read as that of a docked console: the
  setter refuses every other rate from then on (`display_refresh_rate.cpp:317`),
  until the console is docked and taken out again (`Stuck`).
- A governor thread that waited for the mutex while VRR was turned off, or the
  console docked, sets its rate, which is then taken for the current one and stays
  ("late"). A change of the display that a tick saw while it was held by boost mode
  or a throttle is noted and not made (`held`). Both last until the next time
  `SetClocks` sets the display, for whatever reason.
- 65, 85, 105 and 115 Hz are offered for the dock but are not in
  `g_dockedRefreshRates`.

Settings:

- An edit in the granule of the last load is not seen (`FreshWhenOlder`).
- minIni ignores the results of its writes (`minIni.c:602`). A first
  `config.ini`, written in place, may lose part of one section.
- `GetProfileCount` reads its map without `gConfigMutex` (`file/config.cpp:322`).
- `SetKipData` answers success whatever happened. Two events between two starts,
  such as a power loss after an install, may cost the settings (`risk`); so may
  an edit of `config.ini` that is loaded between the write of the table and its
  signature.
- The loader's table in this tree is not the sysmodule's: `CUST_REV` 3 and
  `KIP_VERSION` 231 against 4 and 240 (`sysmodule/Makefile:32-33`), with
  `eristaEmcMaxClock1`, `mem_burst_*` and `gpuSpeedo` that the sysmodule does not
  have, and without `marikoGpuBootVolt`. Only the version check of
  `file/kip.cpp:57` and `:210` keeps a setting from reaching another field
  (`NoFieldShifts`), and it makes a kip built from this tree always outdated.
  `SettingReachesLoader` is therefore about a loader with the sysmodule's table.
- A user who acts on a page in the second after its submenu changed the same list
  takes that change back (`hasty`).
- In the latency page the choice of the last row is not brought down when the
  maximum is lowered, until the row is used; choices cut by a lower maximum do
  not come back with a higher one.

Others:

- The access tables name the second and third channel of the external memory
  controller (`secmon_smc_register_access.cpp:110-111`), regions that
  `secmon_memory_layout.hpp` does not have; the model adds them. `build.sh` copies
  files with the tables of the PMC that are not in the tree.
- Two cores in the monitor may lose a write of some bits of a register
  (`secmon_smc_register_access.cpp:191`); `RegistersKept` excepts a register that was
  `raced`. A refused read shows only by an argument that comes back unchanged.
- `exitThreads`, `ExitLoad` and `ExitMiscThread` close threads that run;
  `ServedByLive` holds for requests, and the process ends soon after. `main`'s
  fan thread is handed the address of a local result.
- The log notices its flag file only every interval (`file_utils.cpp`).
- `SetGpuSchedulingMode` may write 0 for a configuration that asks for no change.
- A charge current of 1600 mA asked for becomes 1664; switching the override off
  leaves the limit where it is. DFLL tunings are not restored: the code for it
  comes after a return (`board/board_volt.cpp:117`).
- The fast suite of MemTesterNX misses a cell that disturbs a high bit of
  another; four allocations that all succeed are not freed again.

## Not modelled, and why

- Text: labels, formatting, logging, CSV rows, notifications, and everything the
  overlay draws. `cat.h`, the graphics and most of `misc_gui.cpp`'s remaining
  lines are this; the structure of the pages and their controls is in `Overlay`
  and `Menus`.
- Bit layouts with nothing to decide: register headers, `mtc_timing_table.hpp`,
  the encoding of ARM instructions (`pcv_asm.hpp`), the coefficients of the
  voltage formula, the encoding of the entries of PCV's voltage table, PLLMB's
  read-out, the words sent to a panel.
- The older sources of `ldr_process_creation.cpp`: other
  releases of the code `ProcessCreation` models; the textual patches. Of that, `GetProgramInfo` (it
  changes nothing), the decompressors, HBL's redirection and the patches by IPS.
- Of the secure monitor what is not in the repository: handlers other than the
  register access, the access tables of the PMC and the memory controllers.
- Wrappers of system services (`rgltr`, `psm`, `apm`, `pwm`) that pass a value on;
  they are external and fail or answer. The probing of SaltyNX' port.
- In the clock manager: the fan, the GPU scheduling mode, `prepareBoostExit`.
- In the display: `CorrectOledGamma`, which nothing calls. In minIni: quotes,
  blanks, lines longer than the buffer and the functions nobody calls. In
  `config.cpp`: `SetConfigValue` and `ResetConfigValue`, which nobody calls.
- In MemTesterNX: the results of subtraction, multiplication and division, the
  keys and the backlight, a region whose halves are not aligned.
- The documentation's Ryazha-Auto thread, VRR-Auto and ladder configuration
  (`README.md:17-22`, `79-84`): the source has no such code to model.
- TinyMemBenchNX (it measures and prints), the fatal handler payload (it draws a
  screen), scripts and data.

## Plan

The parts of the system that decide something are modelled, and the properties of
the core, the settings, the display, the overlay, process creation and the memory
tester that are not liveness are proved, and so are those of the hardware the
sysmodule works with, but for what scans its tables.
