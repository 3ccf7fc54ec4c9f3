------------------------------- MODULE MCLoader -------------------------------
(***************************************************************************)
(* The loader with the customization tables the overlay can lead to: every *)
(* value of every control, every RAM clock with every step mode, voltage   *)
(* shift and limit, and presets of timings from none to the tightest; on   *)
(* the image of PCV as released, with one place missing, and with one too  *)
(* many.  And the loader with programs of every kind to start, one after   *)
(* the other: a behaviour is about the one or the other.                   *)
(***************************************************************************)
EXTENDS Loader, Menus, KipFields, ProcessCreation, SecureMonitor

VARIABLE half   \* "patch": PCV's image is patched; "process": programs are started;
                \* "monitor": the secure monitor is called

\* The controls that set a field of the customization table.
KipControls(m) == {k \in Controls(m) : k.key \in Fields}

\* The values offered for a field, on any model.
Offers ==
    LET controls == UNION {KipControls(m) : m \in Models}
    IN  [f \in {k.key : k \in controls} |->
            UNION {k.offers : k \in {x \in controls : x.key = f}}]

OneSetting ==
    UNION {{[C EXCEPT ![f] = v] : v \in Offers[f]} : f \in DOMAIN Offers}
RamClocks ==
    {[C EXCEPT !["marikoEmcMaxClock"] = f, !["stepMode"] = s] :
        f \in MarikoEmcClocks, s \in 0..3}
RamVolts ==
    {[C EXCEPT !["marikoEmcMaxClock"] = f, !["emcDvbShift"] = s, !["marikoSocVmax"] = v] :
        f \in {2133000, 3200000}, s \in -4..8, v \in {0, 1000, 1050, 1100, 1200}}
EristaClocks ==
    {[C EXCEPT !["eristaEmcMaxClock"] = a, !["eristaEmcMaxClock1"] = b,
               !["eristaEmcMaxClock2"] = d] :
        a \in {1600000, 1862400, 2131200}, b \in {1600000, 1862400, 2131200},
        d \in {1600000, 1862400, 2131200}}
Level(n, top) == IF n < top THEN n ELSE top
Presets ==
    {[C EXCEPT !["marikoEmcMaxClock"] = f, !["stepMode"] = 2, !["timingEmcTbreak"] = b,
               !["t1_tRCD"] = Level(n, 7), !["t2_tRP"] = Level(n, 7),
               !["t3_tRAS"] = Level(n, 9), !["t4_tRRD"] = Level(n, 6),
               !["t5_tRFC"] = Level(n, 10), !["t6_tRTW"] = Level(n, 9),
               !["t7_tWTR"] = Level(n, 9), !["t8_tREFI"] = Level(n, 6),
               !["low_t6_tRTW"] = Level(n, 9), !["low_t7_tWTR"] = Level(n, 9),
               !["t6_tRTW_fine_tune"] = IF n = 10 THEN -2 ELSE 0,
               !["t7_tWTR_fine_tune"] = IF n = 10 THEN -3 ELSE 0] :
        f \in MarikoEmcClocks, n \in {0, 3, 5, 10}, b \in {0, 2400000}}
Unsafe == {[C EXCEPT !["marikoCpuMaxVolt"] = 1205, !["hpMode"] = 1],
           [C EXCEPT !["eristaEmcMaxClock1"] = 2601000, !["hpMode"] = 1]}

MCCustoms == OneSetting \cup RamClocks \cup RamVolts \cup EristaClocks \cup Presets
               \cup Unsafe

\* PCV as released: each structure as often as its entry may be applied (once
\* where that is not limited), a word with each value in no structure at all,
\* and the RAM tables in their order.
Words(s) ==
    LET places == [i \in DOMAIN patches(s) |->
                      Place(patches(s)[i].value, patches(s)[i].name, 0)]
        strays == [i \in DOMAIN patches(s) |-> Place(patches(s)[i].value, "none", 0)]
        other  == Place("EmcClkOSLimit", "other tables", 1)
        tables == IF s = "Mariko"
                  THEN <<other, other>>
                         \o [i \in 1..2 |-> Place("EmcClkOSLimit", "MEM Freq Mtc", i)]
                  ELSE <<Place("EmcClkOSLimit", "MEM Freq Mtc", 1)>>
    IN  <<other>> \o places \o tables \o strays

\* One place missing, or one too many, with the customization table as
\* released and with stock RAM clocks.
MCImages(s, custom) ==
    {Words(s)} \cup
    If(custom \in {C, [C EXCEPT !["marikoEmcMaxClock"] = 1600000]},
       {RemoveAt(Words(s), i) : i \in 2..(Len(patches(s)) + 1)}
         \cup {Words(s) \o <<Place(e.value, e.name, 0)>> : e \in Range(patches(s))})

-------------------------------------------------------------------------------
(* Programs to start: headers that are right and wrong in every way that is *)
(* checked, packed and not, with every choice of modules.                  *)

MCWindow ==
    [s \in {"32Bit", "32BitWithoutAlias"} |-> [start |-> 4, size |-> 24]]
        @@ "64BitDeprecated" :> [start |-> 8, size |-> 28]
        @@ "64Bit" :> [start |-> 8, size |-> 48]

Nso(text, ro, rw, bss) ==
    [dst |-> [text |-> text[1], ro |-> ro[1], rw |-> rw[1]],
     size |-> [text |-> text[2], ro |-> ro[2], rw |-> rw[2]],
     packed |-> [s \in Segments |-> 0], hashed |-> {}, bss |-> bss,
     zstd |-> FALSE, execOnly |-> FALSE]
Pack(h, text, ro, rw) == [h EXCEPT !.packed = [text |-> text, ro |-> ro, rw |-> rw]]

Plain == Nso(<<0, 3>>, <<4, 2>>, <<6, 1>>, 2)
Tiny  == Nso(<<0, 1>>, <<2, 0>>, <<2, 1>>, 0)
Zstd  == [Pack(Plain, 3, 2, 1) EXCEPT !.zstd = TRUE]

Headers ==
    {Plain, Tiny, [Plain EXCEPT !.execOnly = TRUE], Zstd,
     [Zstd EXCEPT !.hashed = {"text", "ro"}], Pack(Plain, 2, 1, 1), Pack(Plain, 3, 2, 1),
     Pack(Nso(<<0, 2>>, <<2, 2>>, <<4, 2>>, 0), 2, 2, 2),
     Pack(Nso(<<0, 4>>, <<4, 4>>, <<8, 0>>, 0), 4, 4, 0),
     Pack(Nso(<<0, 2>>, <<2, 4>>, <<6, 1>>, 0), 1, 5, 1),
     Pack(Nso(<<0, 4>>, <<6, 2>>, <<4, 2>>, 0), 4, 2, 2),
     Nso(<<0, 5>>, <<4, 2>>, <<6, 2>>, 0), Nso(<<0, 4>>, <<4, 3>>, <<6, 1>>, 0),
     Nso(<<0, 3>>, <<3, 1>>, <<4, 2>>, 0), Nso(<<2, 2>>, <<4, 2>>, <<6, 2>>, 0),
     Nso(<<0, 0>>, <<0, 0>>, <<0, 0>>, 0), Nso(<<0, 2>>, <<2, 2>>, <<4, 2>>, 30),
     Nso(<<0, 2>>, <<2, 2>>, <<4, 2>>, 1020)}

Complete == {"rtld", "main", "subsdk0", "sdk"}
ModuleSets ==
    {{"main"}, {"rtld", "main", "sdk"}, Complete, {"main", "sdk"}, {"rtld", "sdk"},
     {"rtld", "main"}, {"main", "wkc0"}, {"main", "wkc0", "subsdk9"}}
Files(found, h) == [f \in found |-> IF f = "main" THEN h ELSE Tiny]

Game ==
    [id |-> "Game", inRange |-> TRUE, capable |-> TRUE, signed |-> TRUE, signature |-> TRUE,
     approved |-> FALSE, listed |-> FALSE, kind |-> "application", is64 |-> TRUE,
     space |-> "64Bit", metaFlags |-> {}, pool |-> "Application", resource |-> 0,
     browser |-> FALSE, args |-> 0, files |-> Files({"main"}, Tiny)]

MCPrograms ==
    {[Game EXCEPT !.files = Files(found, h), !.args = a] :
        found \in {{"main"}, Complete}, h \in Headers, a \in {0, 4}}
    \cup {[Game EXCEPT !.files = Files(found, Plain), !.browser = b] :
            found \in ModuleSets, b \in BOOLEAN}
    \cup {[Game EXCEPT !.id = id, !.kind = "system", !.pool = "System", !.space = s] :
            id \in {"Pcv", "Ptm"}, s \in {"32Bit", "64BitDeprecated", "none"}}
    \cup {[Game EXCEPT !.inRange = r, !.capable = ~r] : r \in BOOLEAN}
    \cup {[Game EXCEPT !.signed = FALSE, !.signature = g, !.approved = a, !.listed = l] :
            g \in BOOLEAN, a \in BOOLEAN, l \in BOOLEAN}
    \cup {[Game EXCEPT !.kind = k, !.resource = n, !.space = s] :
            k \in {"applet", "system"}, n \in {3, 8, 2048},
            s \in {"32BitWithoutAlias", "64Bit"}}

-------------------------------------------------------------------------------
(* Calls of the secure monitor: the sysmodule's, the loader's and the kernel's *)
(* on registers that are allowed, that are not, and next to such; and calls of *)
(* every other kind.                                                       *)

MCPmcAllowed  == {0, 3, 289}
MCMcAllowed   == {0, 20, 21}
MCMc01Allowed == {64, 65, 200}
RaceOn == {PhysicalDevicePmc + 289, PhysicalDevice("ExternalMemoryController") + 1023}
MCWatched ==
    RaceOn \cup SmmuAsids
    \cup {PhysicalDevicePmc + r : r \in {0, 1}}
    \cup {PhysicalDevice("MemoryController") + 20}
    \cup {PhysicalDevice("ExternalMemoryController2")}
    \cup {PhysicalDevice("MemoryController1") + r : r \in {0, 64}}

Register32(addr, mask, value) ==
    [addr |-> addr, aligned |-> TRUE, mask |-> mask, value |-> value]
Smc(type, id, args) == [type |-> type, id |-> id, args |-> args]
MCSmcCalls ==
    {Smc("user", ReadWriteRegisterId, Register32(w, {}, {})) : w \in MCWatched}
    \cup {Smc("user", ReadWriteRegisterId, Register32(w, Bits, {"b0"})) : w \in MCWatched}
    \cup {Smc(t[1], t[2], Register32(w, {b}, {"b0"})) : w \in RaceOn, b \in Bits,
            t \in {<<"user", ReadWriteRegisterId>>, <<"kern", Id(\hC3, \h00, \h08)>>}}
    \cup {Smc("user", ReadWriteRegisterId,
              [Register32(PhysicalDevicePmc, {}, {}) EXCEPT !.aligned = FALSE])}
    \cup {Smc(t[1], t[2], Register32(PhysicalDevicePmc, {}, {})) :
            t \in {<<"user", Id(\hC3, \h00, \h02)>>, <<"user", Id(\hC3, \h10, \h0E)>>,
                   <<"user", Id(\hC3, \h00, \h0E)>>, <<"user", Id(\hF0, \h00, \h01)>>,
                   <<"kern", ReadWriteRegisterId>>, <<"kern", Id(\h84, \h00, \h02)>>,
                   <<"user", ShowErrorId>>, <<"kern", GetSecureDataHandlerInfo.id>>}}

\* The monitor while it is not called.
NotCalled == MonitorInit /\ fw = 20

\* While programs are started, nothing is patched, and the other way round.
NothingToPatch ==
    /\ soc = "Mariko" /\ c = C /\ image = <<>> /\ at = 1
    /\ count = [i \in DOMAIN patches(soc) |-> 0] /\ result = "check"

BootInit ==
    \/ half = "patch" /\ Init /\ CreationInit /\ NotCalled
    \/ half = "process" /\ CreationInit /\ NothingToPatch /\ NotCalled
    \/ half = "monitor" /\ CreationInit /\ NothingToPatch /\ MonitorInit
BootNext ==
    \/ half = "patch" /\ Next /\ UNCHANGED <<creation, monitorVars, half>>
    \/ half = "process" /\ CreationNext /\ UNCHANGED <<vars, monitorVars, half>>
    \/ half = "monitor" /\ MonitorNext /\ UNCHANGED <<vars, creation, half>>
BootSpec == BootInit /\ [][BootNext]_<<vars, creation, monitorVars, half>>

-------------------------------------------------------------------------------
(* What follows is about the choice of c, once it has passed the checks.   *)

\* c is the released table but for some of these fields.
Only(fields) == \A f \in DOMAIN c \ fields : c[f] = C[f]
Single == Cardinality({f \in DOMAIN c : c[f] # C[f]}) <= 1
RamClock == Only({"marikoEmcMaxClock", "stepMode"})
RamVolt  == Only({"marikoEmcMaxClock", "emcDvbShift", "marikoSocVmax"})
EristaClock == Only({"eristaEmcMaxClock", "eristaEmcMaxClock1", "eristaEmcMaxClock2"})

Start == result = "scan" /\ at = 1 /\ soc = "Mariko" /\ Len(image) = Len(Words(soc))

\* Every value the overlay offers is one the sysmodule takes, or the 0 that
\* stands for the default (misc_gui.cpp, hocclkValidConfigValue), can be shown,
\* and a control for a field of the kip makes the page save the kip.
OffersAccepted ==
    (Start /\ c = C) => \A m \in Models : \A k \in Controls(m) :
        /\ \A v \in k.offers : /\ ValidConfigValue(k.key, v) \/ v = 0
                               /\ CanShow(k, v)
        /\ CanShow(k, IF k.key \in Fields THEN C[k.key] ELSE DefaultConfigValue(k.key))
        /\ k.key \in KipValues => k.kip

\* No value the overlay offers stops the console at the loader's checks, and
\* none is rounded to another one: CPU clocks are in the list, RAM voltages are
\* ones the regulator has (CapCpuClock, MemVoltHandler, EmcVddqVolt).
OffersBoot ==
    (at = 1 /\ Single) =>
        /\ result # "panic"
        /\ Start => /\ CapCpuClock(c) = c["marikoCpuMaxClock"]
                    /\ MemVoltHandler(c) = c["commonEmcMemVolt"]
                    /\ EmcVddqVolt(c) = c["marikoEmcVddqVolt"]

\* The values offered, on any model.
Offered ==
    UNION {UNION {{[key |-> k.key, at |-> k.at, value |-> x] : x \in k.offers}
                  : k \in Controls(m)} : m \in Models}

\* The list of config values with the settings as released, and one where every
\* value of the kip is another.
Factory ==
    [v \in Kvals |-> IF v \in KipValue /\ v[1] \in Fields THEN C[v[1]] ELSE Defaults[v]]
AllDifferent ==
    [v \in Kvals |-> IF v \in KipValue THEN 100000 + Ordinal(v) ELSE Defaults[v]]

\* A list that is stored is the list that is loaded again: no two values share a
\* name (hocclkFormatConfigValue, SetConfigValues, BrowseIniFunc).
StoredAndLoaded(list) ==
    Loaded(Section(list)) = [v \in Kvals |-> Accepted(v[1], list[v])]

\* What the user sets reaches the loader: through config.ini, to the word of the
\* kip at which the loader of the same release reads this setting, and back to
\* the list (kip.cpp, kip.hpp, customize.hpp).
SettingReachesLoader(list) ==
    LET kip == SetKipData(OwnKip, Loaded(Section(list)))
    IN  /\ \A v \in KipValue : LoaderTakes(SysmoduleWords, kip, v) = list[v]
        /\ \A v \in KipValue : GetKipData(kip, Defaults)[v] = list[v]
        /\ OfThisRelease(kip)

\* A kip of another release may have other fields at the same words: no setting of
\* the user reaches the loader as one of those (kip.cpp:57).
NoFieldShifts(list) ==
    \A v \in KipValue :
        v[1] # "marikoGpuBootVolt" =>
            LoaderTakes(LoaderWords, SetKipData(OlderKip, list), v)
                \in {LoaderTakes(LoaderWords, OlderKip, v), list[v]}

\* Every setting the overlay offers is found again in config.ini and arrives where
\* the loader looks for it; and the helper for the voltage of one clock means
\* that clock.
SettingsArrive ==
    (Start /\ c = C) =>
        /\ SettingReachesLoader(Factory) /\ SettingReachesLoader(AllDifferent)
        /\ NoFieldShifts(Factory) /\ NoFieldShifts(AllDifferent)
        /\ \A v \in Offered :
              StoredAndLoaded([Defaults EXCEPT ![<<v.key, v.at>>] = v.value])
        /\ \A v \in KipValue : v[1] \in {"g_volt", "g_volt_e"} =>
              LoaderTakes(SysmoduleWords, cust_set_gpu_volt(OwnKip, v[1], v[2], 1), v) = 1

\* With any two limits the overlay offers, the lowest voltage stays below the
\* highest one (GpuVoltDVFS, CpuVoltDVFS and their Erista twins).
LimitsOrdered ==
    (Start /\ Single) =>
        \A k \in {"marikoGpuVmax", "marikoCpuMaxVolt", "eristaCpuMaxVolt", "eristaCpuUV"} :
            \A d \in {[c EXCEPT ![k] = v] : v \in Offers[k]} :
                /\ 0 < GpuVoltDVFS(d).min /\ GpuVoltDVFS(d).min < GpuVoltDVFS(d).max
                /\ GpuVoltThermals(d) = GpuVoltDVFS(d).min
                /\ 0 < CpuVoltDVFS(d).min /\ CpuVoltDVFS(d).min < CpuVoltDVFS(d).max
                /\ CpuVoltDVFS(d).high < CpuVoltDVFS(d).max
                /\ 0 < CpuVoltDvfsErista(d).high
                /\ CpuVoltDvfsErista(d).high < CpuVoltDvfsErista(d).max
                /\ CpuVoltThermalsErista(d).min < CpuVoltThermalsErista(d).max

Increases(seq) == \A i \in 1..(Len(seq) - 1) : seq[i] < seq[i + 1]

\* A table copied over PCV's keeps its clocks in order, what stays of the old
\* one included, has the clock the assembly is patched to, and fits
\* (CpuFreqCvbTable, GpuFreqCvbTable, GpuFreqMaxAsm).
TablesIncrease ==
    (Start /\ Single) => \A s \in {"Mariko", "Erista"} :
        /\ Increases(CpuFreqCvbTable(s, c)) /\ Increases(GpuFreqClocks(s, c))
        /\ Len(CpuFreqCvbTable(s, c)) <= DvfsTableEntryLimit
        /\ Len(GpuFreqClocks(s, c)) <= DvfsTableEntryLimit
        /\ GpuFreqMaxAsm(s, c) \in Range(GpuFreqClocks(s, c))

\* The overlay and the loader agree on which GPU clock a voltage of the kip's
\* arrays is for, whatever table the undervolt level selects, and every voltage
\* as released is one the overlay offers (GpuCustomTable, GpuFreqCvbTable,
\* marikoGpuVoltArray, eristaGpuVoltArray).
VoltsFollowClocks ==
    Start => \A s \in {"Mariko", "Erista"} :
        LET clocks == Ascending(IF s = "Mariko" THEN MarikoGpuClocks ELSE EristaGpuClocks)
            table  == Ascending(GpuTable(s, c))
            volts  == IF s = "Mariko" THEN marikoGpuVoltArray ELSE eristaGpuVoltArray
            model  == IF s = "Mariko" THEN "Aula" ELSE "Icosa"
        IN  /\ Only({"marikoGpuUV", "eristaGpuUV"}) => IsPrefix(table, clocks)
            /\ c = C => \A k \in GpuCustomTable(model, 2) :
                   \E i \in DOMAIN volts : clocks[i] = k.at /\ volts[i] \in k.offers

\* The clock the user picks for the RAM has a table, whatever the step mode,
\* and the stock clocks keep theirs (MtcGenerateFreqTables).
ClockListed ==
    (Start /\ RamClock) =>
        LET list == MtcGenerateFreqTables(c)
        IN  c["marikoEmcMaxClock"] > EmcClkOSLimit =>
                /\ EmcListDefault \cup {c["marikoEmcMaxClock"]} \subseteq list
                /\ Max(list) = c["marikoEmcMaxClock"]
                /\ Cardinality(list) <= DvfsTableEntryLimit

\* A faster clock never gets a lower voltage, and no clock more than the rail
\* may be set to, for every process id (MemFreqDvbTable, SocVoltAsm,
\* SocVoltLimit).  A negative shift is the user's wish for less than stock.
DvbFollowsClock ==
    (Start /\ RamVolt) => \A id \in 0..2 :
        LET list == Ascending(MtcGenerateFreqTables(c))
            volt == [i \in DOMAIN list |-> MemFreqDvbTable(c, id, list[i])]
        IN  /\ c["emcDvbShift"] >= 0 => \A i \in 1..(Len(list) - 1) : volt[i] <= volt[i + 1]
            /\ \A i \in DOMAIN list : /\ volt[i] <= SocVoltAsm(c, id)
                                      /\ volt[i] <= Max(SocVoltLimit(c))

\* A faster clock never gets a lower latency, whatever clocks the user puts in
\* the latency array, and the mode register says the latency that is used
\* (HandleLatency, CalculateMrw2).
LatencyFollowsClock ==
    (Start /\ RamClock /\ c["stepMode"] = 2) =>
        LET list == Ascending({f \in MtcGenerateFreqTables(c) : f > EmcClkOSLimit})
        IN  \A a \in [0..3 -> {0, 1866000, 2133000, 2666000}] :
                /\ \A i \in 1..(Len(list) - 1) :
                       HandleLatency(list[i], a) <= HandleLatency(list[i + 1], a)
                /\ \A i \in DOMAIN list :
                       LET n == HandleLatency(list[i], a)
                       IN  n \in 0..3
                             /\ CalculateMrw2(ReadLatency(list[i], a), WriteLatency(list[i], a))
                                  = 36 + 9 * n

\* Presets tighten timings and no combination of clock, latencies and preset
\* leaves the range of a register: nothing unsigned drops below zero, no
\* division by zero, the fields of the arbiter fit in their bytes, and where a
\* register is capped the timings that bound each other still do
\* (CalculateTimings, MemMtcTableAutoAdjust).
TimingsFit ==
    (Start /\ c["stepMode"] = 2 /\ c["marikoEmcMaxClock"] > EmcClkOSLimit) =>
        LET khz == c["marikoEmcMaxClock"]
        IN  /\ \A RL \in {28, 32, 36, 40} : \A WL \in {12, 14, 16, 18} :
                   LET t == CalculateTimings(c, khz, RL, WL)
                       a == ArbTimings(t, khz)
                       d == DaFields(a)
                       r == EmcRegisters(c, t, khz)
                   IN  /\ \A n \in DOMAIN t : t[n] >= 0
                       /\ t.obdlySteps > 0
                       /\ \A n \in DOMAIN a : a[n] >= 0
                       /\ \A n \in DOMAIN d : d[n] \in 0..255
                       /\ r.ras <= r.rc /\ r.rp <= r.trpab /\ r.rrd <= r.tfaw
                       /\ r.rfcpb <= r.rfc /\ r.rfc <= r.txsr
                       /\ r.refresh \in 1..65535 /\ r.pre_refresh_req_cnt <= r.trefbw
            /\ \A x \in Allowances(khz) : x \in 1..255
            /\ khz <= 2400000 =>
                   LET d == [c EXCEPT !["t5_tRFC"] = Level(@, 5)]
                       t == EristaCycles(d, khz)
                       r == EristaRegisters(d, khz)
                   IN  /\ \A n \in DOMAIN t : t[n] >= 0
                       /\ \A n \in DOMAIN r.arb : r.arb[n] >= 0
                       /\ \A n \in DOMAIN EristaDaFields(d, khz) :
                              EristaDaFields(d, khz)[n] \in 0..255
                       /\ \A x \in EristaAllowances(khz) : x \in 1..255
                       /\ r.ras <= r.rc /\ r.rp <= r.trpab /\ r.rfc <= r.txsr

\* The PLL runs at the clock the table is for, to within one step of its
\* fraction: 38.4 MHz / divm * (divn + 1/2 + fraction / 8192), and divn is a
\* byte, the fraction a signed half word (MemMtcPllmbDivisor).
PllmbHitsRate ==
    (Start /\ RamClock) => \A khz \in MtcGenerateFreqTables(c) \ EmcListDefault :
        LET d    == MemMtcPllmbDivisor(khz)
            unit == 38400 \div d.divm
            rest == (2 * (khz - d.divn * unit) - unit) * 4096 - d.fraction * unit
        IN  /\ d.divn \in 1..255 /\ d.fraction \in -4096..4096
            /\ -unit < rest /\ rest < unit

\* Each of Erista's RAM tables ends up with the same ten rates, in order and
\* without a repetition, up to the highest clock the user set and with
\* 1600 MHz still among them, although the array of clocks is shared and
\* changed by every pass (MemFreqMtcTable).
EristaRates ==
    (Start /\ EristaClock) =>
        LET first  == MemFreqMtcTableErista(maxEmcClocks(c))
            second == MemFreqMtcTableErista(first.clocks)
        IN  /\ second.rates = first.rates
            /\ Increases(first.rates) /\ Len(first.rates) = Len(EristaKhzList)
            /\ Last(first.rates) = eristaMaxEmcClock(c)
            /\ EmcClkOSLimit \in Range(first.rates)

\* Boost mode runs at the clock the user set for this SoC, in every entry that
\* had the stock boost clock and in no other (ptm.cpp).
BoostTaken ==
    (Start /\ Single) => \A s \in {"Mariko", "Erista"} :
        \A t \in [1..3 -> [cpu : {cpuPtmDefault, cpuPtmBoost}, mem : {memPtmLimit, memPtmClamp}]] :
            PtmPanics(t) \/
            LET p == PtmPatch(s, c, t)
            IN  \A i \in 1..3 :
                    /\ (t[i].cpu = cpuPtmBoost) =>
                           p[i].cpu = (IF s = "Mariko" THEN c["marikoCpuBoostClock"]
                                                       ELSE c["eristaCpuBoostClock"])
                    /\ t[i].cpu # cpuPtmBoost => p[i].cpu = t[i].cpu
                    /\ s = "Mariko" => p[i].mem = memPtmLimit

\* "You can overwrite auto with any voltage (in mv) of your choice - offset
\* will not be applied" (customize.cpp): a GPU voltage the user sets is the one
\* PCV gets.
CustomVoltageKept ==
    Start => \A uv \in 0..2 : \A own \in {600, 800} :
        GpuFreqCvbTable(uv, c["commonGpuVoltOffset"], own).volt = own

\* Every image of PCV the loader knows boots, with all of its limits raised
\* (Patch, PatcherEntry), and the secure monitor it boots with does what it is
\* asked for, to the register it is asked about (SmcReadWriteRegister).
BootInv ==
    /\ TypeOK /\ BootsPatched /\ OfficialBoots
    /\ half = "monitor" => MonitorInv

\* No value the overlay offers is refused by the sysmodule or keeps the console
\* from starting, and each arrives at the loader as itself (misc_gui.cpp, config.h,
\* kip.cpp, SafetyCheck).
OffersWork == OffersAccepted /\ OffersBoot /\ SettingsArrive

\* The tables and limits for clocks and voltages of CPU, GPU and boost mode are
\* in order and are the user's; the RAM tables have the user's clock, with the
\* voltages, latencies, timings and PLL dividers that go with every entry.
TablesRight ==
    /\ LimitsOrdered /\ TablesIncrease /\ VoltsFollowClocks /\ BoostTaken
    /\ ClockListed /\ DvbFollowsClock /\ LatencyFollowsClock
    /\ TimingsFit /\ PllmbHitsRate /\ EristaRates
==============================================================================
