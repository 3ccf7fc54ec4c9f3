----------------------------- MODULE MCHardware -----------------------------
(***************************************************************************)
(* The pieces of hardware and of the operating system the sysmodule works  *)
(* with, each explored by itself: they share no state, so a behaviour      *)
(* picks one part and stays with it. The part "table" scans the frequency  *)
(* arithmetic of FreqTable: a wanted clock that climbs through a GPU table,*)
(* a load that climbs through the governor's range and a RAM clock that    *)
(* climbs through the DVFS tables, for every profile and every set of      *)
(* disabled GPU clocks.                                                    *)
(***************************************************************************)
EXTENDS FreqTable, Thermal, PowerChips, SocClocks, BoardBringUp, Games, Latencies, IpcCalls,
        Lifecycle, CustFile, FreqChoice

CONSTANTS Pcv,        \* the GPU clocks PCV offers
          Disabled,   \* the clocks that may be disabled
          Middle,     \* HocClkConfigValue_MarikoMiddleFreqs
          WantedMax, WantedStep, LoadStep, RamMax

VARIABLES part, tbl, p, uncapped, wanted, load, ram

table == <<tbl, p, uncapped, wanted, load, ram>>
parts == <<part, table, thermal, chips, socVars, bringUp, gameVars, latencies, calls, life, custVars, choiceVars>>

MCPcvMariko == {76800, 153600, 230400, 307200, 384000, 460800, 537600, 614400,
                691200, 768000, 844800, 921600, 998400, 1075200, 1152000, 1228800,
                1267200}

\* The clocks of the CPU and of the RAM PCV offers once the loader has extended
\* its tables, and those of the GPU with and without the clocks in between.
MCLists ==
    [CPU |-> {RefreshFreqTableRow("CPU", {204000, 306000, 408000, 510000, 612000, 714000,
                  816000, 918000, 1020000, 1122000, 1224000, 1326000, 1428000, 1581000,
                  1683000, 1785000, 1887000, 1963500, 2091000, 2193000, 2295000, 2397000,
                  2499000, 2601000}, FALSE, {})},
     GPU |-> {RefreshFreqTableRow("GPU", Pcv, m, {}) : m \in BOOLEAN},
     MEM |-> {RefreshFreqTableRow("MEM", {204000, 408000, 665600, 800000, 1065600, 1331200,
                  1600000, 1862400, 2131200, 2400000, 2665600}, FALSE, {})}]

MCFuses ==
    {[base_cp |-> c, base_ft |-> f, shift_cp |-> shift[1], shift_ft |-> shift[2],
      cp |-> x, ft |-> y] :
        c \in {280, 300}, f \in {900, 1000}, shift \in {<<0, 28>>, <<60, 3>>},
        x \in {100, 8100}, y \in {200, 8000}}

MCDies ==
    {[z \in Zones |-> IF z = "pllx" THEN 120 ELSE 81],
     [z \in Zones |-> IF z = "ao" THEN 95 ELSE -3],
     [z \in Zones |-> IF z = "ao" THEN -7 ELSE 100],
     [z \in Zones |-> IF z = "ao" THEN 3 ELSE 80]}

\* Files of up to 14 bytes with up to two magics, the second of which may cut the
\* first short.
FileWith(n, at) ==
    [i \in 1..n |->
        LET over == {a \in at : i - a \in 0..3}
        IN  IF over = {} THEN "-"
            ELSE CUST_MAGIC[i - (CHOOSE a \in over : \A b \in over : b <= a) + 1]]

MCCustFiles ==
    {FileWith(n, {a, b}) : n \in 0..14, a \in 1..14, b \in 1..14}

AnyOf(S) == CHOOSE x \in S : TRUE

\* Climbs start at several heights.
Every(low, high, by) == {low + by * i : i \in 0..((high - low) \div by)}

NoTable ==
    /\ tbl = <<76800>> /\ p = "Docked" /\ uncapped = FALSE
    /\ wanted = 0 /\ load = 0 /\ ram = 1600

NoSearch ==
    /\ custFile = <<>> /\ kipOp = "none"
    /\ custScan = [pos |-> 0, at |-> "idle"]
    /\ custDone = [op |-> "none", off |-> 0, ok |-> FALSE]

NoChoice ==
    /\ picker = [soc |-> "Mariko", module |-> "CPU", table |-> <<1020000>>,
                 uv |-> 0, maxCpu |-> AnyOf(MaxCpuClocks)]
    /\ picked = 0 /\ kept = 0 /\ marked = {0}

TableInit ==
    /\ tbl \in {RefreshFreqTableRow("GPU", Pcv, Middle, d) : d \in SUBSET Disabled}
    /\ p \in Profile
    /\ uncapped \in BOOLEAN
    /\ load = 0
    /\ \/ wanted \in Every(0, WantedMax, 8 * WantedStep) /\ ram = 1600
       \/ wanted = 0 /\ ram \in Every(1600, RamMax, 20)

Init ==
    /\ part \in {"table", "thermal", "rails", "tmp451", "gauge", "slide", "gpuload",
                 "cpuload", "emc", "dfll", "board", "games", "latencies", "ipc", "life", "volts", "cust",
                 "choice"}
    /\ IF part = "table" THEN TableInit ELSE NoTable
    /\ IF part = "thermal" THEN TRUE
       ELSE soc = "Mariko" /\ fuse = AnyOf(Fuses) /\ die = AnyOf(Dies)
    /\ ThermalInit
    /\ IF part = "tmp451" THEN TRUE ELSE hot = AnyOf(Boards)
    /\ IF part = "volts" THEN TRUE
       ELSE volt = [soc |-> "Mariko", of |-> "SOC", reg |-> AnyOf(RailRegisters),
                    reads |-> <<>>, out |-> -1]
    /\ ChipsInit
    /\ SocInit
    /\ IF part = "board" THEN TRUE
       ELSE console = [soc |-> "Mariko", speedo |-> AnyOf(Speedos), model |-> 1, dram |-> 9,
                       ext |-> 0, bracket |-> -1, type |-> "Icosa", id |-> 0]
    /\ BringUpInit
    /\ GamesInit
    /\ IF part = "cust" THEN CustInit ELSE NoSearch
    /\ IF part = "choice" THEN ChoiceInit ELSE NoChoice
    /\ LifeInit /\ (part # "life" => logFlag.there)
    /\ CallsInit /\ (part # "ipc" => same)
    /\ LatenciesInit /\ (part # "latencies" => saved = AnyOf([Series -> {[i \in Tiers |-> 0]}]))

WantMore == /\ ram = 1600
            /\ wanted + WantedStep <= WantedMax
            /\ wanted' = wanted + WantedStep
            /\ UNCHANGED <<tbl, p, uncapped, load, ram>>

LoadMore == /\ ram = 1600 /\ load + LoadStep <= 1000
            /\ load' = load + LoadStep
            /\ UNCHANGED <<tbl, p, uncapped, wanted, ram>>

RamMore == /\ wanted = 0 /\ load = 0 /\ ram < RamMax
           /\ ram' = ram + 1
           /\ UNCHANGED <<tbl, p, uncapped, wanted, load>>

Next ==
    /\ UNCHANGED part
    /\ \/ /\ part = "table" /\ (WantMore \/ LoadMore \/ RamMore)
          /\ UNCHANGED <<thermal, chips, socVars, bringUp, gameVars, latencies, calls, life, custVars, choiceVars>>
       \/ /\ part = "thermal" /\ ThermalNext
          /\ UNCHANGED <<table, chips, socVars, bringUp, gameVars, latencies, calls, life, custVars, choiceVars>>
       \/ /\ \/ part = "rails" /\ RailNext
             \/ part = "tmp451" /\ TmpNext
             \/ part = "gauge" /\ GaugeNext
             \/ part = "volts" /\ VoltNext
          /\ UNCHANGED <<table, thermal, socVars, bringUp, gameVars, latencies, calls, life, custVars, choiceVars>>
       \/ /\ \/ part = "slide" /\ SlideNext
             \/ part = "gpuload" /\ SampleGpu
             \/ part = "cpuload" /\ CheckCore
             \/ part = "emc" /\ UpdateFreqs
             \/ part = "dfll" /\ TuneNext
          /\ UNCHANGED <<table, thermal, chips, bringUp, gameVars, latencies, calls, life, custVars, choiceVars>>
       \/ /\ part = "board" /\ BringUpNext
          /\ UNCHANGED <<table, thermal, chips, socVars, gameVars, latencies, calls, life, custVars, choiceVars>>
       \/ /\ part = "games" /\ GamesNext
          /\ UNCHANGED <<table, thermal, chips, socVars, bringUp, latencies, calls, life, custVars, choiceVars>>
       \/ /\ part = "latencies" /\ LatenciesNext
          /\ UNCHANGED <<table, thermal, chips, socVars, bringUp, gameVars, calls, life, custVars, choiceVars>>
       \/ /\ part = "ipc" /\ CallsNext
          /\ UNCHANGED <<table, thermal, chips, socVars, bringUp, gameVars, latencies, life, custVars, choiceVars>>
       \/ /\ part = "life" /\ LifeNext
          /\ UNCHANGED <<table, thermal, chips, socVars, bringUp, gameVars, latencies, calls,
                         custVars, choiceVars>>
       \/ /\ part = "cust" /\ CustNext
          /\ UNCHANGED <<table, thermal, chips, socVars, bringUp, gameVars, latencies, calls, life,
                         choiceVars>>
       \/ /\ part = "choice" /\ ChoiceNext
          /\ UNCHANGED <<table, thermal, chips, socVars, bringUp, gameVars, latencies, calls, life,
                         custVars>>

Spec == Init /\ [][Next]_parts

TypeOK ==
    /\ IsTable(tbl) /\ Len(tbl) <= ListMax
    /\ p \in Profile /\ uncapped \in BOOLEAN
    /\ wanted \in 0..WantedMax /\ load \in 0..1000 /\ ram \in 1600..RamMax
    /\ ThermalTypeOK /\ ChipsTypeOK /\ SocTypeOK /\ BringUpTypeOK /\ GamesTypeOK
    /\ LatenciesTypeOK /\ CallsTypeOK /\ LifeTypeOK /\ CustTypeOK /\ ChoiceTypeOK

Cap == MaxAllowed(uncapped, "GPU", p)
Distance(a, b) == IF a < b THEN b - a ELSE a - b

\* The clocks GetNearestHz may give: those within the cap, and the next one up
\* when the cap itself is not in the table or nothing is below it.
Offered == {f \in Entries(tbl) :
                \A g \in Entries(tbl) : g < f => Cap = NoCap \/ g < Cap}

\* GetNearestHz gives the offered clock closest to the wanted one, the lower
\* of two equally close (clock_manager.cpp:127-144).
NearestIsClosest ==
    LET n == Nearest(tbl, wanted, Cap)
    IN  /\ n \in Offered
        /\ \A f \in Offered \ {n} :
              \/ Distance(n, wanted) < Distance(f, wanted)
              \/ Distance(n, wanted) = Distance(f, wanted) /\ n < f

\* "Clock cappings: Handheld GPU 460 MHz, USB charger GPU 768 MHz" (Erista) and
\* the Mariko list (config_info_strings.cpp:129-163): neither SetClocks nor the
\* governor gives the GPU more than the cap of the profile.
CapHolds ==
    /\ Within(Nearest(tbl, wanted, Cap), Cap)
    /\ Within(GovernorHz(tbl, load, wanted, Cap), Cap)

\* More load never lowers the governor's clock, and a load of StepUtil or more
\* gets the clock of a full load, the one that serves the user's clock and the
\* cap, or the highest of the table (governor.cpp:79-89).
GovernorFollowsLoad ==
    [][load' > load =>
         LET hz(l) == GovernorHz(tbl, l, wanted, Cap)
         IN  /\ hz(load') >= hz(load)
             /\ load' >= StepUtil =>
                    hz(load') = AtLeast(tbl, Limit(Limit(tbl[Len(tbl)], wanted), Cap))]_parts

\* A faster RAM clock never gets a lower GPU voltage floor, from the start of
\* the DVFS ramp on (GetMinimumGpuVmin); below it, 1601 to 1632 MHz get the
\* first table voltage, which is above the ramp's.
VminFollowsRam ==
    [][ram' > ram /\ (ram >= 1633 \/ Soc = "Erista") =>
         GpuVmin(ram') >= GpuVmin(ram)]_parts

\* A clock goes from the overlay's list through a profile, the cap and the
\* sysmodule's table to the hardware as the user picked it.
ClocksRight ==
    /\ TypeOK
    /\ part = "table" => NearestIsClosest /\ CapHolds
    /\ part = "choice" => PickedIsApplied /\ CapsAreSafe

\* The two sides of an interface, written by different hands, understand each
\* other: the page of latencies and the loader, the client and the service, the
\* kip and the search for its table.
SidesAgree == GraphIsWhatLoads /\ CallsUnderstood /\ SessionClosed /\ FirstMagicFound

\* More load and faster RAM never get less (governor.cpp:79-89,
\* GetMinimumGpuVmin).
MoreNeverLess == GovernorFollowsLoad /\ VminFollowsRam

\* An answer given out of a cache, or after several calls, is about the game,
\* the flag or the row that was asked about.
AnswersInStep ==
    FocusAnswerRight /\ FpsOfThisGame /\ TidWasInFront /\ LogFollowsFlag /\ ChoiceKept
=============================================================================
