-------------------------- MODULE ClockManagerProofs --------------------------
(***************************************************************************)
(* Proofs about ClockManager, for every table, configuration, interleaving *)
(* and number of events: the frequency arithmetic, the type invariant, the *)
(* voltage floor under the RAM, and which clocks the program sets: within  *)
(* the cap of the profile, at stock while a throttle holds, and as asked   *)
(* when SetClocks has run.                                                 *)
(***************************************************************************)
EXTENDS ClockManager, WellFoundedInduction, TLAPS

-----------------------------------------------------------------------------
(* What the frequency arithmetic (FreqTable) gives for every table: clocks *)
(* that are entries and stay within a cap that is itself an entry (or      *)
(* above every entry), and a voltage floor that leaves room for the offset.*)

\* A non-empty set of naturals has a least element, and Min is it: every scan
\* of a table that stops at its first fitting entry rests on this.
LEMMA MinOfNaturals ==
    ASSUME NEW S, S \subseteq Nat, S # {}
    PROVE  /\ Min(S) \in S
           /\ \A y \in S : Min(S) <= y
<1> DEFINE R == {ss \in Nat \X Nat : ss[1] < ss[2]}
<1>1. IsWellFoundedOn(R, Nat)
  BY NatLessThanWellFounded, Zenon DEF OpToRel
<1>2. PICK x \in S : \A y \in S : <<y, x>> \notin R
  <2> HIDE DEF R
  <2> QED  BY <1>1, WFMin
<1>3. ASSUME NEW y \in S, ~(x <= y)  PROVE FALSE
  <2>1. <<y, x>> \in R
    BY <1>3
  <2> HIDE DEF R
  <2> QED  BY <1>2, <2>1
<1>4. QED
  BY <1>3 DEF Min

\* The entries of a table are clocks and later entries are higher
\* (RefreshFreqTableRow).
LEMMA TableFacts ==
    ASSUME NEW tbl, IsTable(tbl)
    PROVE  /\ Len(tbl) \in Nat \ {0}
           /\ DOMAIN tbl = 1..Len(tbl)
           /\ \A i \in DOMAIN tbl : tbl[i] \in Nat
           /\ \A i, j \in DOMAIN tbl : i <= j => tbl[i] <= tbl[j]
           /\ Entries(tbl) \subseteq Nat
<1>1. tbl \in Seq(Nat) /\ Len(tbl) \in Nat /\ DOMAIN tbl = 1..Len(tbl)
  BY DEF IsTable
<1>2. Len(tbl) # 0
  BY <1>1 DEF IsTable
<1>3. \A i \in DOMAIN tbl : tbl[i] \in Nat
  BY <1>1
<1>4. \A i, j \in DOMAIN tbl : i < j => tbl[i] < tbl[j]
  BY DEF IsTable, Ascending
<1>5. \A i, j \in DOMAIN tbl : i <= j => tbl[i] <= tbl[j]
  BY <1>1, <1>3, <1>4
<1>6. QED
  BY <1>1, <1>2, <1>3, <1>5 DEF Entries

\* GetNearestHz gives an entry of the table and keeps a keepable cap.
LEMMA NearestFacts ==
    ASSUME NEW tbl, IsTable(tbl), NEW wanted, NEW max \in Nat
    PROVE  /\ Nearest(tbl, wanted, max) \in Entries(tbl)
           /\ Nearest(tbl, wanted, max) \in Nat
           /\ Keepable(tbl, max) => Within(Nearest(tbl, wanted, max), max)
<1> DEFINE S == {i \in DOMAIN tbl : StopsAt(tbl, i, wanted, max)}
<1>1. Len(tbl) \in S
  BY TableFacts DEF StopsAt
<1>2. S \subseteq Nat
  BY TableFacts
<1>3. Min(S) \in S /\ \A y \in S : Min(S) <= y
  <2> HIDE DEF S
  <2> QED  BY <1>1, <1>2, MinOfNaturals
<1>4. Nearest(tbl, wanted, max) = tbl[Min(S)]
  BY DEF Nearest
<1>5. /\ Nearest(tbl, wanted, max) \in Entries(tbl)
      /\ Nearest(tbl, wanted, max) \in Nat
  BY <1>3, <1>4, TableFacts DEF Entries
<1>6. ASSUME Keepable(tbl, max), max # NoCap
      PROVE  Nearest(tbl, wanted, max) <= max
  <2>1. CASE max \in Entries(tbl)
    <3>1. PICK k \in DOMAIN tbl : tbl[k] = max
      BY <2>1 DEF Entries
    <3>2. k \in S
      BY <3>1, <1>6 DEF StopsAt, NoCap
    <3>3. Min(S) <= k /\ Min(S) \in DOMAIN tbl
      BY <1>3, <3>2
    <3>4. QED
      BY <1>4, <3>1, <3>3, TableFacts
  <2>2. CASE \A f \in Entries(tbl) : f <= max
    BY <1>5, <2>2
  <2>3. QED
    BY <1>6, <2>1, <2>2 DEF Keepable
<1>7. QED
  BY <1>5, <1>6 DEF Within

\* TableIndexForHz gives an entry of the table, and none above a keepable cap
\* when the wanted clock is not above it.
LEMMA AtLeastFacts ==
    ASSUME NEW tbl, IsTable(tbl), NEW wanted \in Nat
    PROVE  /\ AtLeast(tbl, wanted) \in Entries(tbl)
           /\ AtLeast(tbl, wanted) \in Nat
           /\ \A max \in Nat : Keepable(tbl, max) /\ Within(wanted, max)
                                  => Within(AtLeast(tbl, wanted), max)
<1> DEFINE S == {Len(tbl)} \cup {i \in DOMAIN tbl : tbl[i] >= wanted}
<1>1. S \subseteq DOMAIN tbl /\ S \subseteq Nat /\ S # {}
  BY TableFacts
<1>2. Min(S) \in S /\ \A y \in S : Min(S) <= y
  <2> HIDE DEF S
  <2> QED  BY <1>1, MinOfNaturals
<1>3. AtLeast(tbl, wanted) = tbl[Min(S)]
  BY DEF AtLeast
<1>4. AtLeast(tbl, wanted) \in Entries(tbl) /\ AtLeast(tbl, wanted) \in Nat
  BY <1>1, <1>2, <1>3, TableFacts DEF Entries
<1>5. ASSUME NEW max \in Nat, Keepable(tbl, max), Within(wanted, max), max # NoCap
      PROVE  AtLeast(tbl, wanted) <= max
  <2>1. CASE max \in Entries(tbl)
    <3>1. PICK k \in DOMAIN tbl : tbl[k] = max
      BY <2>1 DEF Entries
    <3>2. k \in S
      BY <3>1, <1>5 DEF Within
    <3>3. Min(S) <= k /\ Min(S) \in DOMAIN tbl
      BY <1>1, <1>2, <3>2
    <3>4. QED
      BY <1>3, <3>1, <3>3, TableFacts
  <2>2. CASE \A f \in Entries(tbl) : f <= max
    BY <1>4, <2>2
  <2>3. QED
    BY <1>5, <2>1, <2>2 DEF Keepable
<1>6. QED
  BY <1>4, <1>5 DEF Within

-----------------------------------------------------------------------------

\* SchedutilTargetHz and the two limits stay natural, and the second limit
\* bounds what comes out.
LEMMA LimitFacts ==
    ASSUME NEW f \in Nat, NEW max \in Nat
    PROVE  Limit(f, max) \in Nat /\ Within(Limit(f, max), max)
BY DEF Limit, Within, NoCap

LEMMA SchedutilIsNat ==
    ASSUME NEW load \in Nat, NEW tableMax \in Nat
    PROVE  Schedutil(load, tableMax) \in Nat
<1>1. tableMax * load \in Nat
  OBVIOUS
<1>2. (tableMax * load) \div 900 \in Nat
  <2> DEFINE x == tableMax * load
  <2>1. x \in Nat
    BY <1>1
  <2> HIDE DEF x
  <2>2. x \div 900 \in Nat
    BY <2>1
  <2> QED  BY <2>2 DEF x
<1>3. QED
  BY <1>2 DEF Schedutil, StepUtil, Lower

\* The governor's clock is an entry of the table and keeps a keepable cap,
\* whatever the load and the user's clock (governor.cpp:142-152).
THEOREM GovernorFacts ==
    ASSUME NEW tbl, IsTable(tbl), NEW load \in Nat, NEW target \in Nat,
           NEW max \in Nat
    PROVE  /\ GovernorHz(tbl, load, target, max) \in Entries(tbl)
           /\ GovernorHz(tbl, load, target, max) \in Nat
           /\ Keepable(tbl, max) => Within(GovernorHz(tbl, load, target, max), max)
<1> DEFINE wanted == Limit(Limit(Schedutil(load, tbl[Len(tbl)]), target), max)
<1>1. tbl[Len(tbl)] \in Nat
  BY TableFacts
<1>2. wanted \in Nat /\ Within(wanted, max)
  BY <1>1, SchedutilIsNat, LimitFacts
<1>3. GovernorHz(tbl, load, target, max) = AtLeast(tbl, wanted)
  BY DEF GovernorHz
<1> HIDE DEF wanted
<1>4. QED
  BY <1>2, <1>3, AtLeastFacts

-----------------------------------------------------------------------------

\* A scan of a voltage table ends on one of its steps.
LEMMA StepVoltFacts ==
    ASSUME NEW row, Len(row) \in Nat \ {0}, DOMAIN row = 1..Len(row),
           NEW mhz \in Nat, NEW start \in Nat, NEW step \in Nat
    PROVE  StepVolt(row, mhz, start, step) \in Nat
           /\ StepVolt(row, mhz, start, step) >= start
<1> DEFINE S == {Len(row)} \cup {i \in DOMAIN row : mhz <= row[i]}
<1>1. S \subseteq 1..Len(row) /\ S # {}
  OBVIOUS
<1>2. Min(S) \in 1..Len(row)
  <2> HIDE DEF S
  <2>1. S \subseteq Nat
    BY <1>1
  <2>2. QED
    BY <1>1, <2>1, MinOfNaturals
<1>3. StepVolt(row, mhz, start, step) = start + step * (Min(S) - 1)
  BY DEF StepVolt
<1> DEFINE k == Min(S) - 1
<1>4. k \in Nat
  BY <1>2
<1> HIDE DEF k
<1>5. step * k \in Nat
  BY <1>4
<1>6. QED
  BY <1>3, <1>5 DEF k

\* The floor GetMinimumGpuVmin asks for is none, or high enough to take off the
\* largest offset ApplyGpuDvfs allows: the u32 sum never wraps around.
THEOREM GpuVminFacts ==
    ASSUME NEW mhz \in Nat
    PROVE  GpuVmin(mhz) \in Nat /\ (GpuVmin(mhz) = 0 \/ GpuVmin(mhz) >= 525)
<1> DEFINE b == Row(Bracket)
           row == MarikoRam[b + 1]
           start == IF b = 0 THEN 535 ELSE 525
<1>1. b \in 0..3
  BY FreqTableAssumption DEF Row
<1>2. start \in {525, 535}
  OBVIOUS
<1>3. Len(row) = 22 /\ DOMAIN row = 1..22 /\ row[1] \in {2133, 2300, 2433, 2500}
  BY <1>1 DEF MarikoRam
<1>4. Len(EristaRam) = 19 /\ DOMAIN EristaRam = 1..19
  BY DEF EristaRam
<1> HIDE DEF b, row, start
<1>5. CASE mhz <= 1600
  BY <1>5 DEF GpuVmin
<1>6. CASE mhz > 1600 /\ Soc = "Erista"
  <2>1. 725 - 10 * b \in Nat /\ 725 - 10 * b >= 695
    BY <1>1
  <2>2. GpuVmin(mhz) = StepVolt(EristaRam, mhz, 725 - 10 * b, 5)
    BY <1>6 DEF GpuVmin, b
  <2>3. StepVolt(EristaRam, mhz, 725 - 10 * b, 5) \in Nat
        /\ StepVolt(EristaRam, mhz, 725 - 10 * b, 5) >= 725 - 10 * b
    <3>1. Len(EristaRam) \in Nat \ {0} /\ DOMAIN EristaRam = 1..Len(EristaRam)
      BY <1>4
    <3> DEFINE first == 725 - 10 * b
               step == 5
    <3>2. first \in Nat /\ step \in Nat
      BY <2>1
    <3> HIDE DEF first, step
    <3>3. StepVolt(EristaRam, mhz, first, step) \in Nat
          /\ StepVolt(EristaRam, mhz, first, step) >= first
      BY <3>1, <3>2, StepVoltFacts, Zenon
    <3>4. QED
      BY <3>3 DEF first, step
  <2>4. QED
    BY <2>1, <2>2, <2>3
<1>7. CASE mhz >= 1633 /\ mhz < row[1] /\ Soc # "Erista"
  <2>1. GpuVmin(mhz) = RampVolt(mhz, row[1], start)
    BY <1>7, FreqTableAssumption DEF GpuVmin, b, row, start
  <2>2. RampVolt(mhz, row[1], start) \in start..590
    <3> DEFINE raw == start + ((mhz - 1633) * (590 - start)) \div (row[1] - 1633)
               volt == ((raw + 2) \div 5) * 5
    <3>1. raw \in Int
      <4> DEFINE a == (mhz - 1633) * (590 - start)
                 d == row[1] - 1633
      <4>1. a \in Int /\ d \in Int /\ d > 0
        BY <1>2, <1>3
      <4> HIDE DEF a, d
      <4>2. a \div d \in Int
        BY <4>1
      <4>3. QED
        BY <1>2, <4>2 DEF a, d
    <3> HIDE DEF raw
    <3>2. volt \in Int
      BY <3>1
    <3>3. RampVolt(mhz, row[1], start)
            = Lower(IF volt < start THEN start ELSE volt, 590)
      BY DEF RampVolt, raw
    <3> HIDE DEF volt
    <3>4. QED
      BY <1>2, <3>2, <3>3 DEF Lower
  <2>3. QED
    BY <1>2, <2>1, <2>2
<1>8. CASE mhz > 1600 /\ Soc # "Erista" /\ ~(mhz >= 1633 /\ mhz < row[1])
  <2>1. GpuVmin(mhz) = StepVolt(row, mhz, 590, 10)
    BY <1>8, <1>3 DEF GpuVmin, b, row
  <2>2. StepVolt(row, mhz, 590, 10) \in Nat /\ StepVolt(row, mhz, 590, 10) >= 590
    <3>1. Len(row) \in Nat \ {0} /\ DOMAIN row = 1..Len(row)
      BY <1>3
    <3> DEFINE first == 590
               step == 10
    <3>2. first \in Nat /\ step \in Nat
      OBVIOUS
    <3> HIDE DEF first, step
    <3>3. StepVolt(row, mhz, first, step) \in Nat
          /\ StepVolt(row, mhz, first, step) >= first
      BY <3>1, <3>2, StepVoltFacts, Zenon
    <3>4. QED
      BY <3>3 DEF first, step
  <2>3. QED
    BY <2>1, <2>2
<1>9. QED
  BY <1>5, <1>6, <1>7, <1>8

-----------------------------------------------------------------------------
(* The hardware operators stay within Hardware.                            *)

\* Rounding up to a step of PCV gives a clock (board_freq.cpp:99).
LEMMA PcvStepIsNat == ASSUME NEW f \in Nat PROVE PcvStep(f) \in Nat
<1> DEFINE q == (f + 76799) \div 76800
<1>1. q \in Nat
  OBVIOUS
<1> HIDE DEF q
<1>2. q * 76800 \in Nat
  BY <1>1
<1>3. QED
  BY <1>2 DEF PcvStep, q

\* What SetHz and GetHz do to a hardware record.
LEMMA SetHzType ==
    ASSUME NEW h \in Hardware, NEW m \in Module, NEW f \in Nat
    PROVE  SetHz(h, m, f) \in Hardware
<1>1. CASE m = "GPU"
  BY <1>1, PcvStepIsNat DEF SetHz, SetGpu, Hardware, Module
<1>2. CASE m # "GPU"
  BY <1>2 DEF SetHz, SetCpuOrMem, Hardware, Module
<1>3. QED
  BY <1>1, <1>2

LEMMA GetHzType ==
    ASSUME NEW h \in Hardware, NEW m \in Module
    PROVE  GetHz(h, m) \in Nat
BY DEF GetHz, Hardware

LEMMA StockType ==
    ASSUME NEW h \in Hardware, NEW stock \in [Module -> Nat]
    PROVE  /\ \A m \in Module : ResetToStock(h, stock, m) \in Hardware
           /\ ResetAllToStock(h, stock) \in Hardware
           /\ PcvApply(h, stock) \in Hardware
<1>1. ASSUME NEW k \in Hardware, NEW m \in Module
      PROVE  ResetToStock(k, stock, m) \in Hardware
  <2>1. stock[m] \in Nat
    OBVIOUS
  <2>2. QED
    BY <2>1, SetHzType DEF ResetToStock
<1>2. "CPU" \in Module /\ "GPU" \in Module /\ "MEM" \in Module
  BY DEF Module
<1>3. ResetAllToStock(h, stock) \in Hardware
  BY <1>1, <1>2 DEF ResetAllToStock
<1>4. PcvApply(h, stock) \in Hardware
  BY <1>2 DEF PcvApply, Hardware
<1>5. QED
  BY <1>1, <1>3, <1>4

LEMMA HijackType ==
    ASSUME NEW h \in Hardware, NEW v \in Nat, NEW k \in HijackOutcomes(h, v)
    PROVE  k \in Hardware
BY DEF HijackOutcomes, Hardware

-----------------------------------------------------------------------------
(* Targets, caps and rounded clocks are naturals.                          *)

LEMMA ApmType ==
    ASSUME TypeOK
    PROVE  /\ apm.hz \in [Module -> Nat]
           /\ \A m \in Module : apm.hz[m] \in Nat
           /\ apm.boost \in BOOLEAN /\ apm.docked \in BOOLEAN
BY ClockManagerAssumption DEF TypeOK

LEMMA SettingType ==
    ASSUME TypeOK, NEW t \in Titles0, NEW p \in Profile
    PROVE  /\ Ini[cfg].auto[t][p] \in Setting
           /\ \A m \in Module : Ini[cfg].auto[t][p].hz[m] \in Nat
           /\ Ini[cfg].auto[t][p].gov \in GovSetting
<1>1. Ini[cfg] \in Config
  BY ClockManagerAssumption DEF TypeOK
<1>2. Ini[cfg].auto[t][p] \in Setting
  BY <1>1 DEF Config
<1>3. QED
  BY <1>2 DEF Setting

\* A resolved target is a clock (GetAutoClockHz, ResolveTargetHz).
LEMMA TargetType ==
    ASSUME TypeOK, NEW m \in Module
    PROVE  Target(m) \in Nat
<1>1. Override[ctxOvr].hz[m] \in Nat
  BY ClockManagerAssumption DEF TypeOK, Setting
<1>2. ASSUME NEW t \in Titles0
      PROVE  AutoHz(t, ctxProfile, m) \in Nat
  <2>1. \A q \in Profile : Ini[cfg].auto[t][q].hz[m] \in Nat
    BY SettingType
  <2>2. ctxProfile \in Profile
    BY DEF TypeOK
  <2>3. QED
    BY <2>1, <2>2 DEF AutoHz, Else, Profile
<1>3. ctxApp \in Titles0 /\ GlobalTitle \in Titles0
  BY DEF TypeOK, Titles0
<1>4. QED
  BY <1>1, <1>2, <1>3 DEF Target, Else

LEMMA CapType ==
    ASSUME TypeOK, NEW m \in Module
    PROVE  Cap(m) \in Nat
BY DEF Cap, MaxAllowed, GpuCap, CpuCap, MarikoCap, Uncapped, NoCap

\* GetNearestHz gives a clock of the module's table.
LEMMA NearestHzType ==
    ASSUME TypeOK, NEW m \in Module, NEW f
    PROVE  NearestHz(m, f) \in Nat /\ NearestHz(m, f) \in Entries(Table[m])
<1>1. IsTable(Table[m]) /\ Cap(m) \in Nat
  BY ClockManagerAssumption, CapType
<1>2. QED
  BY <1>1, NearestFacts DEF NearestHz

\* The floor ApplyGpuDvfs asks for never wraps around below zero.
LEMMA DvfsVminType ==
    ASSUME NEW f \in Nat
    PROVE  DvfsVmin(f) \in Nat
<1> DEFINE mhz == f \div 1000
<1>1. mhz \in Nat
  OBVIOUS
<1> HIDE DEF mhz
<1>2. GpuVmin(mhz) \in Nat /\ (GpuVmin(mhz) = 0 \/ GpuVmin(mhz) >= 525)
  BY <1>1, GpuVminFacts
<1>3. DvfsOffset \in Int
  BY ClockManagerAssumption
<1>4. QED
  BY <1>2, <1>3 DEF DvfsVmin, Lower, mhz

\* ApplyGpuDvfs leaves a hardware record.
LEMMA ApplyGpuDvfsType ==
    ASSUME TypeOK, NEW f \in Nat, ApplyGpuDvfs(f)
    PROVE  hw' \in Hardware
<1>1. hw \in Hardware /\ "GPU" \in Module
  BY DEF TypeOK, Module
<1>3. PICK h \in HijackOutcomes(hw, DvfsVmin(f)) :
              hw' = SetHz(h, "GPU", NearestHz("GPU", GetHz(h, "GPU")))
  BY DEF ApplyGpuDvfs
<1>4. h \in Hardware
  BY <1>1, <1>3, DvfsVminType, HijackType
<1>5. NearestHz("GPU", GetHz(h, "GPU")) \in Nat
  BY <1>1, NearestHzType
<1>6. QED
  BY <1>1, <1>3, <1>4, <1>5, SetHzType

-----------------------------------------------------------------------------
(* The type invariant.                                                     *)

LEMMA ModuleNames == "CPU" \in Module /\ "GPU" \in Module /\ "MEM" \in Module
BY DEF Module

\* The initial state: clockManager::Initialize.
LEMMA InitType == Init => TypeOK
<1> SUFFICES ASSUME Init PROVE TypeOK
  OBVIOUS
<1>1. apm.hz \in [Module -> Nat] /\ apm.hz["GPU"] \in Nat
  BY ClockManagerAssumption, ModuleNames DEF Init
<1>2. hw \in Hardware
  BY <1>1 DEF Init, Hardware
<1>3. freq \in [FreqRow -> Nat]
  BY DEF Init
<1>4. NoPlan \in Plan
  BY DEF NoPlan, Plan
<1>5. /\ app \in Titles /\ charger \in Chargers /\ apm \in Apm /\ alarm \in Alarms
      /\ cfg \in DOMAIN Ini /\ stale \in BOOLEAN
      /\ ovr \in DOMAIN Override /\ ctxOvr \in DOMAIN Override
  BY ClockManagerAssumption DEF Init
<1>6. ctxApp \in Titles \cup {GlobalTitle} /\ ctxProfile \in Profile
  BY DEF Init, Profile
<1>7. /\ lock \in {"free", "tick"} /\ tpc \in TickPC /\ gpc \in GovernorPC
      /\ isBoost \in BOOLEAN /\ skip \in BOOLEAN /\ changed \in BOOLEAN
      /\ plan \in Plan
  BY <1>4 DEF Init, TickPC, GovernorPC
<1>8. govOn \in [{"CPU", "GPU"} -> BOOLEAN]
  BY DEF Init
<1>9. events \in 0..MaxEvents /\ quiet \in BOOLEAN
  <2>1. MaxEvents \in Nat
    BY ClockManagerAssumption
  <2>2. events \in 0..MaxEvents
    BY <2>1 DEF Init
  <2>3. quiet \in BOOLEAN
    BY DEF Init
  <2>4. QED
    BY <2>2, <2>3
<1>10. setBy \in [Module -> Setter]
  BY DEF Init, Setter
<1>11. QED
  BY <1>2, <1>3, <1>5, <1>6, <1>7, <1>8, <1>9, <1>10 DEF TypeOK

\* HandleSafetyFeatures may put the CPU and the GPU to stock.
LEMMA TickBeginType == TypeOK /\ TickBegin => TypeOK'
<1> SUFFICES ASSUME TypeOK, TickBegin PROVE TypeOK'
  OBVIOUS
<1>1. hw' \in Hardware
  <2>1. ResetToStock(hw, apm.hz, "CPU") \in Hardware
    BY ApmType, StockType, ModuleNames DEF TypeOK
  <2>2. StockClocks(hw) \in Hardware
    BY <2>1, ApmType, StockType, ModuleNames DEF StockClocks
  <2>3. QED
    BY <2>2 DEF TickBegin, TypeOK
<1>2. isBoost' \in BOOLEAN /\ skip' \in BOOLEAN
  BY ApmType DEF TickBegin, Throttles
<1>3. setBy' \in [Module -> Setter]
  BY DEF TickBegin, TypeOK, Setter
<1>4. QED
  BY <1>1, <1>2, <1>3 DEF TypeOK, TickBegin, TickPC, console, settings, context

\* The three steps of RefreshContext.
LEMMA RefreshIdsType == TypeOK /\ RefreshIds => TypeOK'
<1> SUFFICES ASSUME TypeOK, RefreshIds PROVE TypeOK'
  OBVIOUS
<1>1. hw' \in Hardware
  BY ApmType, StockType DEF RefreshIds, TypeOK
<1>2. CurrentProfile \in Profile
  BY ClockManagerAssumption DEF CurrentProfile, Profile, TypeOK
<1>3. QED
  BY <1>1, <1>2 DEF TypeOK, RefreshIds, TickPC, console, settings, governor

LEMMA RefreshVoltsType == TypeOK /\ RefreshVolts => TypeOK'
<1> SUFFICES ASSUME TypeOK, RefreshVolts PROVE TypeOK'
  OBVIOUS
<1>1. hw' \in Hardware
  <2>1. \A h \in HijackOutcomes(hw, 0) : h \in Hardware
    BY HijackType DEF TypeOK
  <2>2. \A h \in HijackOutcomes(hw, 0) : ResetToStock(h, apm.hz, "GPU") \in Hardware
    BY <2>1, ApmType, StockType, ModuleNames
  <2>3. QED
    BY <2>2 DEF RefreshVolts, TypeOK
<1>2. QED
  BY <1>1 DEF TypeOK, RefreshVolts, TickPC, console, settings, context, governor

LEMMA RefreshSyncType == TypeOK /\ RefreshSync => TypeOK'
<1> SUFFICES ASSUME TypeOK, RefreshSync PROVE TypeOK'
  OBVIOUS
<1>1. \A r \in FreqRow : Else(RowHz(hw, r), freq[r]) \in Nat
  <2>1. \A r \in FreqRow : RowHz(hw, r) \in Nat
    BY GetHzType, ModuleNames DEF RowHz, FreqRow, TypeOK
  <2>2. QED
    BY <2>1 DEF Else, TypeOK
<1>2. freq' \in [FreqRow -> Nat]
  BY <1>1 DEF RefreshSync
<1>3. changed' \in BOOLEAN /\ ctxOvr' \in DOMAIN Override
  BY DEF RefreshSync, Moved, TypeOK
<1>4. QED
  BY <1>2, <1>3 DEF TypeOK, RefreshSync, TickPC, console, settings, governor

LEMMA DecideType == TypeOK /\ Decide => TypeOK'
<1> SUFFICES ASSUME TypeOK, Decide PROVE TypeOK'
  OBVIOUS
<1>1. setBy' \in [Module -> Setter]
  BY DEF Decide, TypeOK, Setter
<1>2. QED
  BY <1>1 DEF TypeOK, Decide, TickPC, console, context

\* SetClocks: the CPU and the GPU, then the memory and its voltage floor.
LEMMA SetModuleType ==
    ASSUME TypeOK, NEW m \in {"CPU", "GPU"}, SetModule(m)
    PROVE  hw' \in Hardware /\ freq' \in [FreqRow -> Nat]
<1>1. m \in Module /\ hw \in Hardware /\ freq \in [FreqRow -> Nat]
  BY ModuleNames DEF TypeOK
<1>2. NearestHz(m, Target(m)) \in Nat
  BY <1>1, NearestHzType
<1>3. SetHz(hw, m, NearestHz(m, Target(m))) \in Hardware
  BY <1>1, <1>2, SetHzType
<1>4. ResetToStock(hw, apm.hz, m) \in Hardware
  BY <1>1, ApmType, StockType
<1>5. [freq EXCEPT ![m] = NearestHz(m, Target(m))] \in [FreqRow -> Nat]
  BY <1>1, <1>2 DEF FreqRow
<1>6. QED
  BY <1>1, <1>3, <1>4, <1>5 DEF SetModule, HandleFreqReset

LEMMA SetClocksCpuType == TypeOK /\ SetClocksCpu => TypeOK'
<1> SUFFICES ASSUME TypeOK, SetClocksCpu PROVE TypeOK'
  OBVIOUS
<1>1. hw' \in Hardware /\ freq' \in [FreqRow -> Nat]
  BY SetModuleType DEF SetClocksCpu
<1>2. QED
  BY <1>1 DEF TypeOK, SetClocksCpu, TickPC, console, settings, governor

LEMMA SetClocksGpuType == TypeOK /\ SetClocksGpu => TypeOK'
<1> SUFFICES ASSUME TypeOK, SetClocksGpu PROVE TypeOK'
  OBVIOUS
<1>1. hw' \in Hardware /\ freq' \in [FreqRow -> Nat]
  BY SetModuleType DEF SetClocksGpu
<1>2. QED
  BY <1>1 DEF TypeOK, SetClocksGpu, TickPC, console, settings, governor

LEMMA SetClocksMemType == TypeOK /\ SetClocksMem => TypeOK'
<1> SUFFICES ASSUME TypeOK, SetClocksMem PROVE TypeOK'
  OBVIOUS
<1> DEFINE p == [target |-> Target("MEM"),
                 nearest |-> NearestHz("MEM", Target("MEM")),
                 old |-> GetHz(hw, "MEM")]
<1>1. /\ hw \in Hardware /\ plan \in Plan
      /\ ResetToStock(hw, apm.hz, "MEM") \in Hardware
  BY ApmType, StockType, ModuleNames DEF TypeOK
<1>2. p \in Plan /\ p.target = Target("MEM") /\ Target("MEM") \in Nat
  BY TargetType, NearestHzType, GetHzType, ModuleNames DEF TypeOK, Plan
<1>3. hw' \in Hardware
  BY <1>1, <1>2, ApplyGpuDvfsType DEF SetClocksMem
<1>4. plan' \in Plan /\ tpc' \in TickPC
  BY <1>1, <1>2 DEF SetClocksMem, TickPC
<1>5. QED
  BY <1>3, <1>4 DEF TypeOK, SetClocksMem, console, settings, context, governor

LEMMA SetClocksMemSetType == TypeOK /\ SetClocksMemSet => TypeOK'
<1> SUFFICES ASSUME TypeOK, SetClocksMemSet PROVE TypeOK'
  OBVIOUS
<1>1. plan.nearest \in Nat
  BY DEF TypeOK, Plan
<1>2. hw' \in Hardware
  BY <1>1, SetHzType, ModuleNames DEF SetClocksMemSet, TypeOK
<1>3. freq' \in [FreqRow -> Nat]
  BY <1>1, ModuleNames DEF SetClocksMemSet, TypeOK, FreqRow
<1>4. QED
  BY <1>2, <1>3 DEF TypeOK, SetClocksMemSet, TickPC, console, settings, governor

LEMMA SetClocksMemDownType == TypeOK /\ SetClocksMemDown => TypeOK'
<1> SUFFICES ASSUME TypeOK, SetClocksMemDown PROVE TypeOK'
  OBVIOUS
<1>1. hw \in Hardware /\ plan.target \in Nat
  BY DEF TypeOK, Plan
<1>2. hw' \in Hardware
  BY <1>1, ApplyGpuDvfsType DEF SetClocksMemDown
<1>3. plan' \in Plan
  BY DEF SetClocksMemDown, NoPlan, Plan
<1>4. QED
  BY <1>2, <1>3 DEF TypeOK, SetClocksMemDown, TickPC, console, settings, context, governor

\* DVFSReset.
LEMMA DvfsResetType == TypeOK /\ DvfsReset => TypeOK'
<1> SUFFICES ASSUME TypeOK, DvfsReset PROVE TypeOK'
  OBVIOUS
<1>1. hw' \in Hardware
  <2>1. \A h \in HijackOutcomes(hw, 0) : h \in Hardware
    BY HijackType DEF TypeOK
  <2>2. \A h \in HijackOutcomes(hw, 0) : ResetToStock(h, apm.hz, "GPU") \in Hardware
    BY <2>1, ApmType, StockType, ModuleNames
  <2>3. \A h \in Hardware : GpuAgain(h) \in Hardware
    BY NearestHzType, SetHzType, ModuleNames DEF GpuAgain
  <2>4. QED
    BY <2>2, <2>3 DEF DvfsReset, TypeOK
<1>2. QED
  BY <1>1 DEF TypeOK, DvfsReset, TickPC, console, settings, context, governor

LEMMA HandleGovernorType == TypeOK /\ HandleGovernor => TypeOK'
<1> SUFFICES ASSUME TypeOK, HandleGovernor PROVE TypeOK'
  OBVIOUS
<1>1. hw' \in Hardware
  <2>1. \A h \in Hardware, m \in {"CPU", "GPU"} : ResetToStock(h, apm.hz, m) \in Hardware
    BY ApmType, StockType, ModuleNames
  <2>2. QED
    BY <2>1 DEF HandleGovernor, TypeOK
<1>2. govOn' \in [{"CPU", "GPU"} -> BOOLEAN]
  BY DEF HandleGovernor
<1>3. setBy' \in [Module -> Setter]
  BY DEF HandleGovernor, TypeOK, Setter
<1>4. QED
  BY <1>1, <1>2, <1>3 DEF TypeOK, HandleGovernor, TickPC, console, settings, context

LEMMA TickType == TypeOK /\ Tick => TypeOK'
BY TickBeginType, RefreshIdsType, RefreshVoltsType, RefreshSyncType, DecideType,
   SetClocksCpuType, SetClocksGpuType, SetClocksMemType, SetClocksMemSetType,
   SetClocksMemDownType, DvfsResetType, HandleGovernorType
   DEF Tick

\* The governor's clock is a clock of the table, or the configured minimum.
LEMMA GovernorSetsType ==
    ASSUME TypeOK, NEW m \in Module, NEW f \in Nat, GovernorSets(m, f)
    PROVE  /\ hw' \in Hardware /\ freq' \in [FreqRow -> Nat]
           /\ setBy' \in [Module -> Setter]
<1>1. SetHz(hw, m, f) \in Hardware
  BY SetHzType DEF TypeOK
<1>2. [freq EXCEPT ![m] = f] \in [FreqRow -> Nat]
  BY DEF TypeOK, FreqRow
<1>3. [setBy EXCEPT ![m] = "governor"] \in [Module -> Setter]
  BY DEF TypeOK, Setter
<1>4. QED
  BY <1>1, <1>2, <1>3 DEF GovernorSets, TypeOK

LEMMA GovernorChoiceType ==
    ASSUME TypeOK, NEW m \in Module, NEW load \in Loads
    PROVE  /\ GovernorChoice(m, load) \in Nat
           /\ GovernorChoice(m, load) \in Entries(Table[m])
<1>1. IsTable(Table[m]) /\ load \in Nat
  BY ClockManagerAssumption
<1>2. QED
  BY <1>1, TargetType, CapType, GovernorFacts DEF GovernorChoice

LEMMA GovernorThreadType == TypeOK /\ GovernorThread => TypeOK'
<1> SUFFICES ASSUME TypeOK, GovernorThread PROVE TypeOK'
  OBVIOUS
<1>1. CASE GovernorPoll
  BY <1>1 DEF TypeOK, GovernorPoll, GovernorPC, console, settings, context, tick
<1>2. CASE GovernorBoost
  BY <1>2 DEF TypeOK, GovernorBoost, GovernorPC, console, settings, context, tick
<1>3. CASE GovernorCpu
  <2>1. /\ hw' \in Hardware /\ freq' \in [FreqRow -> Nat]
        /\ setBy' \in [Module -> Setter]
    <3>1. CASE GovernorHolds
      BY <3>1 DEF GovernorHolds, TypeOK
    <3>2. CASE ~GovernorHolds
      <4>1. PICK load \in Loads, minHz \in {1, GovernorMin} :
               LET f == GovernorChoice("CPU", load)
               IN  GovernorSets("CPU", IF f < minHz THEN minHz ELSE f)
        BY <1>3, <3>2 DEF GovernorCpu
      <4> DEFINE f == GovernorChoice("CPU", load)
                 g == IF f < minHz THEN minHz ELSE f
      <4>2. g \in Nat
        BY GovernorChoiceType, ModuleNames, ClockManagerAssumption
      <4>3. GovernorSets("CPU", g)
        BY <4>1
      <4> HIDE DEF g
      <4>4. QED
        BY <4>2, <4>3, GovernorSetsType, ModuleNames
    <3>3. QED
      BY <3>1, <3>2
  <2>2. QED
    BY <1>3, <2>1 DEF TypeOK, GovernorCpu, GovernorPC, console, settings, tick
<1>4. CASE GovernorGpuCheck
  BY <1>4 DEF TypeOK, GovernorGpuCheck, GovernorPC, console, settings, context, tick
<1>5. CASE GovernorGpu
  <2>1. /\ hw' \in Hardware /\ freq' \in [FreqRow -> Nat]
        /\ setBy' \in [Module -> Setter]
    BY <1>5, GovernorChoiceType, GovernorSetsType, ModuleNames
    DEF GovernorGpu, GovernorHolds, TypeOK
  <2>2. QED
    BY <1>5, <2>1 DEF TypeOK, GovernorGpu, GovernorPC, console, settings, tick
<1>6. QED
  BY <1>1, <1>2, <1>3, <1>4, <1>5 DEF GovernorThread

LEMMA EnvironmentType == TypeOK /\ Environment => TypeOK'
<1> SUFFICES ASSUME TypeOK, Environment PROVE TypeOK'
  OBVIOUS
<1>1. events' \in 0..MaxEvents /\ quiet' \in BOOLEAN
  <2>1. Event
    BY DEF Environment, ApmChange, TitleChange, ChargerChange, AlarmChange,
           SetOverride, SetConfig
  <2>2. MaxEvents \in Nat /\ events \in 0..MaxEvents
    BY ClockManagerAssumption DEF TypeOK
  <2>3. events' \in 0..MaxEvents
    BY <2>1, <2>2 DEF Event
  <2>4. quiet' \in BOOLEAN
    BY <2>1 DEF Event
  <2>5. QED
    BY <2>3, <2>4
<1>2. CASE ApmChange
  <2>1. apm' \in Apm /\ hw' \in Hardware
    <3>1. PICK a \in Apm : apm' = a /\ hw' = PcvApply(hw, a.hz)
      BY <1>2 DEF ApmChange
    <3>2. a.hz \in [Module -> Nat] /\ hw \in Hardware
      BY ClockManagerAssumption DEF TypeOK
    <3>3. QED
      BY <3>1, <3>2, StockType
  <2>2. QED
    BY <1>1, <1>2, <2>1 DEF ApmChange, TypeOK, settings, context, tick, governor
<1>3. CASE TitleChange
  BY <1>1, <1>3 DEF TitleChange, TypeOK, settings, context, tick, governor
<1>4. CASE ChargerChange
  BY <1>1, <1>4 DEF ChargerChange, TypeOK, settings, context, tick, governor
<1>5. CASE AlarmChange
  BY <1>1, <1>5 DEF AlarmChange, TypeOK, settings, context, tick, governor
<1>6. CASE SetOverride
  BY <1>1, <1>6 DEF SetOverride, TypeOK, console, context, tick, governor
<1>7. CASE SetConfig
  BY <1>1, <1>7 DEF SetConfig, TypeOK, console, context, tick, governor
<1>8. QED
  BY <1>2, <1>3, <1>4, <1>5, <1>6, <1>7 DEF Environment

\* No step of the tick, the governor or the console leaves the types.
LEMMA NextType == TypeOK /\ [Next]_vars => TypeOK'
<1> SUFFICES ASSUME TypeOK, [Next]_vars PROVE TypeOK'
  OBVIOUS
<1>1. CASE Next
  BY <1>1, TickType, GovernorThreadType, EnvironmentType DEF Next
<1>2. CASE UNCHANGED vars
  BY <1>2 DEF TypeOK, vars, console, settings, context, tick, governor
<1>3. QED
  BY <1>1, <1>2

\* The type invariant, for all tables, settings and events: every clock the
\* sysmodule sets, and every voltage floor it asks for, is a natural number,
\* the u32 arithmetic of ApplyGpuDvfs included.
THEOREM TypeCorrect == Spec => []TypeOK
<1>1. Init => TypeOK
  BY InitType
<1>2. TypeOK /\ [Next]_vars => TypeOK'
  BY NextType
<1>3. QED
  BY <1>1, <1>2, PTL DEF Spec

-----------------------------------------------------------------------------
(***************************************************************************)
(* The RAM never runs above 1600 MHz on a GPU rail that is too low for it: *)
(* MemFloor, wherever the voltage table can always be written.             *)
(***************************************************************************)
Inv == TypeOK /\ FloorInv

-----------------------------------------------------------------------------
(* The voltage floor as a function of the clock.                           *)

\* A floor depends on the MHz only, and there is none up to 1600 MHz.
LEMMA DvfsVminByMHz ==
    ASSUME NEW f \in Nat, NEW g \in Nat, f \div 1000 = g \div 1000
    PROVE  DvfsVmin(f) = DvfsVmin(g)
BY DEF DvfsVmin

LEMMA NoFloorBelow ==
    ASSUME NEW f \in Nat, f \div 1000 <= 1600
    PROVE  DvfsVmin(f) = 0
<1>1. GpuVmin(f \div 1000) = 0
  BY DEF GpuVmin
<1>2. QED
  BY <1>1 DEF DvfsVmin

\* What SetHz does to the RAM clock and the floors when it sets another clock.
KeepsMem(h, k) ==
    /\ k.rate["MEM"] = h.rate["MEM"]
    /\ k.vmin = h.vmin
    /\ k.gpuVmin \in {h.gpuVmin, h.vmin}

LEMMA SetHzKeepsMem ==
    ASSUME NEW h \in Hardware, NEW m \in {"CPU", "GPU"}, NEW f
    PROVE  KeepsMem(h, SetHz(h, m, f))
BY DEF SetHz, SetGpu, SetCpuOrMem, KeepsMem, Hardware, Module

LEMMA SetGpuReadsFloor ==
    ASSUME NEW h \in Hardware, NEW f
    PROVE  /\ SetHz(h, "GPU", f).gpuVmin = h.vmin
           /\ SetHz(h, "GPU", f).vmin = h.vmin
           /\ SetHz(h, "GPU", f).rate["MEM"] = h.rate["MEM"]
BY DEF SetHz, SetGpu, Hardware, Module

LEMMA SetMemKeepsFloor ==
    ASSUME NEW h \in Hardware, NEW f
    PROVE  /\ SetHz(h, "MEM", f).gpuVmin = h.gpuVmin
           /\ SetHz(h, "MEM", f).vmin = h.vmin
           /\ SetHz(h, "MEM", f).rate["MEM"] = f
BY DEF SetHz, SetCpuOrMem, Hardware, Module

\* A clock of another module, set by either thread at any point of a tick,
\* leaves the invariant as it is.
LEMMA KeepsMemInv ==
    ASSUME Inv, TypeOK', KeepsMem(hw, hw'), UNCHANGED <<tpc, plan>>
    PROVE  FloorInv'
<1>1. ASSUME NEW f, FloorFor(f)
      PROVE  FloorFor(f)'
  BY <1>1 DEF FloorFor, KeepsMem, DvfsVmin
<1>2. QED
  BY <1>1 DEF Inv, FloorInv, KeepsMem, PlanRounds, FloorFor, DvfsVmin

\* The same for a step of the Tick thread to a point where it holds no plan.
QuietPC == TickPC \ {"volts", "memset", "memdown", "dvfsreset"}

LEMMA KeepsMemQuiet ==
    ASSUME Inv, KeepsMem(hw, hw'), tpc' \in QuietPC
    PROVE  FloorInv'
<1>1. ASSUME NEW f, FloorFor(f)
      PROVE  FloorFor(f)'
  BY <1>1 DEF FloorFor, KeepsMem, DvfsVmin
<1>2. hw'.rate["MEM"] = hw.rate["MEM"]
  BY DEF KeepsMem
<1>3. QED
  BY <1>1, <1>2 DEF Inv, FloorInv, QuietPC, FloorFor, DvfsVmin

LEMMA KeepsMemRefl == \A h : KeepsMem(h, h)
BY DEF KeepsMem

LEMMA KeepsMemTrans ==
    ASSUME NEW h, NEW k, NEW l, KeepsMem(h, k), KeepsMem(k, l)
    PROVE  KeepsMem(h, l)
BY DEF KeepsMem

\* Resetting the CPU or the GPU does not touch the RAM.
LEMMA ResetKeepsMem ==
    ASSUME NEW h \in Hardware, NEW m \in {"CPU", "GPU"}, NEW stock
    PROVE  KeepsMem(h, ResetToStock(h, stock, m))
BY SetHzKeepsMem DEF ResetToStock

-----------------------------------------------------------------------------
(* The steps of the tick.                                                  *)

LEMMA TickBeginFloor == Inv /\ TickBegin => FloorInv'
<1> SUFFICES ASSUME Inv, TickBegin PROVE FloorInv'
  OBVIOUS
<1>1. hw \in Hardware /\ ResetToStock(hw, apm.hz, "CPU") \in Hardware
  BY ApmType, StockType, ModuleNames DEF Inv, TypeOK
<1>2. KeepsMem(hw, StockClocks(hw))
  BY <1>1, ResetKeepsMem, KeepsMemTrans DEF StockClocks
<1>3. KeepsMem(hw, hw') /\ tpc' = "ids"
  BY <1>2, KeepsMemRefl DEF TickBegin
<1>4. QED
  BY <1>3, KeepsMemQuiet DEF QuietPC, TickPC

\* A new title or profile puts the RAM back to stock, which needs no floor.
LEMMA RefreshIdsFloor == DvfsSetup /\ Inv /\ RefreshIds => FloorInv'
<1> SUFFICES ASSUME DvfsSetup, Inv, RefreshIds PROVE FloorInv'
  OBVIOUS
<1>1. CASE app = ctxApp /\ CurrentProfile = ctxProfile
  <2>1. KeepsMem(hw, hw') /\ tpc' = "sync"
    BY <1>1, KeepsMemRefl DEF RefreshIds
  <2>2. QED
    BY <2>1, KeepsMemQuiet DEF QuietPC, TickPC
<1>2. CASE ~(app = ctxApp /\ CurrentProfile = ctxProfile)
  <2> DEFINE k == ResetToStock(ResetToStock(hw, apm.hz, "CPU"), apm.hz, "GPU")
  <2>1. hw' = SetHz(k, "MEM", apm.hz["MEM"]) /\ tpc' = "volts"
    BY <1>2 DEF RefreshIds, ResetAllToStock, ResetToStock
  <2>2. k \in Hardware
    <3>1. ResetToStock(hw, apm.hz, "CPU") \in Hardware
      BY ApmType, StockType, ModuleNames DEF Inv, TypeOK
    <3>2. QED
      BY <3>1, ApmType, StockType, ModuleNames DEF Inv
  <2> HIDE DEF k
  <2>3. hw'.rate["MEM"] = apm.hz["MEM"]
    BY <2>1, <2>2, SetMemKeepsFloor
  <2>4. apm.hz["MEM"] \in Nat /\ apm.hz["MEM"] <= 1600000
    BY ApmType, ModuleNames DEF Inv, TypeOK, DvfsSetup
  <2>5. QED
    BY <2>1, <2>3, <2>4 DEF FloorInv
<1>3. QED
  BY <1>1, <1>2

\* ... so the floor may be dropped.
LEMMA RefreshVoltsFloor == Inv /\ RefreshVolts => FloorInv'
<1> SUFFICES ASSUME Inv, RefreshVolts PROVE FloorInv'
  OBVIOUS
<1>1. hw.rate["MEM"] <= 1600000 /\ hw.rate["MEM"] \in Nat
  BY ModuleNames DEF Inv, FloorInv, RefreshVolts, TypeOK, Hardware
<1>2. \A h \in HijackOutcomes(hw, 0) :
          h \in Hardware /\ h.rate["MEM"] = hw.rate["MEM"]
  BY HijackType DEF HijackOutcomes, Hardware, Inv, TypeOK
<1>3. \A h \in HijackOutcomes(hw, 0) :
          ResetToStock(h, apm.hz, "GPU").rate["MEM"] = hw.rate["MEM"]
  BY <1>2, ResetKeepsMem DEF KeepsMem
<1>4. hw'.rate["MEM"] = hw.rate["MEM"] /\ tpc' = "sync"
  BY <1>3 DEF RefreshVolts
<1>5. QED
  BY <1>1, <1>4 DEF FloorInv

LEMMA SetModuleFloor ==
    ASSUME Inv, NEW m \in {"CPU", "GPU"}, SetModule(m)
    PROVE  KeepsMem(hw, hw')
<1>1. hw \in Hardware
  BY DEF Inv, TypeOK
<1>2. QED
  BY <1>1, SetHzKeepsMem, ResetKeepsMem, KeepsMemRefl DEF SetModule, HandleFreqReset

LEMMA QuietStepsFloor ==
    ASSUME Inv, RefreshSync \/ Decide \/ SetClocksCpu \/ SetClocksGpu
    PROVE  FloorInv'
<1>1. tpc' \in QuietPC
  BY DEF RefreshSync, Decide, SetClocksCpu, SetClocksGpu, QuietPC, TickPC
<1>2. KeepsMem(hw, hw')
  BY SetModuleFloor, KeepsMemRefl
  DEF RefreshSync, Decide, SetClocksCpu, SetClocksGpu
<1>3. QED
  BY <1>1, <1>2, KeepsMemQuiet

\* HandleGovernor may put the CPU and the GPU to stock.
LEMMA HandleGovernorFloor == Inv /\ HandleGovernor => FloorInv'
<1> SUFFICES ASSUME Inv, HandleGovernor PROVE FloorInv'
  OBVIOUS
<1> DEFINE k == ResetToStock(hw, apm.hz, "CPU")
<1>1. hw \in Hardware /\ k \in Hardware
  BY ApmType, StockType, ModuleNames DEF Inv, TypeOK
<1>2. KeepsMem(hw, k) /\ KeepsMem(hw, hw)
  BY <1>1, ResetKeepsMem, KeepsMemRefl
<1>3. \E h \in {hw, k} : hw' \in {h, ResetToStock(h, apm.hz, "GPU")}
  BY DEF HandleGovernor
<1>4. \A h \in {hw, k} : KeepsMem(h, ResetToStock(h, apm.hz, "GPU")) /\ KeepsMem(h, h)
  BY <1>1, ResetKeepsMem, KeepsMemRefl
<1> HIDE DEF k
<1>5. KeepsMem(hw, hw')
  BY <1>2, <1>3, <1>4, KeepsMemTrans
<1>6. tpc' = "idle"
  BY DEF HandleGovernor
<1>7. QED
  BY <1>5, <1>6, KeepsMemQuiet DEF QuietPC, TickPC

-----------------------------------------------------------------------------
(* The RAM clock itself.                                                   *)

\* What ApplyGpuDvfs leaves when the table can be written: both floors at what
\* the target asks for, and the RAM clock as it was.
LEMMA ApplyGpuDvfsSets ==
    ASSUME DvfsSetup, TypeOK, NEW f \in Nat, ApplyGpuDvfs(f)
    PROVE  /\ hw'.vmin = DvfsVmin(f) /\ hw'.gpuVmin = DvfsVmin(f)
           /\ hw'.rate["MEM"] = hw.rate["MEM"]
<1>1. hw \in Hardware /\ DvfsVmin(f) \in Nat
  BY DvfsVminType DEF TypeOK
<1>2. PICK h \in HijackOutcomes(hw, DvfsVmin(f)) :
              hw' = SetHz(h, "GPU", NearestHz("GPU", GetHz(h, "GPU")))
  BY DEF ApplyGpuDvfs
<1>3. h \in Hardware
  BY <1>1, HijackType
<1>4. h.vmin = DvfsVmin(f) /\ h.rate["MEM"] = hw.rate["MEM"]
  BY <1>1, SMT DEF HijackOutcomes, DvfsSetup, Hardware
<1>5. QED
  BY <1>2, <1>3, <1>4, SetGpuReadsFloor

\* A floor that is high enough for the clock the RAM runs at is high enough for
\* a lower one, and for another of the same MHz.
LEMMA FloorOrder ==
    ASSUME DvfsSetup, NEW f \in Nat, NEW g \in Nat, NEW t \in Nat,
           f \in Entries(Table["MEM"]), g \in Entries(Table["MEM"]),
           g \div 1000 = t \div 1000, t <= f
    PROVE  DvfsVmin(g) <= DvfsVmin(f)
<1>1. CASE g <= f
  BY <1>1 DEF DvfsSetup
<1>2. CASE ~(g <= f)
  <2>1. g \div 1000 = f \div 1000
    BY <1>2
  <2>2. DvfsVmin(g) = DvfsVmin(f) /\ DvfsVmin(f) \in Nat
    BY <2>1, DvfsVminByMHz, DvfsVminType
  <2>3. QED
    BY <2>2
<1>3. QED
  BY <1>1, <1>2

LEMMA FloorOrderUp ==
    ASSUME DvfsSetup, NEW f \in Nat, NEW g \in Nat, NEW t \in Nat,
           f \in Entries(Table["MEM"]), g \in Entries(Table["MEM"]),
           g \div 1000 = t \div 1000, f <= t
    PROVE  DvfsVmin(f) <= DvfsVmin(g)
<1>1. CASE f <= g
  BY <1>1 DEF DvfsSetup
<1>2. CASE ~(f <= g)
  <2>1. g \div 1000 = f \div 1000
    BY <1>2
  <2>2. DvfsVmin(g) = DvfsVmin(f) /\ DvfsVmin(f) \in Nat
    BY <2>1, DvfsVminByMHz, DvfsVminType
  <2>3. QED
    BY <2>2
<1>3. QED
  BY <1>1, <1>2

\* A RAM target that is set is one of MemTargets, so its table entry has its
\* MHz.
LEMMA MemTargetRounds ==
    ASSUME DvfsSetup, TypeOK, Target("MEM") # 0
    PROVE  /\ NearestHz("MEM", Target("MEM")) \in Entries(Table["MEM"])
           /\ NearestHz("MEM", Target("MEM")) \div 1000 = Target("MEM") \div 1000
<1>1. ASSUME NEW t \in Titles0, AutoHz(t, ctxProfile, "MEM") # 0
      PROVE  AutoHz(t, ctxProfile, "MEM") \in MemTargets
  <2>1. cfg \in DOMAIN Ini /\ ctxProfile \in Profile
    BY DEF TypeOK
  <2>2. \E q \in Profile :
            AutoHz(t, ctxProfile, "MEM") = Ini[cfg].auto[t][q].hz["MEM"]
    BY <2>1 DEF AutoHz, Else, Profile
  <2>3. QED
    BY <1>1, <2>1, <2>2 DEF MemTargets
<1>2. ctxApp \in Titles0 /\ GlobalTitle \in Titles0 /\ ctxOvr \in DOMAIN Override
  BY DEF TypeOK, Titles0
<1>3. Target("MEM") \in MemTargets
  <2>1. CASE Override[ctxOvr].hz["MEM"] # 0
    BY <1>2, <2>1 DEF Target, Else, MemTargets
  <2>2. CASE Override[ctxOvr].hz["MEM"] = 0
    <3>1. \E t \in Titles0 : Target("MEM") = AutoHz(t, ctxProfile, "MEM")
      BY <1>2, <2>2 DEF Target, Else
    <3>2. QED
      BY <1>1, <3>1
  <2>3. QED
    BY <2>1, <2>2
<1>4. Cap("MEM") \in {NoCap, Uncapped}
  BY DEF Cap, MaxAllowed
<1>5. QED
  BY <1>3, <1>4, NearestHzType, ModuleNames DEF DvfsSetup, NearestHz

\* A clock of the same MHz as one that is not above 1600 MHz needs no floor.
LEMMA SameMHzBelow ==
    ASSUME NEW f \in Nat, f <= 1600000, NEW t \in Nat, t <= f,
           NEW g \in Nat, g \div 1000 = t \div 1000
    PROVE  g \div 1000 <= 1600
BY SMT

LEMMA SetClocksMemFloor == DvfsSetup /\ Inv /\ SetClocksMem => FloorInv'
<1> SUFFICES ASSUME DvfsSetup, Inv, SetClocksMem PROVE FloorInv'
  OBVIOUS
<1> DEFINE target == Target("MEM")
           nearest == NearestHz("MEM", target)
           rate == hw.rate["MEM"]
<1>1. /\ TypeOK /\ hw \in Hardware /\ rate \in Nat /\ GetHz(hw, "MEM") = rate
      /\ hw.vmin \in Nat /\ hw.gpuVmin \in Nat
  BY ModuleNames DEF Inv, TypeOK, Hardware, GetHz
<1>2. target \in Nat /\ nearest \in Nat
  BY <1>1, TargetType, NearestHzType, ModuleNames
<1>3. Ini[cfg].hijack
  BY <1>1 DEF TypeOK, DvfsSetup
<1>4. CASE target # 0 /\ nearest = freq["MEM"]
  <2>1. KeepsMem(hw, hw') /\ tpc' = "gov"
    BY <1>4, KeepsMemRefl DEF SetClocksMem
  <2>2. QED
    BY <2>1, KeepsMemQuiet DEF QuietPC, TickPC
<1>5. CASE target # 0 /\ nearest # freq["MEM"]
  <2>1. /\ tpc' = "memset"
        /\ plan'.target = target /\ plan'.nearest = nearest
        /\ IF target > rate THEN ApplyGpuDvfs(target) ELSE hw' = hw
    BY <1>1, <1>3, <1>5 DEF SetClocksMem
  <2>2. nearest \in Entries(Table["MEM"]) /\ nearest \div 1000 = target \div 1000
    BY <1>1, <1>5, MemTargetRounds
  <2>3. rate > 1600000 => rate \in Entries(Table["MEM"]) /\ FloorFor(rate)
    BY DEF Inv, FloorInv
  <2>4. DvfsVmin(nearest) = DvfsVmin(target)
        /\ DvfsVmin(nearest) \in Nat /\ DvfsVmin(rate) \in Nat
    BY <1>1, <1>2, <2>2, DvfsVminByMHz, DvfsVminType
  <2> HIDE DEF target, nearest
  <2>5. /\ hw'.rate["MEM"] = rate
        /\ hw'.vmin >= DvfsVmin(nearest) /\ hw'.gpuVmin >= DvfsVmin(nearest)
        /\ rate > 1600000 =>
              hw'.vmin >= DvfsVmin(rate) /\ hw'.gpuVmin >= DvfsVmin(rate)
    <3> DEFINE high == rate > 1600000
    <3>1. /\ high => rate \in Entries(Table["MEM"])
          /\ high => hw.vmin >= DvfsVmin(rate) /\ hw.gpuVmin >= DvfsVmin(rate)
      BY <2>3 DEF FloorFor
    <3>2. /\ rate \in Nat /\ hw.vmin \in Nat /\ hw.gpuVmin \in Nat
          /\ hw.rate["MEM"] = rate
      BY <1>1
    <3>3. ~high /\ target <= rate => DvfsVmin(nearest) = 0
      BY <1>2, <2>2, <3>2, NoFloorBelow, SameMHzBelow
    <3>4. IF target > rate THEN ApplyGpuDvfs(target) ELSE hw' = hw
      BY <2>1
    <3> HIDE DEF high, rate
    <3>5. CASE target > rate
      <4>1. /\ hw'.vmin = DvfsVmin(nearest) /\ hw'.gpuVmin = DvfsVmin(nearest)
            /\ hw'.rate["MEM"] = rate
        BY <1>1, <1>2, <2>4, <3>2, <3>4, <3>5, ApplyGpuDvfsSets
      <4>2. high => DvfsVmin(rate) <= DvfsVmin(nearest)
        <5>1. rate <= target
          BY <1>2, <3>2, <3>5
        <5>2. QED
          BY <1>2, <2>2, <3>1, <3>2, <5>1, FloorOrderUp
      <4>3. high => /\ hw'.vmin >= DvfsVmin(nearest) /\ hw'.gpuVmin >= DvfsVmin(nearest)
                    /\ hw'.vmin >= DvfsVmin(rate) /\ hw'.gpuVmin >= DvfsVmin(rate)
        BY <2>4, <4>1, <4>2
      <4>4. hw'.vmin >= DvfsVmin(nearest) /\ hw'.gpuVmin >= DvfsVmin(nearest)
        BY <2>4, <4>1
      <4>5. QED
        BY <4>1, <4>3, <4>4 DEF high
    <3>6. CASE ~(target > rate)
      <4>1. hw' = hw /\ target <= rate
        BY <1>2, <3>2, <3>4, <3>6
      <4>2. high => DvfsVmin(nearest) <= DvfsVmin(rate)
        BY <1>2, <2>2, <3>1, <3>2, <4>1, FloorOrder
      <4>3. high => hw.vmin >= DvfsVmin(nearest) /\ hw.gpuVmin >= DvfsVmin(nearest)
        BY <2>4, <3>1, <3>2, <4>2
      <4>4. ~high => hw.vmin >= DvfsVmin(nearest) /\ hw.gpuVmin >= DvfsVmin(nearest)
        BY <3>2, <3>3, <4>1
      <4>5. QED
        BY <3>1, <3>2, <4>1, <4>3, <4>4 DEF high
    <3>7. QED
      BY <3>5, <3>6
  <2>6. QED
    BY <2>1, <2>2, <2>3, <2>5 DEF FloorInv, PlanRounds, FloorFor, DvfsVmin
<1>6. CASE target = 0
  <2>1. hw' = SetHz(hw, "MEM", apm.hz["MEM"]) /\ tpc' = "dvfsreset"
    BY <1>6 DEF SetClocksMem, ResetToStock
  <2>2. hw'.rate["MEM"] = apm.hz["MEM"]
    BY <1>1, <2>1, SetMemKeepsFloor
  <2>3. apm.hz["MEM"] \in Nat /\ apm.hz["MEM"] <= 1600000
    BY <1>1, ApmType, ModuleNames DEF TypeOK, DvfsSetup
  <2>4. QED
    BY <2>1, <2>2, <2>3 DEF FloorInv
<1>7. QED
  BY <1>4, <1>5, <1>6

LEMMA SetClocksMemSetFloor == Inv /\ SetClocksMemSet => FloorInv'
<1> SUFFICES ASSUME Inv, SetClocksMemSet PROVE FloorInv'
  OBVIOUS
<1>1. hw \in Hardware /\ tpc = "memset" /\ tpc' = "memdown" /\ plan' = plan
  BY DEF Inv, TypeOK, SetClocksMemSet
<1>2. /\ hw'.rate["MEM"] = plan.nearest
      /\ hw'.vmin = hw.vmin /\ hw'.gpuVmin = hw.gpuVmin
  BY <1>1, SetMemKeepsFloor DEF SetClocksMemSet
<1>3. PlanRounds /\ FloorFor(plan.nearest)
  BY <1>1 DEF Inv, FloorInv
<1>4. PlanRounds' /\ FloorFor(plan.nearest)'
  BY <1>1, <1>2, <1>3 DEF PlanRounds, FloorFor, DvfsVmin
<1>5. plan'.nearest \in Entries(Table["MEM"]) /\ hw'.rate["MEM"] = plan'.nearest
  BY <1>1, <1>2, <1>3 DEF PlanRounds
<1> HIDE DEF PlanRounds, FloorFor
<1>6. QED
  BY <1>1, <1>4, <1>5 DEF FloorInv

LEMMA SetClocksMemDownFloor == DvfsSetup /\ Inv /\ SetClocksMemDown => FloorInv'
<1> SUFFICES ASSUME DvfsSetup, Inv, SetClocksMemDown PROVE FloorInv'
  OBVIOUS
<1> DEFINE rate == hw.rate["MEM"]
           high == rate > 1600000
<1>1. /\ TypeOK /\ tpc = "memdown" /\ tpc' = "gov" /\ rate \in Nat
      /\ plan.target \in Nat /\ plan.nearest \in Nat
  BY ModuleNames DEF Inv, TypeOK, Hardware, Plan, SetClocksMemDown
<1>2. CASE ~(plan.target < plan.old)
  <2>1. KeepsMem(hw, hw')
    BY <1>2, KeepsMemRefl DEF SetClocksMemDown
  <2>2. QED
    BY <1>1, <2>1, KeepsMemQuiet DEF QuietPC, TickPC
<1>3. CASE plan.target < plan.old
  <2>1. ApplyGpuDvfs(plan.target)
    BY <1>1, <1>3 DEF SetClocksMemDown, TypeOK, DvfsSetup
  <2>2. /\ hw'.vmin = DvfsVmin(plan.target) /\ hw'.gpuVmin = DvfsVmin(plan.target)
        /\ hw'.rate["MEM"] = rate
    BY <1>1, <2>1, ApplyGpuDvfsSets
  <2>3. /\ plan.nearest \in Entries(Table["MEM"])
        /\ DvfsVmin(plan.nearest) = DvfsVmin(plan.target)
        /\ DvfsVmin(plan.target) \in Nat
    BY <1>1, DvfsVminByMHz, DvfsVminType DEF Inv, FloorInv, PlanRounds
  <2>4. high => rate = plan.nearest
    BY <1>1 DEF Inv, FloorInv
  <2> HIDE DEF high
  <2>5. high => /\ hw'.rate["MEM"] \in Entries(Table["MEM"])
                /\ hw'.vmin >= DvfsVmin(hw'.rate["MEM"])
                /\ hw'.gpuVmin >= DvfsVmin(hw'.rate["MEM"])
    <3> HIDE DEF rate
    <3>1. QED
      BY <2>2, <2>3, <2>4
  <2>6. high => (hw'.rate["MEM"] \in Entries(Table["MEM"]) /\ FloorFor(hw.rate["MEM"])')
    BY <2>5 DEF FloorFor, DvfsVmin
  <2>7. QED
    BY <1>1, <2>2, <2>6 DEF FloorInv, high
<1>4. QED
  BY <1>2, <1>3

\* DVFSReset drops the floor when the RAM is back at stock.
LEMMA DvfsResetFloor == Inv /\ DvfsReset => FloorInv'
<1> SUFFICES ASSUME Inv, DvfsReset PROVE FloorInv'
  OBVIOUS
<1>1. /\ hw.rate["MEM"] <= 1600000 /\ hw.rate["MEM"] \in Nat
      /\ hw \in Hardware /\ TypeOK
  BY ModuleNames DEF Inv, FloorInv, DvfsReset, TypeOK, Hardware
<1>2. \A h \in HijackOutcomes(hw, 0) :
          h \in Hardware /\ h.rate["MEM"] = hw.rate["MEM"]
  BY <1>1, HijackType DEF HijackOutcomes, Hardware
<1>3. \A h \in HijackOutcomes(hw, 0) :
          GpuAgain(ResetToStock(h, apm.hz, "GPU")).rate["MEM"] = hw.rate["MEM"]
  <2> TAKE h \in HijackOutcomes(hw, 0)
  <2> DEFINE k == ResetToStock(h, apm.hz, "GPU")
  <2>1. k \in Hardware /\ k.rate["MEM"] = hw.rate["MEM"]
    BY <1>1, <1>2, ApmType, StockType, ModuleNames, ResetKeepsMem
    DEF KeepsMem, TypeOK
  <2> HIDE DEF k
  <2>2. GpuAgain(k).rate["MEM"] = k.rate["MEM"]
    BY <2>1, SetHzKeepsMem DEF GpuAgain, KeepsMem
  <2>3. QED
    BY <2>1, <2>2 DEF k
<1>4. hw'.rate["MEM"] = hw.rate["MEM"] /\ tpc' = "gov"
  BY <1>3 DEF DvfsReset
<1>5. QED
  BY <1>1, <1>4 DEF FloorInv

-----------------------------------------------------------------------------
(* The governor thread and the console.                                    *)

LEMMA GovernorSetsFloor ==
    ASSUME Inv, NEW m \in {"CPU", "GPU"}, NEW f, GovernorSets(m, f)
    PROVE  KeepsMem(hw, hw')
<1>1. hw \in Hardware
  BY DEF Inv, TypeOK
<1>2. QED
  BY <1>1, SetHzKeepsMem, KeepsMemRefl DEF GovernorSets

\* The governor sets the CPU and the GPU while a tick is between two steps.
LEMMA GovernorThreadFloor == Inv /\ GovernorThread /\ TypeOK' => FloorInv'
<1> SUFFICES ASSUME Inv, GovernorThread, TypeOK' PROVE FloorInv'
  OBVIOUS
<1>1. KeepsMem(hw, hw')
  BY GovernorSetsFloor, KeepsMemRefl
  DEF GovernorThread, GovernorPoll, GovernorBoost, GovernorCpu,
      GovernorGpuCheck, GovernorGpu, GovernorHolds
<1>2. UNCHANGED <<tpc, plan>>
  BY DEF GovernorThread, GovernorPoll, GovernorBoost, GovernorCpu,
         GovernorGpuCheck, GovernorGpu, tick
<1>3. QED
  BY <1>1, <1>2, KeepsMemInv

\* The operating system puts the RAM at stock and the rail at the table's
\* floor; everything else of the console leaves the clocks alone.
LEMMA EnvironmentFloor ==
    DvfsSetup /\ Inv /\ Environment /\ TypeOK' => FloorInv'
<1> SUFFICES ASSUME DvfsSetup, Inv, Environment, TypeOK' PROVE FloorInv'
  OBVIOUS
<1>1. UNCHANGED <<tpc, plan>>
  BY DEF Environment, ApmChange, TitleChange, ChargerChange, AlarmChange,
         SetOverride, SetConfig, tick
<1>2. CASE ApmChange
  <2>1. PICK a \in Apm : hw' = PcvApply(hw, a.hz)
    BY <1>2 DEF ApmChange
  <2>2. a.hz \in [Module -> Nat] /\ a.hz["MEM"] \in Nat /\ a.hz["MEM"] <= 1600000
    BY ClockManagerAssumption, ModuleNames DEF DvfsSetup
  <2>3. hw \in Hardware
    BY DEF Inv, TypeOK
  <2>4. /\ hw'.rate["MEM"] = a.hz["MEM"]
        /\ hw'.vmin = hw.vmin /\ hw'.gpuVmin = hw.vmin
    BY <2>1, <2>3 DEF PcvApply, Hardware
  <2>5. hw'.rate["MEM"] \in Nat /\ hw'.rate["MEM"] <= 1600000
    BY <2>2, <2>4
  <2>6. FloorFor(plan.nearest) => FloorFor(plan.nearest)'
    BY <1>1, <2>4 DEF FloorFor, DvfsVmin
  <2>7. PlanRounds => PlanRounds'
    BY <1>1 DEF PlanRounds
  <2> HIDE DEF FloorFor, PlanRounds
  <2>8. QED
    BY <1>1, <2>5, <2>6, <2>7 DEF Inv, FloorInv
<1>3. CASE hw' = hw
  BY <1>1, <1>3, KeepsMemRefl, KeepsMemInv
<1>4. QED
  BY <1>2, <1>3
  DEF Environment, TitleChange, ChargerChange, AlarmChange, SetOverride, SetConfig

-----------------------------------------------------------------------------

LEMMA InitFloor == DvfsSetup /\ Init => FloorInv
<1> SUFFICES ASSUME DvfsSetup, Init PROVE FloorInv
  OBVIOUS
<1>1. hw.rate["MEM"] = apm.hz["MEM"] /\ tpc = "idle"
  BY DEF Init
<1>2. apm \in Apm
  BY DEF Init
<1>3. apm.hz["MEM"] \in Nat /\ apm.hz["MEM"] <= 1600000
  BY <1>2, ClockManagerAssumption, ModuleNames DEF DvfsSetup
<1>4. QED
  BY <1>1, <1>3 DEF FloorInv

LEMMA NextFloor == DvfsSetup /\ Inv /\ [Next]_vars => Inv'
<1> SUFFICES ASSUME DvfsSetup, Inv, [Next]_vars PROVE Inv'
  OBVIOUS
<1>1. TypeOK'
  BY NextType DEF Inv
<1>2. CASE Tick
  BY <1>1, <1>2, TickBeginFloor, RefreshIdsFloor, RefreshVoltsFloor,
     QuietStepsFloor, SetClocksMemFloor, SetClocksMemSetFloor,
     SetClocksMemDownFloor, DvfsResetFloor, HandleGovernorFloor
  DEF Tick, Inv
<1>3. CASE GovernorThread
  BY <1>1, <1>3, GovernorThreadFloor DEF Inv
<1>4. CASE Environment
  BY <1>1, <1>4, EnvironmentFloor DEF Inv
<1>5. CASE UNCHANGED vars
  <2>1. KeepsMem(hw, hw') /\ UNCHANGED <<tpc, plan>>
    BY <1>5, KeepsMemRefl DEF vars, tick
  <2>2. QED
    BY <1>1, <2>1, KeepsMemInv DEF Inv
<1>6. QED
  BY <1>2, <1>3, <1>4, <1>5 DEF Next

\* The invariant says of every state what MemFloor promises.
LEMMA FloorInvImplies == FloorInv => MemFloor
BY DEF FloorInv, FloorFor, MemFloor

\* The promise of SetClocks, RefreshContext and DVFSReset, for all tables,
\* settings, APM configurations and interleavings of DvfsSetup: the RAM runs
\* above 1600 MHz only on a GPU rail with the floor GetMinimumGpuVmin asks for.
THEOREM MemFloorHolds == DvfsSetup => (Spec => []MemFloor)
<1> SUFFICES ASSUME DvfsSetup PROVE Spec => []MemFloor
  OBVIOUS
<1>1. Init => Inv
  BY InitType, InitFloor DEF Inv
<1>2. Inv /\ [Next]_vars => Inv'
  BY NextFloor
<1>3. Inv => MemFloor
  BY FloorInvImplies DEF Inv
<1>4. QED
  BY <1>1, <1>2, <1>3, PTL DEF Spec

-----------------------------------------------------------------------------
(* The clock a module really runs at, as a function of the hardware.       *)

Runs(h, m) == IF m = "GPU" THEN h.pll ELSE h.rate[m]

LEMMA ActualRuns == \A m : ActualHz(m) = Runs(hw, m)
BY DEF ActualHz, Runs

\* SetHz moves one clock.
LEMMA SetHzRuns ==
    ASSUME NEW h \in Hardware, NEW m \in Module, NEW n \in Module, NEW f \in Nat
    PROVE  Runs(SetHz(h, m, f), n) = IF n = m THEN f ELSE Runs(h, n)
<1>1. CASE m = "GPU"
  BY <1>1 DEF SetHz, SetGpu, Runs, Hardware, Module
<1>2. CASE m # "GPU"
  BY <1>2 DEF SetHz, SetCpuOrMem, Runs, Hardware, Module
<1>3. QED
  BY <1>1, <1>2

LEMMA ResetRuns ==
    ASSUME NEW h \in Hardware, NEW m \in Module, NEW n \in Module,
           NEW stock \in [Module -> Nat]
    PROVE  Runs(ResetToStock(h, stock, m), n) = IF n = m THEN stock[n] ELSE Runs(h, n)
<1>1. stock[m] \in Nat
  OBVIOUS
<1>2. QED
  BY <1>1, SetHzRuns DEF ResetToStock

\* ResetToStockClocks and ResetToStock put the CPU and the GPU to stock.
LEMMA StockRuns ==
    ASSUME NEW h \in Hardware, TypeOK, NEW m \in {"CPU", "GPU"}
    PROVE  /\ Runs(StockClocks(h), m) = apm.hz[m]
           /\ Runs(ResetAllToStock(h, apm.hz), m) = apm.hz[m]
<1>1. apm.hz \in [Module -> Nat]
  BY ApmType
<1> DEFINE k == ResetToStock(h, apm.hz, "CPU")
           l == ResetToStock(k, apm.hz, "GPU")
<1>2. k \in Hardware /\ Runs(k, "CPU") = apm.hz["CPU"]
  BY <1>1, StockType, ResetRuns, ModuleNames
<1> HIDE DEF k
<1>3. l \in Hardware /\ Runs(l, "CPU") = apm.hz["CPU"] /\ Runs(l, "GPU") = apm.hz["GPU"]
  BY <1>1, <1>2, StockType, ResetRuns, ModuleNames
<1> HIDE DEF l
<1>4. Runs(ResetToStock(l, apm.hz, "MEM"), m) = Runs(l, m)
  BY <1>1, <1>3, ResetRuns, ModuleNames
<1>5. QED
  BY <1>3, <1>4 DEF StockClocks, ResetAllToStock, k, l

\* Writing the voltage table moves no clock.
LEMMA HijackRuns ==
    ASSUME NEW h \in Hardware, NEW v \in Nat, NEW k \in HijackOutcomes(h, v), NEW m
    PROVE  k \in Hardware /\ Runs(k, m) = Runs(h, m)
BY HijackType DEF HijackOutcomes, Runs, Hardware

\* ApplyGpuDvfs sets the GPU again, to the table's clock nearest to its own.
LEMMA ApplyGpuDvfsRuns ==
    ASSUME TypeOK, NEW f \in Nat, ApplyGpuDvfs(f)
    PROVE  /\ \A m \in {"CPU", "MEM"} : Runs(hw', m) = Runs(hw, m)
           /\ \E h \in Hardware : /\ h.injected = hw.injected /\ h.rate = hw.rate
                                  /\ hw' = SetHz(h, "GPU", NearestHz("GPU", GetHz(h, "GPU")))
<1>1. hw \in Hardware /\ DvfsVmin(f) \in Nat
  BY DvfsVminType DEF TypeOK
<1>2. PICK h \in HijackOutcomes(hw, DvfsVmin(f)) :
              hw' = SetHz(h, "GPU", NearestHz("GPU", GetHz(h, "GPU")))
  BY DEF ApplyGpuDvfs
<1>3. h \in Hardware /\ h.injected = hw.injected /\ h.rate = hw.rate
  BY <1>1, HijackType DEF HijackOutcomes, Hardware
<1>4. NearestHz("GPU", GetHz(h, "GPU")) \in Nat
  BY NearestHzType, ModuleNames
<1>5. \A m \in {"CPU", "MEM"} : Runs(hw', m) = Runs(hw, m)
  BY <1>2, <1>3, <1>4, SetHzRuns, ModuleNames DEF Runs
<1>6. QED
  BY <1>2, <1>3, <1>5

-----------------------------------------------------------------------------
(* Nothing above the cap.                                                  *)

\* What a step that is not an event may do to the clock of m.
KeepsCap(m, hz) ==
    \/ hz = Runs(hw, m)
    \/ hz = apm.hz[m]
    \/ Within(hz, Cap(m))
    \/ m = "CPU" /\ hz = GovernorMin

CapKept == \A m \in {"CPU", "GPU"} : KeepsCap(m, Runs(hw', m))

LEMMA NearestKeepsCap ==
    ASSUME TypeOK, CapsSetup, NEW m \in {"CPU", "GPU"}, NEW f
    PROVE  Within(NearestHz(m, f), Cap(m))
<1>1. m \in Module /\ IsTable(Table[m]) /\ Cap(m) \in Nat
  BY ClockManagerAssumption, CapType, ModuleNames
<1>2. Ini[cfg].uncapped \in BOOLEAN /\ ctxProfile \in Profile
  BY ClockManagerAssumption DEF TypeOK, Config
<1>3. Keepable(Table[m], Cap(m))
  BY <1>2 DEF CapsSetup, Cap
<1>4. QED
  BY <1>1, <1>3, NearestFacts DEF NearestHz

\* The steps that put clocks to stock: HandleSafetyFeatures, RefreshContext and
\* HandleGovernor.
LEMMA StockSteps ==
    ASSUME TypeOK, TickBegin \/ RefreshIds \/ RefreshVolts \/ HandleGovernor,
           NEW m \in {"CPU", "GPU"}
    PROVE  Runs(hw', m) \in {Runs(hw, m), apm.hz[m]}
<1>1. hw \in Hardware /\ apm.hz \in [Module -> Nat] /\ m \in Module
  BY ApmType, ModuleNames DEF TypeOK
<1>2. CASE TickBegin
  BY <1>1, <1>2, StockRuns DEF TickBegin
<1>3. CASE RefreshIds
  BY <1>1, <1>3, StockRuns DEF RefreshIds
<1>4. CASE RefreshVolts
  <2>1. CASE hw' = hw
    BY <2>1
  <2>2. CASE hw' # hw
    <3>1. PICK h \in HijackOutcomes(hw, 0) : hw' = ResetToStock(h, apm.hz, "GPU")
      BY <1>4, <2>2 DEF RefreshVolts
    <3>2. h \in Hardware /\ Runs(h, m) = Runs(hw, m)
      BY <1>1, <3>1, HijackRuns
    <3>3. QED
      BY <1>1, <3>1, <3>2, ResetRuns, ModuleNames
  <2>3. QED
    BY <2>1, <2>2
<1>5. CASE HandleGovernor
  <2>1. PICK h \in {hw, ResetToStock(hw, apm.hz, "CPU")} :
               hw' \in {h, ResetToStock(h, apm.hz, "GPU")}
    BY <1>5 DEF HandleGovernor
  <2>2. h \in Hardware /\ Runs(h, m) \in {Runs(hw, m), apm.hz[m]}
    BY <1>1, <2>1, StockType, ResetRuns, ModuleNames
  <2>3. QED
    BY <1>1, <2>1, <2>2, ResetRuns, ModuleNames
<1>6. QED
  BY <1>2, <1>3, <1>4, <1>5

\* SetClocks for the CPU and the GPU.
LEMMA SetModuleCap ==
    ASSUME TypeOK, CapsSetup, NEW m \in {"CPU", "GPU"}, SetModule(m)
    PROVE  CapKept
<1>1. hw \in Hardware /\ apm.hz \in [Module -> Nat] /\ m \in Module
  BY ApmType, ModuleNames DEF TypeOK
<1>2. CASE UNCHANGED hw
  BY <1>2 DEF CapKept, KeepsCap
<1>3. CASE hw' = SetHz(hw, m, NearestHz(m, Target(m)))
  <2>1. NearestHz(m, Target(m)) \in Nat
    BY <1>1, NearestHzType
  <2>2. Within(NearestHz(m, Target(m)), Cap(m))
    BY NearestKeepsCap
  <2>3. QED
    BY <1>1, <1>3, <2>1, <2>2, SetHzRuns, ModuleNames DEF CapKept, KeepsCap
<1>4. CASE hw' = ResetToStock(hw, apm.hz, m)
  BY <1>1, <1>4, ResetRuns, ModuleNames DEF CapKept, KeepsCap
<1>5. QED
  BY <1>2, <1>3, <1>4 DEF SetModule, HandleFreqReset

LEMMA ApplyGpuDvfsCap ==
    ASSUME TypeOK, CapsSetup, NEW f \in Nat, ApplyGpuDvfs(f)
    PROVE  CapKept
<1>1. Runs(hw', "CPU") = Runs(hw, "CPU")
  BY ApplyGpuDvfsRuns
<1>2. PICK h \in Hardware : hw' = SetHz(h, "GPU", NearestHz("GPU", GetHz(h, "GPU")))
  BY ApplyGpuDvfsRuns
<1>3. NearestHz("GPU", GetHz(h, "GPU")) \in Nat
  BY NearestHzType, ModuleNames
<1>4. Runs(hw', "GPU") = NearestHz("GPU", GetHz(h, "GPU"))
  BY <1>2, <1>3, SetHzRuns, ModuleNames
<1>5. QED
  BY <1>1, <1>4, NearestKeepsCap DEF CapKept, KeepsCap

\* SetClocks for the memory: its voltage steps set the GPU again.
LEMMA SetMemCap ==
    ASSUME TypeOK, CapsSetup, SetClocksMem \/ SetClocksMemSet \/ SetClocksMemDown
    PROVE  CapKept
<1>1. hw \in Hardware /\ apm.hz \in [Module -> Nat] /\ plan \in Plan
  BY ApmType DEF TypeOK
<1>2. CASE UNCHANGED hw
  BY <1>2 DEF CapKept, KeepsCap
<1>3. CASE hw' = ResetToStock(hw, apm.hz, "MEM")
  BY <1>1, <1>3, ResetRuns, ModuleNames DEF CapKept, KeepsCap
<1>4. CASE hw' = SetHz(hw, "MEM", plan.nearest)
  BY <1>1, <1>4, SetHzRuns, ModuleNames DEF CapKept, KeepsCap, Plan
<1>5. CASE ApplyGpuDvfs(Target("MEM"))
  BY <1>5, TargetType, ApplyGpuDvfsCap, ModuleNames
<1>6. CASE ApplyGpuDvfs(plan.target)
  BY <1>1, <1>6, ApplyGpuDvfsCap DEF Plan
<1>7. CASE SetClocksMem
  BY <1>2, <1>3, <1>5, <1>7 DEF SetClocksMem
<1>8. CASE SetClocksMemSet
  BY <1>4, <1>8 DEF SetClocksMemSet
<1>9. CASE SetClocksMemDown
  BY <1>2, <1>6, <1>9 DEF SetClocksMemDown
<1>10. QED
  BY <1>7, <1>8, <1>9

LEMMA DvfsResetCap ==
    ASSUME TypeOK, CapsSetup, DvfsReset
    PROVE  CapKept
<1>1. hw \in Hardware /\ apm.hz \in [Module -> Nat]
  BY ApmType DEF TypeOK
<1>2. CASE hw' = hw
  BY <1>2 DEF CapKept, KeepsCap
<1>3. CASE hw' # hw
  <2>1. PICK h \in HijackOutcomes(hw, 0) : hw' = GpuAgain(ResetToStock(h, apm.hz, "GPU"))
    BY <1>3 DEF DvfsReset
  <2> DEFINE k == ResetToStock(h, apm.hz, "GPU")
  <2>2. /\ k \in Hardware /\ Runs(k, "GPU") = apm.hz["GPU"]
        /\ Runs(k, "CPU") = Runs(hw, "CPU")
    BY <1>1, <2>1, HijackRuns, StockType, ResetRuns, ModuleNames
  <2> HIDE DEF k
  <2>3. CASE hw' = k
    BY <2>2, <2>3 DEF CapKept, KeepsCap
  <2>4. CASE hw' = SetHz(k, "GPU", NearestHz("GPU", Target("GPU")))
    <3>1. NearestHz("GPU", Target("GPU")) \in Nat
      BY NearestHzType, ModuleNames
    <3>2. QED
      BY <2>2, <2>4, <3>1, SetHzRuns, NearestKeepsCap, ModuleNames
      DEF CapKept, KeepsCap
  <2>5. QED
    BY <2>1, <2>3, <2>4 DEF GpuAgain, k
<1>4. QED
  BY <1>2, <1>3

\* The governor sets a table clock within the cap, or its configured minimum:
\* the 612 Hz that stand for it before are no CPU clock (IsAssignableHz).
LEMMA GovernorCap ==
    ASSUME TypeOK, CapsSetup, GovernorThread
    PROVE  CapKept
<1>1. hw \in Hardware
  BY DEF TypeOK
<1>2. \A m \in {"CPU", "GPU"}, load \in Loads :
         GovernorChoice(m, load) \in Nat /\ Within(GovernorChoice(m, load), Cap(m))
  <2>1. TAKE m \in {"CPU", "GPU"}, load \in Loads
  <2>2. /\ m \in Module /\ IsTable(Table[m]) /\ load \in Nat
        /\ Cap(m) \in Nat /\ Target(m) \in Nat
    BY ClockManagerAssumption, CapType, TargetType, ModuleNames
  <2>3. Ini[cfg].uncapped \in BOOLEAN /\ ctxProfile \in Profile
    BY ClockManagerAssumption DEF TypeOK, Config
  <2>4. Keepable(Table[m], Cap(m))
    BY <2>3 DEF CapsSetup, Cap
  <2>5. QED
    BY <2>2, <2>4, GovernorFacts DEF GovernorChoice
<1>3. ASSUME NEW m \in {"CPU", "GPU"}, NEW f \in Nat, GovernorSets(m, f),
             Within(f, Cap(m)) \/ (m = "CPU" /\ (f = GovernorMin \/ f = 1))
      PROVE  CapKept
  <2>1. CASE UNCHANGED hw
    BY <2>1 DEF CapKept, KeepsCap
  <2>2. CASE IsAssignable(m, f) /\ hw' = SetHz(hw, m, f)
    <3>1. Within(f, Cap(m)) \/ (m = "CPU" /\ f = GovernorMin)
      BY <1>3, <2>2 DEF IsAssignable
    <3>2. QED
      BY <1>1, <1>3, <2>2, <3>1, SetHzRuns, ModuleNames DEF CapKept, KeepsCap
  <2>3. QED
    BY <1>3, <2>1, <2>2 DEF GovernorSets
<1>4. CASE UNCHANGED hw
  BY <1>4 DEF CapKept, KeepsCap
<1>5. CASE GovernorCpu /\ hw' # hw
  <2>1. PICK load \in Loads, minHz \in {1, GovernorMin} :
           LET f == GovernorChoice("CPU", load)
           IN  GovernorSets("CPU", IF f < minHz THEN minHz ELSE f)
    BY <1>5 DEF GovernorCpu, GovernorHolds
  <2> DEFINE f == GovernorChoice("CPU", load)
             g == IF f < minHz THEN minHz ELSE f
  <2>2. g \in Nat /\ (Within(g, Cap("CPU")) \/ g = GovernorMin \/ g = 1)
    BY <1>2, ClockManagerAssumption
  <2>3. GovernorSets("CPU", g)
    BY <2>1
  <2> HIDE DEF g
  <2>4. QED
    BY <1>3, <2>2, <2>3
<1>6. CASE GovernorGpu /\ hw' # hw
  BY <1>2, <1>3, <1>6 DEF GovernorGpu, GovernorHolds
<1>7. QED
  BY <1>4, <1>5, <1>6
  DEF GovernorThread, GovernorPoll, GovernorBoost, GovernorGpuCheck

\* The step that CapRespected speaks of.
CapStep ==
    \A m \in {"CPU", "GPU"} :
        ActualHz(m)' # ActualHz(m) /\ events' = events =>
            \/ ActualHz(m)' = apm.hz[m]
            \/ Within(ActualHz(m)', MaxAllowed(Ini[cfg].uncapped, m, ctxProfile'))
            \/ m = "CPU" /\ ActualHz(m)' = GovernorMin

LEMMA ActualAfter == \A m : ActualHz(m)' = Runs(hw', m)
BY DEF ActualHz, Runs

LEMMA KeptIsCapStep ==
    ASSUME CapKept, UNCHANGED ctxProfile
    PROVE  CapStep
BY ActualRuns, ActualAfter DEF CapKept, KeepsCap, CapStep, Cap

LEMMA NextCap == CapsSetup /\ TypeOK /\ [Next]_vars => CapStep
<1> SUFFICES ASSUME CapsSetup, TypeOK, [Next]_vars PROVE CapStep
  OBVIOUS
<1>1. CASE TickBegin \/ RefreshIds \/ RefreshVolts \/ HandleGovernor
  BY <1>1, StockSteps, ActualRuns, ActualAfter DEF CapStep
<1>2. CASE SetClocksCpu \/ SetClocksGpu
  BY <1>2, SetModuleCap, KeptIsCapStep DEF SetClocksCpu, SetClocksGpu
<1>3. CASE SetClocksMem \/ SetClocksMemSet \/ SetClocksMemDown
  <2>1. UNCHANGED ctxProfile
    BY <1>3 DEF SetClocksMem, SetClocksMemSet, SetClocksMemDown, context
  <2>2. QED
    BY <1>3, <2>1, SetMemCap, KeptIsCapStep
<1>4. CASE DvfsReset
  BY <1>4, DvfsResetCap, KeptIsCapStep DEF DvfsReset, context
<1>5. CASE GovernorThread
  <2>1. UNCHANGED ctxProfile
    BY <1>5 DEF GovernorThread, GovernorPoll, GovernorBoost, GovernorCpu,
                GovernorGpuCheck, GovernorGpu, context
  <2>2. QED
    BY <1>5, <2>1, GovernorCap, KeptIsCapStep
<1>6. CASE Environment
  <2>1. events' = events - 1 /\ events \in Nat
    <3>1. Event
      BY <1>6 DEF Environment, ApmChange, TitleChange, ChargerChange, AlarmChange,
                  SetOverride, SetConfig
    <3>2. events \in Nat
      BY ClockManagerAssumption DEF TypeOK
    <3>3. QED
      BY <3>1, <3>2 DEF Event
  <2>2. events' # events
    BY <2>1
  <2>3. QED
    BY <2>2 DEF CapStep
<1>7. CASE UNCHANGED hw
  BY <1>7, ActualRuns, ActualAfter DEF CapStep
<1>8. QED
  BY <1>1, <1>2, <1>3, <1>4, <1>5, <1>6, <1>7
  DEF Next, Tick, RefreshSync, Decide, vars

\* The promise of GetMaxAllowedHz, for all tables whose caps can be kept, all
\* settings and interleavings of both threads: a clock either thread gives the
\* CPU or the GPU is stock, within the cap, or the governor's configured minimum.
THEOREM CapRespectedHolds == CapsSetup => (Spec => CapRespected)
<1> SUFFICES ASSUME CapsSetup PROVE Spec => CapRespected
  OBVIOUS
<1>1. Init => TypeOK
  BY InitType
<1>2. TypeOK /\ [Next]_vars => TypeOK'
  BY NextType
<1>3. TypeOK /\ [Next]_vars => [CapStep]_vars
  BY NextCap
<1>4. QED
  BY <1>1, <1>2, <1>3, PTL DEF Spec, CapRespected, CapStep

-----------------------------------------------------------------------------
(* Stock while a throttle holds, but for the governor.                     *)

AtStock == \A m \in {"CPU", "GPU"} : ActualHz(m) = apm.hz[m]

AtStockOrRaised ==
    \A m \in {"CPU", "GPU"} : ActualHz(m) = apm.hz[m] \/ RaisedByGovernor(m)

\* The mutex is held for the whole tick, which keeps the governor out.
TickLocks == tpc = "idle" <=> lock = "free"

\* A tick that is to skip the clocks goes no further than Decide, and they stay
\* at stock as long as it holds the mutex; then the governor may have its turn.
ThrottleInv ==
    /\ TickLocks
    /\ skip => tpc \in {"idle", "ids", "volts", "sync", "decide"}
    /\ skip /\ quiet => IF tpc = "idle" THEN AtStockOrRaised ELSE AtStock

Throttled == TypeOK /\ ThrottleInv

\* Clocks at stock stay there while neither they nor the APM clocks change.
LEMMA StockStays ==
    ASSUME UNCHANGED apm, \A m \in {"CPU", "GPU"} : Runs(hw', m) \in {Runs(hw, m), apm.hz[m]},
           AtStock
    PROVE  AtStock'
BY ActualRuns, ActualAfter DEF AtStock

LEMMA TickThrottle ==
    ASSUME Throttled, Tick
    PROVE  ThrottleInv'
<1>1. TypeOK /\ ThrottleInv /\ hw \in Hardware
  BY DEF Throttled, TypeOK
<1>2. TickLocks'
  BY <1>1 DEF ThrottleInv, TickLocks, Tick, TickBegin, RefreshIds, RefreshVolts,
              RefreshSync, Decide, SetClocksCpu, SetClocksGpu, SetClocksMem,
              SetClocksMemSet, SetClocksMemDown, DvfsReset, HandleGovernor
<1>3. CASE TickBegin
  <2>1. tpc' = "ids" /\ skip' = Throttles
    BY <1>3 DEF TickBegin
  <2>2. CASE Throttles
    <3>1. hw' = StockClocks(hw) /\ UNCHANGED apm
      BY <1>3, <2>2 DEF TickBegin, console
    <3>2. AtStock'
      BY <1>1, <3>1, StockRuns, ActualAfter DEF AtStock
    <3>3. QED
      BY <1>2, <2>1, <3>2 DEF ThrottleInv
  <2>3. CASE ~Throttles
    BY <1>2, <2>1, <2>3 DEF ThrottleInv
  <2>4. QED
    BY <2>2, <2>3
<1>4. CASE RefreshIds \/ RefreshVolts
  <2>1. UNCHANGED <<apm, skip, quiet>> /\ tpc \in {"ids", "volts"}
    BY <1>4 DEF RefreshIds, RefreshVolts, console
  <2>2. AtStock => AtStock'
    BY <1>1, <1>4, <2>1, StockSteps, StockStays
  <2>3. tpc' \in {"volts", "sync"}
    BY <1>4 DEF RefreshIds, RefreshVolts
  <2>4. QED
    BY <1>1, <1>2, <2>1, <2>2, <2>3 DEF ThrottleInv
<1>5. CASE RefreshSync \/ Decide
  <2>1. UNCHANGED <<apm, hw, skip, quiet>> /\ tpc \in {"sync", "decide"}
    BY <1>5 DEF RefreshSync, Decide, console
  <2>2. AtStock => AtStock' /\ AtStockOrRaised'
    <3>1. AtStock => AtStock'
      BY <2>1, StockStays
    <3>2. AtStock' => AtStockOrRaised'
      BY DEF AtStock, AtStockOrRaised
    <3>3. QED
      BY <3>1, <3>2
  <2>3. skip => tpc' \in {"idle", "decide"}
    BY <1>5 DEF RefreshSync, Decide, Applies
  <2>4. QED
    BY <1>1, <1>2, <2>1, <2>2, <2>3 DEF ThrottleInv
<1>6. CASE tpc \in {"cpu", "gpu", "mem", "memset", "memdown", "dvfsreset", "gov"}
  <2>1. ~skip
    BY <1>1, <1>6 DEF ThrottleInv
  <2>2. UNCHANGED skip
    BY <1>6 DEF Tick, TickBegin, RefreshIds, RefreshVolts, RefreshSync, Decide,
                SetClocksCpu, SetClocksGpu, SetClocksMem, SetClocksMemSet,
                SetClocksMemDown, DvfsReset, HandleGovernor
  <2>3. QED
    BY <1>2, <2>1, <2>2 DEF ThrottleInv
<1>7. QED
  BY <1>3, <1>4, <1>5, <1>6
  DEF Tick, SetClocksCpu, SetClocksGpu, SetClocksMem, SetClocksMemSet,
      SetClocksMemDown, DvfsReset, HandleGovernor

\* A turn of the governor that moves a clock is noted as its.
LEMMA GovernorMarks ==
    ASSUME TypeOK, GovernorThread, NEW m \in {"CPU", "GPU"}
    PROVE  /\ Runs(hw', m) # Runs(hw, m) => setBy'[m] = "governor"
           /\ setBy[m] = "governor" => setBy'[m] = "governor"
<1>1. hw \in Hardware /\ setBy \in [Module -> Setter] /\ m \in Module
  BY ModuleNames DEF TypeOK
<1>2. ASSUME NEW n \in {"CPU", "GPU"}, NEW f \in Nat, GovernorSets(n, f)
      PROVE  /\ Runs(hw', m) # Runs(hw, m) => setBy'[m] = "governor"
             /\ setBy[m] = "governor" => setBy'[m] = "governor"
  <2>1. CASE UNCHANGED <<hw, setBy>>
    BY <2>1
  <2>2. CASE hw' = SetHz(hw, n, f) /\ setBy' = [setBy EXCEPT ![n] = "governor"]
    <3>1. Runs(hw', m) # Runs(hw, m) => n = m
      BY <1>1, <2>2, SetHzRuns, ModuleNames
    <3>2. QED
      BY <1>1, <2>2, <3>1
  <2>3. QED
    BY <1>2, <2>1, <2>2 DEF GovernorSets
<1>3. CASE UNCHANGED <<hw, setBy>>
  BY <1>3
<1>4. CASE GovernorCpu /\ ~GovernorHolds
  <2>1. PICK load \in Loads, minHz \in {1, GovernorMin} :
           LET f == GovernorChoice("CPU", load)
           IN  GovernorSets("CPU", IF f < minHz THEN minHz ELSE f)
    BY <1>4 DEF GovernorCpu
  <2> DEFINE f == GovernorChoice("CPU", load)
             g == IF f < minHz THEN minHz ELSE f
  <2>2. g \in Nat
    BY GovernorChoiceType, ModuleNames, ClockManagerAssumption
  <2>3. GovernorSets("CPU", g)
    BY <2>1
  <2> HIDE DEF g
  <2>4. QED
    BY <1>2, <2>2, <2>3
<1>5. CASE GovernorGpu /\ ~GovernorHolds
  <2>1. PICK load \in Loads : GovernorSets("GPU", GovernorChoice("GPU", load))
    BY <1>5 DEF GovernorGpu
  <2>2. GovernorChoice("GPU", load) \in Nat
    BY GovernorChoiceType, ModuleNames
  <2>3. QED
    BY <1>2, <2>1, <2>2
<1>6. QED
  BY <1>3, <1>4, <1>5
  DEF GovernorThread, GovernorPoll, GovernorBoost, GovernorGpuCheck, GovernorHolds

\* Between two ticks the governor may take a throttled clock from stock, within
\* its cap.
LEMMA GovernorThrottle ==
    ASSUME CapsSetup, Throttled, GovernorThread
    PROVE  ThrottleInv'
<1>1. TypeOK /\ ThrottleInv
  BY DEF Throttled
<1>2. UNCHANGED <<apm, cfg, ctxProfile, skip, quiet, tpc, lock>>
  BY DEF GovernorThread, GovernorPoll, GovernorBoost, GovernorCpu, GovernorGpuCheck,
         GovernorGpu, console, settings, context, tick
<1>3. CASE UNCHANGED hw /\ UNCHANGED setBy
  <2>1. \A m : UNCHANGED Cap(m) /\ UNCHANGED ActualHz(m)
    BY <1>2, <1>3 DEF Cap, ActualHz
  <2>2. (AtStock => AtStock') /\ (AtStockOrRaised => AtStockOrRaised')
    BY <1>2, <1>3, <2>1 DEF AtStock, AtStockOrRaised, RaisedByGovernor
  <2>3. QED
    BY <1>1, <1>2, <2>2 DEF ThrottleInv, TickLocks
<1>4. CASE GovernorCpu \/ GovernorGpu
  <2>1. tpc = "idle" /\ tpc' = "idle" /\ CapKept
    BY <1>1, <1>2, <1>4, GovernorCap DEF GovernorCpu, GovernorGpu, ThrottleInv, TickLocks
  <2>2. ASSUME AtStockOrRaised, NEW m \in {"CPU", "GPU"}
        PROVE  (ActualHz(m) = apm.hz[m] \/ RaisedByGovernor(m))'
    <3>1. KeepsCap(m, Runs(hw', m)) /\ Cap(m)' = Cap(m)
      BY <1>2, <2>1 DEF CapKept, Cap
    <3>2. CASE Runs(hw', m) = Runs(hw, m)
      BY <1>1, <1>2, <2>2, <3>1, <3>2, GovernorMarks, ActualRuns, ActualAfter
      DEF AtStockOrRaised, RaisedByGovernor
    <3>3. CASE Runs(hw', m) # Runs(hw, m)
      BY <1>1, <1>2, <3>1, <3>3, GovernorMarks, ActualAfter
      DEF KeepsCap, RaisedByGovernor
    <3>4. QED
      BY <3>2, <3>3
  <2>3. AtStockOrRaised => AtStockOrRaised'
    BY <2>2 DEF AtStockOrRaised
  <2>4. QED
    BY <1>1, <1>2, <2>1, <2>3 DEF ThrottleInv, TickLocks
<1>5. QED
  BY <1>3, <1>4 DEF GovernorThread, GovernorPoll, GovernorBoost, GovernorGpuCheck

LEMMA NextThrottle == CapsSetup /\ Throttled /\ [Next]_vars => Throttled'
<1> SUFFICES ASSUME CapsSetup, Throttled, [Next]_vars PROVE Throttled'
  OBVIOUS
<1>1. TypeOK'
  BY NextType DEF Throttled
<1>2. CASE Environment
  <2>1. quiet' = FALSE /\ UNCHANGED <<skip, tpc, lock>>
    BY <1>2 DEF Environment, ApmChange, TitleChange, ChargerChange, AlarmChange,
                SetOverride, SetConfig, Event, tick
  <2>2. QED
    BY <1>1, <2>1 DEF Throttled, ThrottleInv, TickLocks
<1>3. CASE UNCHANGED vars
  <2>1. UNCHANGED <<apm, cfg, ctxProfile, hw, setBy, skip, quiet, tpc, lock>>
    BY <1>3 DEF vars, console, settings, context, tick, governor
  <2>2. \A m : UNCHANGED Cap(m) /\ UNCHANGED ActualHz(m)
    BY <2>1 DEF Cap, ActualHz
  <2>3. (AtStock => AtStock') /\ (AtStockOrRaised => AtStockOrRaised')
    BY <2>1, <2>2 DEF AtStock, AtStockOrRaised, RaisedByGovernor
  <2>4. QED
    BY <1>1, <2>1, <2>3 DEF Throttled, ThrottleInv, TickLocks
<1>4. QED
  BY <1>1, <1>2, <1>3, TickThrottle, GovernorThrottle DEF Next, Throttled

\* What HandleSafetyFeatures achieves, for all tables whose caps can be kept, all
\* settings, governors and interleavings: what a throttled tick put to stock stays
\* there until the next, unless the governor's thread takes it away; and then it
\* runs within its cap or at the governor's configured minimum.
THEOREM ThrottleHoldsAlways == CapsSetup => (Spec => []ThrottleHolds)
<1> SUFFICES ASSUME CapsSetup PROVE Spec => []ThrottleHolds
  OBVIOUS
<1>1. Init => Throttled
  BY InitType DEF Init, Throttled, ThrottleInv, TickLocks
<1>2. Throttled /\ [Next]_vars => Throttled'
  BY NextThrottle
<1>3. Throttled => ThrottleHolds
  BY DEF Throttled, ThrottleInv, ThrottleHolds, AtStock, AtStockOrRaised
<1>4. QED
  BY <1>1, <1>2, <1>3, PTL DEF Spec

-----------------------------------------------------------------------------
(* As asked when SetClocks has run.                                        *)

\* No clock is injected, so what PCV reports is what runs.
Plain(h) ==
    /\ h.injected = 0 /\ h.pll = h.rate["GPU"]
    /\ \A m \in Module : h.rate[m] # 0

\* What the tick has read of the console and the overlay is what is so.
InStep ==
    quiet =>
        /\ tpc \notin {"idle", "ids"} => ctxApp = app /\ ctxProfile = CurrentProfile
        /\ tpc \notin {"idle", "ids", "volts", "sync"} => ctxOvr = ovr

\* gContext.freqs is what runs, for the modules whose turn is to come.
SeesClocks ==
    quiet =>
        /\ tpc \in {"decide", "cpu"} => freq["CPU"] = hw.rate["CPU"]
        /\ tpc \in {"decide", "cpu", "gpu"} => freq["GPU"] = hw.rate["GPU"]
        /\ tpc \in {"decide", "cpu", "gpu", "mem"} => freq["MEM"] = hw.rate["MEM"]

\* The clock asked for and not only its table entry: what Applied compares with.
AppliedHz(m) ==
    IF WantedHz(m) = 0 THEN apm.hz[m]
    ELSE Nearest(Table[m], WantedHz(m), MaxAllowed(Ini[cfg].uncapped, m, CurrentProfile))

\* The modules that had their turn run at what was asked.
Done(m) ==
    \/ m \in {"CPU", "GPU"} /\ govOn[m]
    \/ m = "CPU" /\ isBoost
    \/ ActualHz(m) = AppliedHz(m)

TurnsDone ==
    quiet =>
        /\ tpc \in {"gpu", "mem", "memset", "memdown", "dvfsreset", "gov"} => Done("CPU")
        /\ tpc \in {"mem", "memset", "memdown", "dvfsreset", "gov"} => Done("GPU")
        /\ tpc = "memset" => WantedHz("MEM") # 0 /\ plan.nearest = AppliedHz("MEM")
        /\ tpc \in {"memdown", "dvfsreset", "gov"} => Done("MEM")

\* The clock SetClocks is about to set the RAM to.
PlanIsClock == tpc = "memset" => plan.nearest # 0

ApplyInv ==
    /\ TypeOK /\ Plain(hw) /\ PlanIsClock
    /\ TickLocks /\ InStep /\ SeesClocks /\ TurnsDone

-----------------------------------------------------------------------------
(* What rounding does to a clock that is rounded already.                  *)

\* GetNearestHz leaves its own results alone.
LEMMA NearestAgain ==
    ASSUME NEW tbl, IsTable(tbl), NEW wanted \in Nat, NEW max \in Nat
    PROVE  Nearest(tbl, Nearest(tbl, wanted, max), max) = Nearest(tbl, wanted, max)
<1> DEFINE S(w) == {i \in DOMAIN tbl : StopsAt(tbl, i, w, max)}
           i == Min(S(wanted))
           n == tbl[i]
<1>1. \A w : S(w) \subseteq Nat /\ Len(tbl) \in S(w)
  BY TableFacts DEF StopsAt
<1>2. \A w : Min(S(w)) \in S(w) /\ \A y \in S(w) : Min(S(w)) <= y
  <2>1. TAKE w
  <2>2. S(w) \subseteq Nat /\ S(w) # {}
    BY <1>1
  <2> HIDE DEF S
  <2>3. QED
    BY <2>2, MinOfNaturals
<1>3. i \in DOMAIN tbl /\ i \in 1..Len(tbl) /\ Len(tbl) \in Nat
  BY <1>2, TableFacts
<1> DEFINE j == Min(S(n))
<1>4. j \in DOMAIN tbl /\ j \in 1..Len(tbl)
  BY <1>2, TableFacts
<1>5. i \in S(n)
  <2>1. CASE i = Len(tbl)
    BY <1>3, <2>1 DEF StopsAt
  <2>2. CASE i # Len(tbl)
    <3>1. i + 1 \in DOMAIN tbl /\ i < i + 1
      BY <1>3, <2>2, TableFacts
    <3>2. tbl[i] \in Nat /\ tbl[i + 1] \in Nat /\ tbl[i] < tbl[i + 1]
      BY <1>3, <3>1, TableFacts DEF IsTable, Ascending
    <3>3. tbl[i] <= (tbl[i] + tbl[i + 1]) \div 2
      BY <3>2
    <3>4. QED
      BY <1>3, <3>3 DEF StopsAt
  <2>3. QED
    BY <2>1, <2>2
<1>6. j <= i
  BY <1>2, <1>5
<1>7. ~(j < i)
  <2> SUFFICES ASSUME j < i PROVE FALSE
    OBVIOUS
  <2>1. StopsAt(tbl, j, n, max) /\ ~StopsAt(tbl, j, wanted, max)
    <3>1. j \in S(n)
      BY <1>2
    <3>2. j \notin S(wanted)
      <4>1. \A y \in S(wanted) : i <= y
        BY <1>2
      <4> HIDE DEF S, j
      <4>2. QED
        BY <1>3, <1>4, <4>1
    <3>3. QED
      BY <1>4, <3>1, <3>2
  <2>2. n <= (tbl[j] + tbl[j + 1]) \div 2 /\ j # Len(tbl)
    BY <2>1 DEF StopsAt
  <2> HIDE DEF j, i
  <2>3. j + 1 \in DOMAIN tbl /\ j + 1 <= i
    BY <1>3, <1>4, <2>2, TableFacts
  <2>4. /\ tbl[j] \in Nat /\ tbl[j + 1] \in Nat /\ tbl[i] \in Nat
        /\ tbl[j] < tbl[j + 1] /\ tbl[j + 1] <= tbl[i]
    BY <1>3, <1>4, <2>3, TableFacts DEF IsTable, Ascending
  <2>5. QED
    BY <2>2, <2>4
<1>8. j = i
  <2> HIDE DEF j, i
  <2> QED
    BY <1>3, <1>4, <1>6, <1>7
<1>9. QED
  BY <1>8 DEF Nearest

-----------------------------------------------------------------------------
(* No clock is injected (PlainClocks).                                     *)

LEMMA PlainSet ==
    ASSUME NEW h \in Hardware, Plain(h), NEW m \in Module, NEW f \in Nat, f # 0,
           m = "GPU" => ~IsMiddle(f)
    PROVE  Plain(SetHz(h, m, f))
<1>1. CASE m = "GPU"
  BY <1>1 DEF Plain, SetHz, SetGpu, Hardware, Module
<1>2. CASE m # "GPU"
  BY <1>2 DEF Plain, SetHz, SetCpuOrMem, Hardware, Module
<1>3. QED
  BY <1>1, <1>2

LEMMA PlainStock ==
    ASSUME PlainClocks, TypeOK, NEW h \in Hardware, Plain(h), NEW m \in Module
    PROVE  /\ Plain(ResetToStock(h, apm.hz, m))
           /\ ResetToStock(h, apm.hz, m) \in Hardware
           /\ apm.hz[m] \in Nat \ {0}
<1>1. apm.hz[m] \in Nat /\ apm.hz[m] # 0 /\ ~IsMiddle(apm.hz["GPU"])
  BY ApmType DEF PlainClocks, TypeOK
<1>2. QED
  BY <1>1, ApmType, StockType, PlainSet DEF ResetToStock

LEMMA PlainNearest ==
    ASSUME PlainClocks, TypeOK, NEW h \in Hardware, Plain(h), NEW m \in Module, NEW f
    PROVE  /\ Plain(SetHz(h, m, NearestHz(m, f)))
           /\ SetHz(h, m, NearestHz(m, f)) \in Hardware
           /\ NearestHz(m, f) \in Nat \ {0}
<1>1. NearestHz(m, f) \in Nat /\ NearestHz(m, f) \in Entries(Table[m])
  BY NearestHzType
<1>2. NearestHz(m, f) # 0 /\ (m = "GPU" => ~IsMiddle(NearestHz(m, f)))
  BY <1>1 DEF PlainClocks
<1>3. QED
  BY <1>1, <1>2, SetHzType, PlainSet

LEMMA PlainHijack ==
    ASSUME NEW h \in Hardware, Plain(h), NEW v \in Nat, NEW k \in HijackOutcomes(h, v)
    PROVE  Plain(k) /\ k \in Hardware /\ \A m : Runs(k, m) = Runs(h, m)
BY HijackType, HijackRuns DEF HijackOutcomes, Plain, Hardware

LEMMA PlainGetHz ==
    ASSUME NEW h, Plain(h), NEW m
    PROVE  GetHz(h, m) = h.rate[m] /\ Runs(h, m) = h.rate[m]
BY DEF GetHz, Runs, Plain

\* Every tick step leaves plain clocks: it sets stock or table clocks.
LEMMA TickPlain ==
    ASSUME PlainClocks, TypeOK, Plain(hw), PlanIsClock, Tick
    PROVE  Plain(hw') /\ PlanIsClock'
<1>1. hw \in Hardware /\ plan \in Plan
  BY DEF TypeOK
<1>2. CASE hw' = hw
  <2>1. Plain(hw')
    BY <1>2
  <2>2. PlanIsClock'
    <3>1. CASE SetClocksMem
      BY <3>1, PlainNearest, <1>1, ModuleNames DEF SetClocksMem, PlanIsClock
    <3>2. CASE ~SetClocksMem
      BY <3>2 DEF Tick, TickBegin, RefreshIds, RefreshVolts, RefreshSync, Decide,
                  SetClocksCpu, SetClocksGpu, SetClocksMemSet, SetClocksMemDown,
                  DvfsReset, HandleGovernor, PlanIsClock
    <3>3. QED
      BY <3>1, <3>2
  <2>3. QED
    BY <2>1, <2>2
<1>3. \A h \in Hardware, m \in Module :
         Plain(h) => /\ Plain(ResetToStock(h, apm.hz, m))
                     /\ ResetToStock(h, apm.hz, m) \in Hardware
  BY PlainStock
<1>4. CASE TickBegin \/ RefreshIds \/ HandleGovernor
  <2>1. Plain(StockClocks(hw)) /\ Plain(ResetAllToStock(hw, apm.hz))
    BY <1>1, <1>3, ModuleNames DEF StockClocks, ResetAllToStock
  <2>2. HandleGovernor => Plain(hw')
    BY <1>1, <1>3, ModuleNames DEF HandleGovernor
  <2>3. Plain(hw')
    BY <1>4, <2>1, <2>2 DEF TickBegin, RefreshIds
  <2>4. tpc' # "memset"
    BY <1>4 DEF TickBegin, RefreshIds, HandleGovernor
  <2>5. QED
    BY <2>3, <2>4 DEF PlanIsClock
<1>5. CASE RefreshVolts /\ hw' # hw
  <2>1. PICK h \in HijackOutcomes(hw, 0) : hw' = ResetToStock(h, apm.hz, "GPU")
    BY <1>5 DEF RefreshVolts
  <2>2. QED
    BY <1>1, <1>3, <1>5, <2>1, PlainHijack, ModuleNames DEF RefreshVolts, PlanIsClock
<1>6. CASE SetClocksCpu \/ SetClocksGpu
  <2>1. PICK m \in {"CPU", "GPU"} : SetModule(m)
    BY <1>6 DEF SetClocksCpu, SetClocksGpu
  <2>2. m \in Module
    BY ModuleNames
  <2>3. hw' \in {hw, SetHz(hw, m, NearestHz(m, Target(m))), ResetToStock(hw, apm.hz, m)}
    BY <2>1 DEF SetModule, HandleFreqReset
  <2>4. Plain(hw')
    BY <1>1, <1>3, <2>2, <2>3, PlainNearest
  <2>5. tpc' # "memset"
    BY <1>6 DEF SetClocksCpu, SetClocksGpu
  <2>6. QED
    BY <2>4, <2>5 DEF PlanIsClock
<1>7. ASSUME NEW f \in Nat, ApplyGpuDvfs(f)
      PROVE  Plain(hw')
  <2>1. PICK h \in HijackOutcomes(hw, DvfsVmin(f)) :
                hw' = SetHz(h, "GPU", NearestHz("GPU", GetHz(h, "GPU")))
    BY <1>7 DEF ApplyGpuDvfs
  <2>2. h \in Hardware /\ Plain(h)
    BY <1>1, <1>7, <2>1, PlainHijack, DvfsVminType
  <2>3. QED
    BY <2>1, <2>2, PlainNearest, ModuleNames
<1>8. CASE SetClocksMem /\ hw' # hw
  <2>1. ApplyGpuDvfs(Target("MEM")) => Plain(hw')
    BY <1>7, TargetType, ModuleNames
  <2>2. Plain(hw')
    BY <1>1, <1>3, <1>8, <2>1, ModuleNames DEF SetClocksMem
  <2>3. PlanIsClock'
    BY <1>1, <1>8, PlainNearest, ModuleNames DEF SetClocksMem, PlanIsClock
  <2>4. QED
    BY <2>2, <2>3
<1>9. CASE SetClocksMemSet
  <2>1. plan.nearest \in Nat /\ plan.nearest # 0
    BY <1>1, <1>9 DEF Plan, PlanIsClock, SetClocksMemSet
  <2>2. QED
    BY <1>1, <1>9, <2>1, PlainSet, ModuleNames DEF SetClocksMemSet, PlanIsClock
<1>10. CASE SetClocksMemDown /\ hw' # hw
  <2>1. plan.target \in Nat
    BY <1>1 DEF Plan
  <2>2. QED
    BY <1>7, <1>10, <2>1 DEF SetClocksMemDown, PlanIsClock
<1>11. CASE DvfsReset /\ hw' # hw
  <2>1. PICK h \in HijackOutcomes(hw, 0) : hw' = GpuAgain(ResetToStock(h, apm.hz, "GPU"))
    BY <1>11 DEF DvfsReset
  <2>2. h \in Hardware /\ Plain(h)
    BY <1>1, <2>1, PlainHijack
  <2>3. Plain(hw')
    BY <1>3, <2>1, <2>2, PlainNearest, ModuleNames DEF GpuAgain
  <2>4. QED
    BY <1>11, <2>3 DEF DvfsReset, PlanIsClock
<1>12. QED
  BY <1>2, <1>4, <1>5, <1>6, <1>8, <1>9, <1>10, <1>11 DEF Tick, RefreshSync, Decide

\* So does the governor, whose clocks are table clocks or assignable ones.
LEMMA GovernorPlain ==
    ASSUME PlainClocks, TypeOK, Plain(hw), PlanIsClock, GovernorThread
    PROVE  Plain(hw') /\ PlanIsClock'
<1>1. hw \in Hardware
  BY DEF TypeOK
<1>2. PlanIsClock'
  BY DEF GovernorThread, GovernorPoll, GovernorBoost, GovernorCpu, GovernorGpuCheck,
         GovernorGpu, PlanIsClock, tick
<1>3. CASE hw' = hw
  BY <1>2, <1>3
<1>4. CASE GovernorCpu /\ hw' # hw
  <2>1. PICK load \in Loads, minHz \in {1, GovernorMin} :
           LET f == GovernorChoice("CPU", load)
           IN  GovernorSets("CPU", IF f < minHz THEN minHz ELSE f)
    BY <1>4 DEF GovernorCpu, GovernorHolds
  <2> DEFINE f == GovernorChoice("CPU", load)
             g == IF f < minHz THEN minHz ELSE f
  <2>2. g \in Nat
    BY GovernorChoiceType, ModuleNames, ClockManagerAssumption
  <2>3. GovernorSets("CPU", g)
    BY <2>1
  <2> HIDE DEF g
  <2>4. hw' = SetHz(hw, "CPU", g) /\ g >= 500000
    BY <1>4, <2>3 DEF GovernorSets, IsAssignable
  <2>5. QED
    BY <1>1, <1>2, <2>2, <2>4, PlainSet, ModuleNames
<1>5. CASE GovernorGpu /\ hw' # hw
  <2>1. PICK load \in Loads : GovernorSets("GPU", GovernorChoice("GPU", load))
    BY <1>5 DEF GovernorGpu, GovernorHolds
  <2> DEFINE g == GovernorChoice("GPU", load)
  <2>2. g \in Nat /\ g # 0 /\ ~IsMiddle(g)
    BY GovernorChoiceType, ModuleNames DEF PlainClocks
  <2>3. hw' = SetHz(hw, "GPU", g)
    BY <1>5, <2>1 DEF GovernorSets
  <2>4. QED
    BY <1>1, <1>2, <2>2, <2>3, PlainSet, ModuleNames
<1>6. QED
  BY <1>3, <1>4, <1>5 DEF GovernorThread, GovernorPoll, GovernorBoost, GovernorGpuCheck

LEMMA NextPlain ==
    ASSUME PlainClocks, TypeOK, Plain(hw), PlanIsClock, [Next]_vars
    PROVE  Plain(hw') /\ PlanIsClock'
<1>1. CASE ApmChange
  <2>1. PICK a \in Apm : hw' = PcvApply(hw, a.hz)
    BY <1>1 DEF ApmChange
  <2>2. hw \in Hardware /\ a.hz \in [Module -> Nat] /\ \A m \in Module : a.hz[m] # 0
    BY ClockManagerAssumption DEF TypeOK, PlainClocks
  <2>3. Plain(hw')
    BY <2>1, <2>2, ModuleNames DEF PcvApply, Plain, Hardware
  <2>4. QED
    BY <1>1, <2>3 DEF ApmChange, PlanIsClock, tick
<1>2. CASE Environment /\ ~ApmChange
  BY <1>2 DEF Environment, TitleChange, ChargerChange, AlarmChange, SetOverride,
              SetConfig, PlanIsClock, tick
<1>3. CASE UNCHANGED vars
  BY <1>3 DEF vars, PlanIsClock, tick
<1>4. QED
  BY <1>1, <1>2, <1>3, TickPlain, GovernorPlain DEF Next

-----------------------------------------------------------------------------
(* Turn by turn.                                                           *)

\* The copies of the Tick thread are what is so.
UpToDate == ctxApp = app /\ ctxProfile = CurrentProfile /\ ctxOvr = ovr

\* Then SetClocks resolves what the user asked for.
LEMMA TargetIsWanted ==
    ASSUME UpToDate, NEW m
    PROVE  /\ Target(m) = WantedHz(m)
           /\ AppliedHz(m) = IF Target(m) = 0 THEN apm.hz[m] ELSE NearestHz(m, Target(m))
BY DEF UpToDate, Target, WantedHz, AppliedHz, NearestHz, Cap

\* ... and rounds the GPU clock it has set to itself.
LEMMA GpuRoundsToItself ==
    ASSUME PlainClocks, TypeOK, UpToDate
    PROVE  NearestHz("GPU", AppliedHz("GPU")) = AppliedHz("GPU")
<1>1. CASE Target("GPU") = 0
  <2>1. AppliedHz("GPU") = apm.hz["GPU"]
    BY <1>1, TargetIsWanted
  <2>2. apm \in Apm /\ cfg \in DOMAIN Ini
    BY DEF TypeOK
  <2>3. ctxProfile \in IF apm.docked THEN {"Docked"} ELSE Chargers
    BY DEF TypeOK, UpToDate, CurrentProfile
  <2>4. QED
    BY <2>1, <2>2, <2>3 DEF PlainClocks, NearestHz, Cap
<1>2. CASE Target("GPU") # 0
  <2>1. AppliedHz("GPU") = Nearest(Table["GPU"], Target("GPU"), Cap("GPU"))
    BY <1>2, TargetIsWanted DEF NearestHz
  <2>2. IsTable(Table["GPU"]) /\ Target("GPU") \in Nat /\ Cap("GPU") \in Nat
    BY ClockManagerAssumption, TargetType, CapType, ModuleNames
  <2>3. QED
    BY <2>1, <2>2, NearestAgain DEF NearestHz
<1>3. QED
  BY <1>1, <1>2

\* What is asked does not change in a quiet tick.
AskedStays == UNCHANGED <<app, charger, apm, cfg, ovr>>

LEMMA AppliedStays ==
    ASSUME AskedStays, NEW m
    PROVE  AppliedHz(m)' = AppliedHz(m) /\ WantedHz(m)' = WantedHz(m)
BY DEF AskedStays, AppliedHz, WantedHz, AutoHz, CurrentProfile

LEMMA DoneStays ==
    ASSUME AskedStays, UNCHANGED <<govOn, isBoost>>, NEW m,
           Runs(hw', m) = Runs(hw, m), Done(m)
    PROVE  Done(m)'
BY AppliedStays, ActualRuns, ActualAfter DEF Done

LEMMA DoneNow ==
    ASSUME AskedStays, NEW m, Runs(hw', m) = AppliedHz(m)
    PROVE  Done(m)'
BY AppliedStays, ActualAfter DEF Done

\* The voltage steps leave the CPU and the GPU where SetClocks has put them.
LEMMA DvfsKeepsDone ==
    ASSUME PlainClocks, TypeOK, Plain(hw), UpToDate, AskedStays,
           UNCHANGED <<govOn, isBoost>>, NEW f \in Nat, ApplyGpuDvfs(f)
    PROVE  /\ Done("CPU") => Done("CPU")'
           /\ Done("GPU") => Done("GPU")'
           /\ hw'.rate["MEM"] = hw.rate["MEM"]
<1>1. Runs(hw', "CPU") = Runs(hw, "CPU") /\ Runs(hw', "MEM") = Runs(hw, "MEM")
  BY ApplyGpuDvfsRuns
<1>2. PICK h \in Hardware : /\ h.injected = hw.injected /\ h.rate = hw.rate
                            /\ hw' = SetHz(h, "GPU", NearestHz("GPU", GetHz(h, "GPU")))
  BY ApplyGpuDvfsRuns
<1>3. GetHz(h, "GPU") = ActualHz("GPU")
  BY <1>2 DEF GetHz, ActualHz, Plain
<1>4. NearestHz("GPU", ActualHz("GPU")) \in Nat
  BY NearestHzType, ModuleNames
<1>5. Runs(hw', "GPU") = NearestHz("GPU", ActualHz("GPU"))
  BY <1>2, <1>3, <1>4, SetHzRuns, ModuleNames
<1>6. ASSUME Done("GPU")
      PROVE  Done("GPU")'
  <2>1. CASE govOn["GPU"]
    BY <2>1 DEF Done
  <2>2. CASE ActualHz("GPU") = AppliedHz("GPU")
    BY <1>5, <2>2, GpuRoundsToItself, DoneNow
  <2>3. QED
    BY <1>6, <2>1, <2>2 DEF Done
<1>7. QED
  BY <1>1, <1>6, DoneStays DEF Runs

Turns == InStep /\ SeesClocks /\ TurnsDone

\* Nothing is promised between ticks, nor when something outside has moved.
LEMMA NothingPromised ==
    /\ tpc' \in {"idle", "ids"} => Turns'
    /\ ~quiet' => Turns'
BY DEF Turns, InStep, SeesClocks, TurnsDone

\* RefreshContext and the decision to apply.
LEMMA RefreshTurns ==
    ASSUME ApplyInv,
           TickBegin \/ RefreshIds \/ RefreshVolts \/ RefreshSync \/ Decide
    PROVE  Turns'
<1>1. InStep /\ SeesClocks /\ TypeOK /\ Plain(hw)
  BY DEF ApplyInv
<1>2. CASE TickBegin
  BY <1>2, NothingPromised DEF TickBegin
<1>3. CASE RefreshIds
  <2>1. /\ ctxApp' = app' /\ ctxProfile' = CurrentProfile'
        /\ tpc' \in {"volts", "sync"}
    BY <1>3 DEF RefreshIds, CurrentProfile, console
  <2>2. QED
    BY <2>1 DEF Turns, InStep, SeesClocks, TurnsDone
<1>4. CASE RefreshVolts
  <2>1. /\ UNCHANGED <<ctxApp, ctxProfile, app, CurrentProfile, quiet>>
        /\ tpc = "volts" /\ tpc' = "sync"
    BY <1>4 DEF RefreshVolts, CurrentProfile, console, context
  <2>2. QED
    BY <1>1, <2>1 DEF Turns, InStep, SeesClocks, TurnsDone
<1>5. CASE RefreshSync
  <2>1. /\ UNCHANGED <<ctxApp, ctxProfile, app, CurrentProfile, ovr, quiet, hw>>
        /\ tpc = "sync" /\ tpc' = "decide" /\ ctxOvr' = ovr
    BY <1>5 DEF RefreshSync, CurrentProfile, console, settings
  <2>2. \A m \in Module : freq'[m] = hw.rate[m]
    <3>1. TAKE m \in Module
    <3>2. m \in FreqRow /\ m # "Governor"
      BY DEF FreqRow, Module
    <3>3. RowHz(hw, m) = hw.rate[m] /\ hw.rate[m] # 0
      BY <1>1, <3>2, PlainGetHz DEF RowHz, Plain
    <3>4. QED
      BY <1>5, <3>2, <3>3 DEF RefreshSync, Else
  <2>3. QED
    BY <1>1, <2>1, <2>2, ModuleNames DEF Turns, InStep, SeesClocks, TurnsDone
<1>6. CASE Decide
  <2>1. /\ UNCHANGED <<ctxApp, ctxProfile, ctxOvr, app, CurrentProfile, ovr,
                       quiet, hw, freq>>
        /\ tpc = "decide" /\ tpc' \in {"cpu", "idle"}
    BY <1>6 DEF Decide, CurrentProfile, console, context
  <2>2. QED
    BY <1>1, <2>1, NothingPromised DEF Turns, InStep, SeesClocks, TurnsDone
<1>7. QED
  BY <1>2, <1>3, <1>4, <1>5, <1>6

\* The steps of SetClocks work on copies that are up to date, and change
\* nothing of what was asked.
SetPC == {"cpu", "gpu", "mem", "memset", "memdown", "dvfsreset"}

LEMMA SetClocksSees ==
    ASSUME ApplyInv, quiet, tpc \in SetPC, Tick
    PROVE  /\ UpToDate /\ AskedStays /\ UNCHANGED <<govOn, isBoost, quiet>>
           /\ InStep'
<1>1. UpToDate
  BY DEF ApplyInv, InStep, SetPC, UpToDate
<1>2. /\ UNCHANGED <<app, charger, apm, cfg, ovr, govOn, isBoost, quiet>>
      /\ UNCHANGED <<ctxApp, ctxProfile, ctxOvr>>
  BY DEF SetPC, Tick, TickBegin, RefreshIds, RefreshVolts, RefreshSync, Decide,
         SetClocksCpu, SetClocksGpu, SetClocksMem, SetClocksMemSet, SetClocksMemDown,
         DvfsReset, HandleGovernor, console, settings, context, governor
<1>3. InStep'
  BY <1>1, <1>2 DEF UpToDate, InStep, CurrentProfile
<1>4. QED
  BY <1>1, <1>2, <1>3 DEF AskedStays

\* The turn of the CPU and of the GPU: done afterwards, the others untouched.
LEMMA ModuleTurn ==
    ASSUME ApplyInv, UpToDate, AskedStays, UNCHANGED <<govOn, isBoost>>,
           PlainClocks, NEW m \in {"CPU", "GPU"}, SetModule(m), freq[m] = hw.rate[m]
    PROVE  /\ Done(m)'
           /\ \A n \in Module \ {m} : /\ Runs(hw', n) = Runs(hw, n)
                                      /\ hw'.rate[n] = hw.rate[n]
                                      /\ freq'[n] = freq[n]
<1>1. /\ TypeOK /\ Plain(hw) /\ hw \in Hardware /\ m \in Module
      /\ apm.hz \in [Module -> Nat] /\ freq \in [FreqRow -> Nat]
  BY ApmType, ModuleNames DEF ApplyInv, TypeOK
<1>2. Runs(hw, m) = hw.rate[m]
  BY <1>1, PlainGetHz
<1>3. NearestHz(m, Target(m)) \in Nat
  BY <1>1, NearestHzType
<1>4. ASSUME NEW k \in Hardware, hw' = k, Plain(k),
             \A n \in Module \ {m} : Runs(k, n) = Runs(hw, n)
      PROVE  \A n \in Module \ {m} : /\ Runs(hw', n) = Runs(hw, n)
                                     /\ hw'.rate[n] = hw.rate[n]
  BY <1>1, <1>4, PlainGetHz
<1>5. CASE govOn[m] /\ UNCHANGED <<hw, freq>>
  BY <1>5 DEF Done
<1>6. CASE Target(m) # 0 /\ NearestHz(m, Target(m)) = freq[m] /\ UNCHANGED <<hw, freq>>
  BY <1>2, <1>6, TargetIsWanted, DoneNow
<1>7. CASE /\ Target(m) # 0
           /\ hw' = SetHz(hw, m, NearestHz(m, Target(m)))
           /\ freq' = [freq EXCEPT ![m] = NearestHz(m, Target(m))]
  <2>1. \A n \in Module : Runs(hw', n) = IF n = m THEN NearestHz(m, Target(m)) ELSE Runs(hw, n)
    BY <1>1, <1>3, <1>7, SetHzRuns
  <2>2. Done(m)'
    BY <1>1, <1>7, <2>1, TargetIsWanted, DoneNow
  <2>3. hw' \in Hardware /\ Plain(hw')
    BY <1>1, <1>7, PlainNearest
  <2>4. \A n \in Module \ {m} : freq'[n] = freq[n]
    BY <1>1, <1>7 DEF FreqRow
  <2>5. QED
    BY <1>4, <2>1, <2>2, <2>3, <2>4
<1>8. CASE Target(m) = 0 /\ hw' = HandleFreqReset(m) /\ UNCHANGED freq
  <2>1. CASE m = "CPU" /\ isBoost
    BY <1>8, <2>1 DEF Done, HandleFreqReset
  <2>2. CASE ~(m = "CPU" /\ isBoost)
    <3>1. hw' = ResetToStock(hw, apm.hz, m)
      BY <1>8, <2>2 DEF HandleFreqReset
    <3>2. \A n \in Module : Runs(hw', n) = IF n = m THEN apm.hz[n] ELSE Runs(hw, n)
      BY <1>1, <3>1, ResetRuns
    <3>3. Done(m)'
      BY <1>1, <1>8, <3>2, TargetIsWanted, DoneNow
    <3>4. hw' \in Hardware /\ Plain(hw')
      BY <1>1, <3>1, PlainStock
    <3>5. QED
      BY <1>4, <1>8, <3>2, <3>3, <3>4
  <2>3. QED
    BY <2>1, <2>2
<1>9. QED
  BY <1>5, <1>6, <1>7, <1>8 DEF SetModule

LEMMA SetClocksTurns ==
    ASSUME PlainClocks, ApplyInv, quiet, SetClocksCpu \/ SetClocksGpu
    PROVE  Turns'
<1>1. /\ UpToDate /\ AskedStays /\ UNCHANGED <<govOn, isBoost, quiet>> /\ InStep'
      /\ SeesClocks /\ TurnsDone
  BY SetClocksSees DEF ApplyInv, SetPC, Tick, SetClocksCpu, SetClocksGpu
<1>2. CASE SetClocksCpu
  <2>1. tpc = "cpu" /\ tpc' = "gpu" /\ SetModule("CPU")
    BY <1>2 DEF SetClocksCpu
  <2>2. /\ Done("CPU")'
        /\ \A n \in {"GPU", "MEM"} : hw'.rate[n] = hw.rate[n] /\ freq'[n] = freq[n]
    BY <1>1, <2>1, ModuleTurn DEF SeesClocks, Module
  <2>3. QED
    BY <1>1, <2>1, <2>2 DEF Turns, SeesClocks, TurnsDone
<1>3. CASE SetClocksGpu
  <2>1. tpc = "gpu" /\ tpc' = "mem" /\ SetModule("GPU")
    BY <1>3 DEF SetClocksGpu
  <2>2. /\ Done("GPU")' /\ Runs(hw', "CPU") = Runs(hw, "CPU")
        /\ hw'.rate["MEM"] = hw.rate["MEM"] /\ freq'["MEM"] = freq["MEM"]
    BY <1>1, <2>1, ModuleTurn DEF SeesClocks, Module
  <2>3. Done("CPU")'
    BY <1>1, <2>1, <2>2, DoneStays DEF TurnsDone
  <2>4. QED
    BY <1>1, <2>1, <2>2, <2>3 DEF Turns, SeesClocks, TurnsDone
<1>4. QED
  BY <1>2, <1>3

\* The turn of the memory: one step, or two with a plan between them.
LEMMA MemTurns ==
    ASSUME PlainClocks, ApplyInv, quiet,
           SetClocksMem \/ SetClocksMemSet \/ SetClocksMemDown
    PROVE  Turns'
<1>1. /\ UpToDate /\ AskedStays /\ UNCHANGED <<govOn, isBoost, quiet>> /\ InStep'
      /\ SeesClocks /\ TurnsDone /\ TypeOK /\ Plain(hw)
  BY SetClocksSees
  DEF ApplyInv, SetPC, Tick, SetClocksMem, SetClocksMemSet, SetClocksMemDown
<1>2. hw \in Hardware /\ plan \in Plan /\ apm.hz \in [Module -> Nat]
  BY <1>1, ApmType DEF TypeOK
<1>3. Done("CPU") /\ Done("GPU")
  BY <1>1 DEF TurnsDone, SetClocksMem, SetClocksMemSet, SetClocksMemDown
<1>4. UNCHANGED hw => Done("CPU")' /\ Done("GPU")'
  BY <1>1, <1>3, DoneStays
<1>5. CASE SetClocksMem
  <2>1. tpc = "mem" /\ Runs(hw, "MEM") = freq["MEM"]
    BY <1>1, <1>5, PlainGetHz DEF SetClocksMem, SeesClocks
  <2>2. CASE /\ Target("MEM") # 0 /\ NearestHz("MEM", Target("MEM")) = freq["MEM"]
             /\ tpc' = "gov" /\ UNCHANGED hw
    <3>1. Done("MEM")'
      BY <1>1, <2>1, <2>2, TargetIsWanted, DoneNow
    <3>2. QED
      BY <1>1, <1>4, <2>2, <3>1 DEF Turns, SeesClocks, TurnsDone
  <2>3. CASE /\ Target("MEM") # 0 /\ tpc' = "memset"
             /\ plan'.nearest = NearestHz("MEM", Target("MEM"))
             /\ ApplyGpuDvfs(Target("MEM")) \/ UNCHANGED hw
    <3>1. Done("CPU")' /\ Done("GPU")'
      BY <1>1, <1>3, <1>4, <2>3, TargetType, DvfsKeepsDone, ModuleNames
    <3>2. WantedHz("MEM")' # 0 /\ plan'.nearest = AppliedHz("MEM")'
      BY <1>1, <2>3, TargetIsWanted, AppliedStays
    <3>3. QED
      BY <1>1, <2>3, <3>1, <3>2 DEF Turns, SeesClocks, TurnsDone
  <2>4. CASE /\ Target("MEM") = 0 /\ tpc' = "dvfsreset"
             /\ hw' = ResetToStock(hw, apm.hz, "MEM")
    <3>1. \A n \in Module : Runs(hw', n) = IF n = "MEM" THEN apm.hz[n] ELSE Runs(hw, n)
      BY <1>2, <2>4, ResetRuns, ModuleNames
    <3>2. Done("CPU")' /\ Done("GPU")' /\ Done("MEM")'
      BY <1>1, <1>3, <2>4, <3>1, TargetIsWanted, DoneStays, DoneNow, ModuleNames
    <3>3. QED
      BY <1>1, <2>4, <3>2 DEF Turns, SeesClocks, TurnsDone
  <2>5. QED
    BY <1>5, <2>2, <2>3, <2>4 DEF SetClocksMem
<1>6. CASE SetClocksMemSet
  <2>1. /\ hw' = SetHz(hw, "MEM", plan.nearest) /\ plan.nearest \in Nat
        /\ plan.nearest = AppliedHz("MEM") /\ tpc' = "memdown"
    BY <1>1, <1>2, <1>6 DEF SetClocksMemSet, TurnsDone, Plan
  <2>2. \A n \in Module : Runs(hw', n) = IF n = "MEM" THEN plan.nearest ELSE Runs(hw, n)
    BY <1>2, <2>1, SetHzRuns, ModuleNames
  <2>3. Done("CPU")' /\ Done("GPU")' /\ Done("MEM")'
    BY <1>1, <1>3, <2>1, <2>2, DoneStays, DoneNow, ModuleNames
  <2>4. QED
    BY <1>1, <2>1, <2>3 DEF Turns, SeesClocks, TurnsDone
<1>7. CASE SetClocksMemDown
  <2>1. tpc = "memdown" /\ tpc' = "gov" /\ Done("MEM") /\ plan.target \in Nat
    BY <1>1, <1>2, <1>7 DEF SetClocksMemDown, TurnsDone, Plan
  <2>2. CASE UNCHANGED hw
    <3>1. Done("MEM")'
      BY <1>1, <2>1, <2>2, DoneStays
    <3>2. QED
      BY <1>1, <1>4, <2>1, <2>2, <3>1 DEF Turns, SeesClocks, TurnsDone
  <2>3. CASE ApplyGpuDvfs(plan.target)
    <3>1. Done("CPU")' /\ Done("GPU")'
      BY <1>1, <1>3, <2>1, <2>3, DvfsKeepsDone
    <3>2. Done("MEM")'
      BY <1>1, <2>1, <2>3, ApplyGpuDvfsRuns, DoneStays
    <3>3. QED
      BY <1>1, <2>1, <3>1, <3>2 DEF Turns, SeesClocks, TurnsDone
  <2>4. QED
    BY <1>7, <2>2, <2>3 DEF SetClocksMemDown
<1>8. QED
  BY <1>5, <1>6, <1>7

\* DVFSReset leaves the GPU at its own target or at stock.
LEMMA DvfsResetTurns ==
    ASSUME PlainClocks, ApplyInv, quiet, DvfsReset
    PROVE  Turns'
<1>1. /\ UpToDate /\ AskedStays /\ UNCHANGED <<govOn, isBoost, quiet>> /\ InStep'
      /\ TurnsDone /\ TypeOK /\ Plain(hw)
  BY SetClocksSees DEF ApplyInv, SetPC, Tick, DvfsReset
<1>2. /\ tpc' = "gov" /\ Done("CPU") /\ Done("GPU") /\ Done("MEM")
      /\ hw \in Hardware /\ apm.hz \in [Module -> Nat]
  BY <1>1, ApmType DEF DvfsReset, TurnsDone, TypeOK
<1>3. Done("CPU")' /\ Done("GPU")' /\ Done("MEM")'
  <2>1. CASE hw' = hw
    BY <1>1, <1>2, <2>1, DoneStays
  <2>2. CASE hw' # hw
    <3>1. PICK h \in HijackOutcomes(hw, 0) : hw' = GpuAgain(ResetToStock(h, apm.hz, "GPU"))
      BY <2>2 DEF DvfsReset
    <3> DEFINE k == ResetToStock(h, apm.hz, "GPU")
    <3>2. /\ k \in Hardware
          /\ \A n \in Module : Runs(k, n) = IF n = "GPU" THEN apm.hz[n] ELSE Runs(hw, n)
      <4>1. h \in Hardware /\ \A n : Runs(h, n) = Runs(hw, n)
        BY <1>1, <1>2, <3>1, PlainHijack
      <4>2. k \in Hardware
        BY <1>2, <4>1, StockType, ModuleNames
      <4>3. \A n \in Module : Runs(k, n) = IF n = "GPU" THEN apm.hz[n] ELSE Runs(h, n)
        BY <1>2, <4>1, ResetRuns, ModuleNames
      <4>4. QED
        BY <4>1, <4>2, <4>3
    <3> HIDE DEF k
    <3>3. NearestHz("GPU", Target("GPU")) \in Nat
      BY <1>1, NearestHzType, ModuleNames
    <3>4. /\ Runs(hw', "GPU") = AppliedHz("GPU")
          /\ Runs(hw', "CPU") = Runs(hw, "CPU") /\ Runs(hw', "MEM") = Runs(hw, "MEM")
      <4>1. CASE Target("GPU") = 0
        BY <1>1, <3>1, <3>2, <4>1, TargetIsWanted, ModuleNames DEF GpuAgain, k
      <4>2. CASE Target("GPU") # 0
        <5>1. hw' = SetHz(k, "GPU", NearestHz("GPU", Target("GPU")))
          BY <3>1, <4>2 DEF GpuAgain, k
        <5>2. QED
          BY <1>1, <3>2, <3>3, <4>2, <5>1, SetHzRuns, TargetIsWanted, ModuleNames
      <4>3. QED
        BY <4>1, <4>2
    <3>5. QED
      BY <1>1, <1>2, <3>4, DoneStays, DoneNow
  <2>3. QED
    BY <2>1, <2>2
<1>4. QED
  BY <1>1, <1>2, <1>3 DEF Turns, SeesClocks, TurnsDone

LEMMA TurnsStay ==
    ASSUME Turns, TickLocks, UNCHANGED <<console, settings, hw, context, tick, govOn, quiet>>
    PROVE  Turns' /\ TickLocks'
<1>1. /\ AskedStays /\ UNCHANGED <<govOn, isBoost, tpc, lock, quiet, plan, hw, freq, CurrentProfile>>
      /\ UNCHANGED <<app, ovr, ctxApp, ctxProfile, ctxOvr>>
  BY DEF AskedStays, CurrentProfile, console, settings, context, tick
<1>2. \A m : Done(m) => Done(m)'
  BY <1>1, DoneStays
<1>3. \A m : AppliedHz(m)' = AppliedHz(m) /\ WantedHz(m)' = WantedHz(m)
  BY <1>1, AppliedStays
<1>4. QED
  BY <1>1, <1>2, <1>3 DEF Turns, InStep, SeesClocks, TurnsDone, TickLocks

\* Both threads take the mutex, so the governor sets no clock during a tick.
LEMMA NextTurns ==
    ASSUME PlainClocks, ApplyInv, [Next]_vars
    PROVE  Turns' /\ TickLocks'
<1>1. TypeOK /\ TickLocks /\ Turns
  BY DEF ApplyInv, Turns
<1>2. CASE Tick
  <2>1. TickLocks'
    BY <1>1, <1>2 DEF TickLocks, Tick, TickBegin, RefreshIds, RefreshVolts, RefreshSync,
       Decide, SetClocksCpu, SetClocksGpu, SetClocksMem, SetClocksMemSet,
       SetClocksMemDown, DvfsReset, HandleGovernor, TypeOK
  <2>2. CASE tpc \in SetPC /\ ~quiet
    <3>1. ~quiet'
      BY <1>2, <2>2 DEF SetPC, Tick, TickBegin, RefreshIds, RefreshVolts, RefreshSync,
         Decide, SetClocksCpu, SetClocksGpu, SetClocksMem, SetClocksMemSet,
         SetClocksMemDown, DvfsReset, HandleGovernor
    <3>2. QED
      BY <2>1, <3>1, NothingPromised
  <2>3. CASE HandleGovernor
    BY <2>1, <2>3, NothingPromised DEF HandleGovernor
  <2>4. CASE TickBegin \/ RefreshIds \/ RefreshVolts \/ RefreshSync \/ Decide
    BY <2>1, <2>4, RefreshTurns
  <2>5. CASE quiet
    BY <1>2, <2>1, <2>3, <2>4, <2>5, SetClocksTurns, MemTurns, DvfsResetTurns DEF Tick
  <2>6. QED
    BY <1>2, <2>2, <2>3, <2>4, <2>5
    DEF Tick, SetPC, SetClocksCpu, SetClocksGpu, SetClocksMem, SetClocksMemSet,
        SetClocksMemDown, DvfsReset
<1>3. CASE GovernorThread
  <2>1. UNCHANGED <<tpc, lock>>
    BY <1>3 DEF GovernorThread, GovernorPoll, GovernorBoost, GovernorCpu,
                GovernorGpuCheck, GovernorGpu, tick
  <2>2. CASE GovernorCpu \/ GovernorGpu
    <3>1. tpc = "idle"
      BY <1>1, <2>2 DEF GovernorCpu, GovernorGpu, TickLocks, TypeOK
    <3>2. QED
      BY <1>1, <2>1, <3>1, NothingPromised DEF TickLocks
  <2>3. CASE GovernorPoll \/ GovernorBoost \/ GovernorGpuCheck
    <3>1. UNCHANGED <<console, settings, hw, context, tick, govOn, quiet>>
      BY <2>3 DEF GovernorPoll, GovernorBoost, GovernorGpuCheck
    <3>2. QED
      BY <1>1, <3>1, TurnsStay
  <2>4. QED
    BY <1>3, <2>2, <2>3 DEF GovernorThread
<1>4. CASE Environment
  <2>1. ~quiet' /\ UNCHANGED <<tpc, lock>>
    BY <1>4 DEF Environment, ApmChange, TitleChange, ChargerChange, AlarmChange,
                SetOverride, SetConfig, Event, tick
  <2>2. QED
    BY <1>1, <2>1, NothingPromised DEF TickLocks
<1>5. CASE UNCHANGED vars
  <2>1. UNCHANGED <<console, settings, hw, context, tick, govOn, quiet>>
    BY <1>5 DEF vars, governor
  <2>2. QED
    BY <1>1, <2>1, TurnsStay
<1>6. QED
  BY <1>2, <1>3, <1>4, <1>5 DEF Next

LEMMA NextApply ==
    ASSUME PlainClocks, ApplyInv, [Next]_vars
    PROVE  ApplyInv'
<1>1. TypeOK'
  BY NextType DEF ApplyInv
<1>2. Plain(hw') /\ PlanIsClock'
  BY NextPlain DEF ApplyInv
<1>3. Turns' /\ TickLocks'
  BY NextTurns
<1>4. QED
  BY <1>1, <1>2, <1>3 DEF ApplyInv, Turns, Plain

LEMMA InitApply ==
    ASSUME PlainClocks, Init
    PROVE  ApplyInv
<1>1. TypeOK
  BY InitType
<1>2. Plain(hw)
  <2>1. apm.hz \in [Module -> Nat] /\ \A m \in Module : apm.hz[m] # 0
    BY <1>1, ApmType DEF PlainClocks, TypeOK
  <2>2. QED
    BY <2>1 DEF Init, Plain
<1>3. PlanIsClock /\ TickLocks /\ InStep /\ SeesClocks /\ TurnsDone
  BY DEF Init, PlanIsClock, TickLocks, InStep, SeesClocks, TurnsDone
<1>4. QED
  BY <1>1, <1>2, <1>3 DEF ApplyInv

\* The promise of SetClocks, for all tables and settings of plain clocks and all
\* interleavings: when it has had its turn with every module and nothing moved
\* meanwhile, every clock is the one asked for, whatever it skipped as unchanged.
THEOREM SetClocksAppliesHolds == PlainClocks => (Spec => []SetClocksApplies)
<1> SUFFICES ASSUME PlainClocks PROVE Spec => []SetClocksApplies
  OBVIOUS
<1>1. Init => ApplyInv
  BY InitApply
<1>2. ApplyInv /\ [Next]_vars => ApplyInv'
  BY NextApply
<1>3. ApplyInv => SetClocksApplies
  <2> SUFFICES ASSUME ApplyInv, tpc = "gov", quiet, NEW m \in Module
               PROVE  \/ m \in {"CPU", "GPU"} /\ govOn[m]
                      \/ m = "CPU" /\ isBoost
                      \/ Applied(m)
    BY DEF SetClocksApplies
  <2>1. Done("CPU") /\ Done("GPU") /\ Done("MEM")
    BY DEF ApplyInv, TurnsDone
  <2>2. Done(m)
    BY <2>1 DEF Module
  <2>3. QED
    BY <2>2 DEF Done, Applied, AppliedHz
<1>4. QED
  BY <1>1, <1>2, <1>3, PTL DEF Spec
=============================================================================
