----------------------------- MODULE DisplayProofs -----------------------------
(***************************************************************************)
(* The rates of the screens, for any screens, rates and number of events:  *)
(* the panel and the docked screen keep within what they may run at, and   *)
(* the panel's PLL is left alone in the dock.                              *)
(***************************************************************************)
EXTENDS Display, WellFoundedInduction, TLAPS

-------------------------------------------------------------------------------
(* The least and the greatest of some numbers, as Min and Max choose them. *)

LEMMA MinFacts ==
    ASSUME NEW S, S \subseteq Nat, S # {}
    PROVE  Min(S) \in S /\ \A y \in S : Min(S) <= y
<1> DEFINE R == {ss \in Nat \X Nat : ss[1] < ss[2]}
<1>1. IsWellFoundedOn(R, Nat)
  BY NatLessThanWellFounded, Zenon DEF OpToRel
<1>2. PICK x \in S : \A y \in S : <<y, x>> \notin R
  <2> HIDE DEF R
  <2> QED  BY <1>1, WFMin
<1>3. ASSUME NEW y \in S, ~(x <= y)  PROVE FALSE
  <2>1. <<y, x>> \in R
    BY <1>3
  <2> HIDE DEF R
  <2> QED  BY <1>2, <2>1
<1>4. \E z \in S : \A y \in S : z <= y
  BY <1>3
<1>5. QED
  BY <1>4 DEF Min

LEMMA MaxFacts ==
    ASSUME NEW n \in Nat, NEW S, S \subseteq 0..n, S # {}
    PROVE  Max(S) \in S /\ \A y \in S : y <= Max(S)
<1> DEFINE D == {n - x : x \in S}
<1>1. D \subseteq Nat /\ D # {}
  <2>1. \A x \in S : n - x \in Nat
    OBVIOUS
  <2>2. QED
    BY <2>1
<1>2. PICK d \in D : \A e \in D : d <= e
  <2> HIDE DEF D
  <2> QED  BY <1>1, MinFacts
<1>3. PICK x \in S : d = n - x
  OBVIOUS
<1>4. \A y \in S : y <= x
  BY <1>2, <1>3
<1>5. QED
  BY <1>3, <1>4 DEF Max

-------------------------------------------------------------------------------
(* The panel.                                                              *)

\* The PLLD that is programmed for a rate is read as that rate, and as docked
\* only from 80 Hz on.
LEMMA PlldFacts ==
    ASSUME NEW r \in 40..80
    PROVE  /\ Plld(r) = [divn |-> Plld(r).divn, sdm |-> Plld(r).sdm]
           /\ Plld(r).divn \in 16..32 /\ Plld(r).sdm \in (-Int16Max - 1)..Int16Max
           /\ PlldRate(Plld(r)) = r
<1> DEFINE q == r \div 5
           s == r % 5
<1>1. q \in 8..16 /\ s \in 0..4 /\ r = 5 * q + s
  OBVIOUS
<1>2. (4 * (r - s)) \div 10 = 2 * q
  BY <1>1
<1>3. Plld(r) = [divn |-> 2 * q, sdm |-> 3328 * r - 4096 * (2 * (2 * q) + 1)]
  BY <1>2 DEF Plld
<1> HIDE DEF q, s
<1>4. Plld(r).divn = 2 * q /\ Plld(r).sdm = 3328 * r - 4096 * (2 * (2 * q) + 1)
  BY <1>3
<1>5. Plld(r).sdm = 256 * q + 3328 * s - 4096
  BY <1>1, <1>4
<1>6. 4096 * (2 * Plld(r).divn + 1) + Plld(r).sdm = 3328 * r
  BY <1>1, <1>4
<1>7. PlldRate(Plld(r)) = r
  BY <1>6 DEF PlldRate
<1>8. Plld(r) = [divn |-> Plld(r).divn, sdm |-> Plld(r).sdm]
  BY <1>3
<1>9. Plld(r).divn \in 16..32
  BY <1>1, <1>4
<1>10. Plld(r).sdm \in (-Int16Max - 1)..Int16Max
  <2>1. Plld(r).sdm >= -2048 /\ Plld(r).sdm <= 13312 /\ Plld(r).sdm \in Int
    BY <1>1, <1>5
  <2>2. Int16Max \in Int /\ Int16Max >= 20000
    BY DEF Int16Max
  <2>3. QED
    BY <2>1, <2>2
<1>11. QED
  BY <1>7, <1>8, <1>9, <1>10

\* The driver leaves the panel's PLLD at one of these in the dock.
DockedPll == {[divn |-> 0, sdm |-> 0], [divn |-> 32, sdm |-> 0]}

LEMMA DockedPllFacts ==
    ASSUME NEW pll \in DockedPll
    PROVE  LooksDocked(pll) /\ pll.divn \in 0..32 /\ pll.sdm \in (-Int16Max - 1)..Int16Max
<1>1. (0 * 10) \div 4 = 0 /\ (32 * 10) \div 4 = 80
  OBVIOUS
<1>2. pll.divn \in {0, 32} /\ pll.sdm = 0
  BY DEF DockedPll
<1>3. LooksDocked(pll)
  BY <1>1, <1>2 DEF LooksDocked
<1>4. Int16Max \in Int /\ Int16Max >= 20000
  BY DEF Int16Max
<1>5. QED
  BY <1>2, <1>3, <1>4

\* Whatever is asked for, the panel gets a rate of its range, and the rate itself
\* when it is in the range.
LEMMA HandheldFacts ==
    ASSUME NEW rate \in Nat
    PROVE  /\ HandheldRate(rate, 4) \in 40..80
           /\ rate \in 40..80 => HandheldRate(rate, 4) = rate
<1> DEFINE fits == {i \in 2..4 : rate * i \in g_handheldModeRefreshRate}
<1>1. ASSUME fits # {}  PROVE rate * Min(fits) \in 40..80
  <2>1. Min(fits) \in fits
    <3>1. fits \subseteq Nat
      OBVIOUS
    <3> HIDE DEF fits
    <3>2. QED
      BY <1>1, <3>1, MinFacts
  <2>2. QED
    BY <2>1 DEF g_handheldModeRefreshRate
<1>2. HandheldRate(rate, 4) =
          IF rate > 80 THEN 80
          ELSE IF rate \in g_handheldModeRefreshRate THEN rate
          ELSE IF (\E i \in 2..4 : rate * i = 60) \/ fits = {} THEN 60
          ELSE rate * Min(fits)
  BY DEF HandheldRate
<1> HIDE DEF fits
<1>3. CASE rate > 80
  BY <1>2, <1>3 DEF g_handheldModeRefreshRate
<1>4. CASE rate \in g_handheldModeRefreshRate
  BY <1>2, <1>4 DEF g_handheldModeRefreshRate
<1>5. CASE ~(rate > 80) /\ rate \notin g_handheldModeRefreshRate
  <2>1. HandheldRate(rate, 4) \in {60, rate * Min(fits)} /\ rate \notin 40..80
        /\ (fits = {} => HandheldRate(rate, 4) = 60)
    BY <1>2, <1>5 DEF g_handheldModeRefreshRate
  <2>2. QED
    BY <1>1, <2>1
<1>6. QED
  BY <1>3, <1>4, <1>5

-------------------------------------------------------------------------------
(* The docked screen.                                                      *)

LEMMA RateTable ==
    /\ RateIndices = 1..28
    /\ \A i \in 1..28 : g_dockedRefreshRates[i] \in 40..240
    /\ g_dockedRefreshRates[1] = 40
BY DEF RateIndices, g_dockedRefreshRates

LEMMA HighestFacts ==
    ASSUME NEW rates, rates \subseteq Nat
    PROVE  HighestRate(rates) \in 60..240
<1> DEFINE S == {60} \cup {r % 256 : r \in rates}
<1>1. S \subseteq 0..255 /\ 60 \in S
  <2>1. \A r \in rates : r % 256 \in 0..255
    OBVIOUS
  <2>2. QED
    BY <2>1
<1>2. HighestRate(rates) = IF Max(S) > 240 THEN 240 ELSE Max(S)
  BY DEF HighestRate
<1> HIDE DEF S
<1>3. 255 \in Nat /\ S # {}
  BY <1>1
<1>4. Max(S) \in S /\ \A y \in S : y <= Max(S)
  BY <1>1, <1>3, MaxFacts
<1>5. Max(S) \in 0..255 /\ 60 <= Max(S)
  BY <1>1, <1>4
<1>6. QED
  BY <1>2, <1>5

\* The entry that is taken is not above the highest rate of the screen.
LEMMA DockedFacts ==
    ASSUME NEW rate \in Nat \ {0}, NEW highest \in 60..240
    PROVE  /\ DockedIndex(rate, FALSE, highest) \in 1..28
           /\ g_dockedRefreshRates[DockedIndex(rate, FALSE, highest)] <= highest
<1> DEFINE multiples == {i \in RateIndices : g_dockedRefreshRates[i] % rate = 0}
           itr == IF rate <= 60 /\ 60 % rate = 0 THEN 5
                  ELSE IF multiples # {} THEN Min(multiples) ELSE 5
           below == {i \in 1..itr : g_dockedRefreshRates[i] <= highest}
<1>1. multiples \subseteq 1..28
  BY RateTable
<1>2. itr \in 1..28
  <2>1. multiples # {} => Min(multiples) \in 1..28
    <3>1. multiples \subseteq Nat
      BY <1>1
    <3> HIDE DEF multiples
    <3>2. QED
      BY <1>1, <3>1, MinFacts
  <2> HIDE DEF multiples
  <2>2. QED
    BY <2>1
<1>3. DockedIndex(rate, FALSE, highest) =
          IF g_dockedRefreshRates[itr] > highest /\ below # {} THEN Max(below) ELSE itr
  BY DEF DockedIndex
<1> HIDE DEF itr
<1>4. below \subseteq 1..28 /\ 1 \in below
  BY <1>2, RateTable
<1>5. Max(below) \in below
  <2>1. 28 \in Nat /\ below \subseteq 0..28 /\ below # {}
    BY <1>4
  <2> HIDE DEF below
  <2>2. QED
    BY <2>1, MaxFacts
<1>6. Max(below) \in 1..28 /\ g_dockedRefreshRates[Max(below)] <= highest
  BY <1>4, <1>5
<1> HIDE DEF below
<1>7. CASE g_dockedRefreshRates[itr] > highest
  <2>1. DockedIndex(rate, FALSE, highest) = Max(below)
    BY <1>3, <1>4, <1>7
  <2>2. QED
    BY <1>6, <2>1
<1>8. CASE ~(g_dockedRefreshRates[itr] > highest)
  <2>1. DockedIndex(rate, FALSE, highest) = itr
    BY <1>3, <1>8
  <2>2. g_dockedRefreshRates[itr] \in 40..240
    BY <1>2, RateTable
  <2>3. g_dockedRefreshRates[itr] <= highest
    BY <1>8, <2>2
  <2>4. QED
    BY <1>2, <2>1, <2>3
<1>9. QED
  BY <1>7, <1>8

-------------------------------------------------------------------------------
(* The inductive invariant.                                                *)

Lines == {720, 1080}
Mods == [isDocked: BOOLEAN, canChange: BOOLEAN, highest: 60..240,
         lastVActive: Lines]
Threads == [pc: {"idle", "lock"}, fps: Rates, focusTick: 0..VrrFocusTicks,
            vrrTick: 0..VrrTicks]

\* The variables other than the hardware's are of their kind, and no screen
\* answers a console in the hand.
StateRight ==
    /\ place \in {"hand", "dock"} /\ link \in BOOLEAN /\ (place = "hand" => ~link)
    /\ sink \in Sinks /\ mod \in Mods
    /\ ctx \in [profile: {"Handheld", "Docked"}, freq: Rates, override: OverrideRates]
    /\ settings \in Settings /\ stale \in BOOLEAN /\ game \in Games
    /\ hold \in Holds
    /\ tick \in {"idle", "set", "boost", "skip"}
    /\ vrr \in [on: BOOLEAN, last: BOOLEAN] /\ thread \in Threads
    /\ held \in BOOLEAN /\ drove \in Drivers /\ swapped \in BOOLEAN
    /\ events \in 0..MaxEvents

\* In the dock the PLLD stands where the operating system left it, in the hand
\* at a rate that was programmed.
HwRight(h) ==
    /\ h = [pll |-> h.pll, mode |-> h.mode] /\ h.mode \in 0..240
    /\ place = "dock" => h.pll \in DockedPll
    /\ place = "hand" => \E r \in 40..80 : h.pll = Plld(r)

\* The screen in the dock is within what it offers, and what the sysmodule
\* takes for its highest rate is that of this screen.
ModeWithin(h) == place = "dock" /\ ~swapped => h.mode <= HighestRate(sink.rates)
ScreenKnown(m) ==
    place = "dock" /\ ~swapped /\ m.canChange => m.highest = HighestRate(sink.rates)

DisplayIInv == StateRight /\ HwRight(hw) /\ ModeWithin(hw) /\ ScreenKnown(mod)

\* The panel, when it is driven, runs at a rate it may be set to ...
Bears(h) == place = "hand" => \E r \in 40..PanelMax : h.pll = Plld(r)

\* ... or at another one of its range that one of the two drivers has set that may
\* set it.
Fits(h, d) ==
    place = "hand" =>
        \E r \in 40..80 : h.pll = Plld(r) /\ (r <= PanelMax \/ d \in {"docked", "cut", "latecut"})

LEMMA FitsFacts ==
    ASSUME NEW h, NEW d
    PROVE  /\ Bears(h) => Fits(h, d)
           /\ HwRight(h) /\ d \in {"docked", "cut", "latecut"} => Fits(h, d)
<1>1. ASSUME Bears(h)  PROVE Fits(h, d)
  <2>1. ASSUME place = "hand"
        PROVE  \E r \in 40..80 : h.pll = Plld(r) /\ (r <= PanelMax \/ d \in {"docked", "cut", "latecut"})
    <3>1. PICK r \in 40..PanelMax : h.pll = Plld(r)
      BY <1>1, <2>1 DEF Bears
    <3>2. r \in 40..80 /\ r <= PanelMax
      BY DisplayAssumption
    <3>3. QED
      BY <3>1, <3>2
  <2>2. QED
    BY <2>1 DEF Fits
<1>2. HwRight(h) /\ d \in {"docked", "cut", "latecut"} => Fits(h, d)
  BY DEF HwRight, Fits
<1>3. QED
  BY <1>1, <1>2

LEMMA KnownRates ==
    /\ PanelMax \in 60..75 /\ Sinks # {}
    /\ \A s \in Sinks : s.v \in Lines /\ s.rates \subseteq Nat
    /\ \A r \in OverrideRates \cup HandheldRates : r \in {0} \cup (40..PanelMax)
    /\ \A r \in DockedRates : r \in {0} \cup (40..240)
    /\ \A r \in FpsSeen : r \in Rates
    /\ VrrFocusTicks \in Nat /\ VrrTicks \in Nat /\ MaxEvents \in Nat
BY DisplayAssumption DEF Rates, Lines

-------------------------------------------------------------------------------
(* The calls of the driver.                                                *)

LEMMA SetPlldRight ==
    ASSUME NEW h, HwRight(h), NEW rate \in Nat
    PROVE  /\ SetPlld(h, rate) \in {h, [h EXCEPT !.pll = Plld(HandheldRate(rate, 4))]}
           /\ place = "dock" => SetPlld(h, rate) = h
<1>1. place = "dock" => LooksDocked(h.pll)
  BY DockedPllFacts DEF HwRight
<1>2. QED
  BY <1>1 DEF SetPlld

LEMMA SetDockedRight ==
    ASSUME StateRight, NEW h, NEW rate \in Nat \ {0}
    PROVE  \/ SetDocked(h, mod, rate) = h
           \/ \E hz \in 40..mod.highest :
                 mod.canChange /\ SetDocked(h, mod, rate) = [h EXCEPT !.mode = hz]
<1> DEFINE i == DockedIndex(rate, FALSE, mod.highest)
<1>1. mod.highest \in 60..240
  BY DEF StateRight, Mods
<1>2. i \in 1..28 /\ g_dockedRefreshRates[i] <= mod.highest
  BY <1>1, DockedFacts
<1>3. \/ SetDocked(h, mod, rate) = h
      \/ mod.canChange
         /\ SetDocked(h, mod, rate) = [h EXCEPT !.mode = g_dockedRefreshRates[i]]
  BY DEF SetDocked
<1> HIDE DEF i
<1>4. g_dockedRefreshRates[i] \in 40..mod.highest
  <2>1. g_dockedRefreshRates[i] \in 40..240
    BY <1>2, RateTable
  <2>2. QED
    BY <1>1, <1>2, <2>1
<1>5. QED
  BY <1>3, <1>4

\* SetRate moves the panel in the hand, the screen in the dock, or nothing.
LEMMA SetRateCases ==
    ASSUME StateRight, NEW h, HwRight(h), NEW rate \in Nat, NEW nv
    PROVE  LET s == SetRate(h, mod, rate, nv) IN
           \/ s = h
           \/ /\ place = "hand" /\ rate # 0
              /\ s = [h EXCEPT !.pll = Plld(HandheldRate(rate, 4))]
           \/ /\ place = "dock" /\ mod.canChange
              /\ \E hz \in 40..mod.highest : s = [h EXCEPT !.mode = hz]
<1>1. CASE rate = 0 \/ nv = "none"
  <2>1. SetRate(h, mod, rate, nv) = h
    <3>1. CASE rate = 0
      BY <3>1 DEF SetRate
    <3>2. CASE nv = "none"
      BY <3>2 DEF SetRate
    <3>3. QED
      BY <1>1, <3>1, <3>2
  <2>2. QED
    BY <2>1
<1>2. CASE rate # 0 /\ nv # "none" /\ (Lite \/ nv = "nodock" \/ ~link)
  <2>1. SetRate(h, mod, rate, nv) = SetPlld(h, rate)
    BY <1>2 DEF SetRate
  <2>2. place \in {"hand", "dock"}
    BY DEF StateRight
  <2>3. QED
    BY <1>2, <2>1, <2>2, SetPlldRight
<1>3. CASE rate # 0 /\ nv # "none" /\ ~(Lite \/ nv = "nodock" \/ ~link)
  <2>1. place = "dock"
    BY <1>3 DEF StateRight
  <2>2. SetRate(h, mod, rate, nv) \in {h, SetDocked(h, mod, rate)}
    BY <1>3 DEF SetRate
  <2>3. QED
    BY <1>3, <2>1, <2>2, SetDockedRight
<1>4. QED
  BY <1>1, <1>2, <1>3

LEMMA SetRateRight ==
    ASSUME StateRight, ScreenKnown(mod), NEW h, HwRight(h), ModeWithin(h),
           NEW rate \in Nat, NEW nv
    PROVE  LET s == SetRate(h, mod, rate, nv) IN
           /\ HwRight(s) /\ ModeWithin(s)
           /\ place = "dock" => s.pll = h.pll
<1> DEFINE s == SetRate(h, mod, rate, nv)
           r == HandheldRate(rate, 4)
<1>1. \/ s = h
      \/ place = "hand" /\ s = [h EXCEPT !.pll = Plld(r)]
      \/ /\ place = "dock" /\ mod.canChange
         /\ \E hz \in 40..mod.highest : s = [h EXCEPT !.mode = hz]
  BY SetRateCases
<1>2. r \in 40..80
  BY HandheldFacts
<1>3. h = [pll |-> h.pll, mode |-> h.mode]
  BY DEF HwRight
<1>4. mod.highest \in 60..240
  BY DEF StateRight, Mods
<1> HIDE DEF s, r
<1>5. CASE s = h
  BY <1>5 DEF s
<1>6. CASE place = "hand" /\ s = [h EXCEPT !.pll = Plld(r)]
  <2>1. s.mode = h.mode /\ s.pll = Plld(r) /\ s = [pll |-> s.pll, mode |-> s.mode]
    BY <1>3, <1>6
  <2>2. HwRight(s) /\ ModeWithin(s)
    BY <1>2, <1>6, <2>1 DEF HwRight, ModeWithin
  <2>3. QED
    BY <1>6, <2>2 DEF s
<1>7. CASE /\ place = "dock" /\ mod.canChange
           /\ \E hz \in 40..mod.highest : s = [h EXCEPT !.mode = hz]
  <2>1. PICK hz \in 40..mod.highest : s = [h EXCEPT !.mode = hz]
    BY <1>7
  <2>2. s.mode = hz /\ s.pll = h.pll /\ s = [pll |-> s.pll, mode |-> s.mode]
    BY <1>3, <2>1
  <2>3. hz \in 0..240 /\ hz <= mod.highest
    BY <1>4
  <2>4. HwRight(s)
    BY <1>7, <2>2, <2>3 DEF HwRight
  <2>5. ModeWithin(s)
    BY <1>7, <2>2, <2>3 DEF ModeWithin, ScreenKnown
  <2>6. QED
    BY <2>2, <2>4, <2>5 DEF s
<1>8. QED
  BY <1>1, <1>5, <1>6, <1>7

\* A rate the panel bears, or none.
Borne(rate) == rate # 0 => HandheldRate(rate, 4) <= PanelMax

LEMMA SetRateBears ==
    ASSUME StateRight, NEW h, HwRight(h), NEW rate \in Nat, Borne(rate), NEW nv
    PROVE  SetRate(h, mod, rate, nv) = h \/ Bears(SetRate(h, mod, rate, nv))
<1> DEFINE s == SetRate(h, mod, rate, nv)
           r == HandheldRate(rate, 4)
<1>1. \/ s = h \/ place = "dock"
      \/ rate # 0 /\ s = [h EXCEPT !.pll = Plld(r)]
  BY SetRateCases
<1>2. r \in 40..80 /\ (rate # 0 => r <= PanelMax)
  BY HandheldFacts DEF Borne
<1>3. h = [pll |-> h.pll, mode |-> h.mode]
  BY DEF HwRight
<1> HIDE DEF s, r
<1>4. CASE s = h \/ place = "dock"
  BY <1>4 DEF Bears, s
<1>5. CASE rate # 0 /\ s = [h EXCEPT !.pll = Plld(r)]
  <2>1. s.pll = Plld(r)
    BY <1>3, <1>5
  <2>2. r \in 40..PanelMax
    BY <1>2, <1>5, KnownRates
  <2>3. QED
    BY <2>1, <2>2 DEF Bears, s
<1>6. QED
  BY <1>1, <1>4, <1>5

\* What GetRate and Refresh change of the globals about the dock.
LEMMA ModSet ==
    ASSUME NEW m \in Mods, NEW b \in BOOLEAN
    PROVE  /\ [m EXCEPT !.isDocked = b] \in Mods
           /\ [m EXCEPT !.isDocked = b].canChange = m.canChange
           /\ [m EXCEPT !.isDocked = b].highest = m.highest
           /\ [m EXCEPT !.canChange = b] \in Mods
           /\ [m EXCEPT !.canChange = b].canChange = b
<1>1. [m EXCEPT !.isDocked = b] \in Mods
  BY DEF Mods
<1>2. [m EXCEPT !.canChange = b] \in Mods
  BY DEF Mods
<1>3. [m EXCEPT !.isDocked = b].canChange = m.canChange
  BY DEF Mods
<1>4. [m EXCEPT !.isDocked = b].highest = m.highest
  BY DEF Mods
<1>5. [m EXCEPT !.canChange = b].canChange = b
  BY DEF Mods
<1>6. QED
  BY <1>1, <1>2, <1>3, <1>4, <1>5

LEMMA ModHighest ==
    ASSUME NEW m \in Mods, NEW top \in 60..240
    PROVE  [m EXCEPT !.highest = top] \in Mods /\ [m EXCEPT !.highest = top].highest = top
BY DEF Mods

LEMMA ModVActive ==
    ASSUME NEW m \in Mods, NEW v \in Lines
    PROVE  [m EXCEPT !.lastVActive = v] \in Mods
BY DEF Mods

LEMMA ModDocked ==
    ASSUME NEW m \in Mods
    PROVE  /\ [m EXCEPT !.isDocked = TRUE] \in Mods
           /\ [m EXCEPT !.isDocked = TRUE].canChange = m.canChange
           /\ [m EXCEPT !.isDocked = TRUE].highest = m.highest
<1>1. TRUE \in BOOLEAN
  OBVIOUS
<1>2. [m EXCEPT !.isDocked = TRUE] \in Mods
  BY <1>1, ModSet, Zenon
<1>3. [m EXCEPT !.isDocked = TRUE].canChange = m.canChange
  BY DEF Mods
<1>4. [m EXCEPT !.isDocked = TRUE].highest = m.highest
  BY DEF Mods
<1>5. QED
  BY <1>2, <1>3, <1>4

LEMMA ModHand ==
    ASSUME NEW m \in Mods
    PROVE  /\ [m EXCEPT !.isDocked = FALSE, !.canChange = FALSE] \in Mods
           /\ ~[m EXCEPT !.isDocked = FALSE, !.canChange = FALSE].canChange
<1>1. FALSE \in BOOLEAN
  OBVIOUS
<1>2. [m EXCEPT !.isDocked = FALSE, !.canChange = FALSE]
          = [[m EXCEPT !.isDocked = FALSE] EXCEPT !.canChange = FALSE]
  BY Zenon
<1>3. [m EXCEPT !.isDocked = FALSE] \in Mods
  BY <1>1, ModSet, Zenon
<1>4. QED
  BY <1>1, <1>2, <1>3, ModSet, Zenon

LEMMA ModFound ==
    ASSUME NEW m \in Mods, NEW top \in 60..240
    PROVE  /\ [m EXCEPT !.canChange = TRUE, !.highest = top] \in Mods
           /\ [m EXCEPT !.canChange = TRUE, !.highest = top].highest = top
<1> DEFINE n == [m EXCEPT !.canChange = TRUE]
<1>1. TRUE \in BOOLEAN
  OBVIOUS
<1>2. [m EXCEPT !.canChange = TRUE, !.highest = top] = [n EXCEPT !.highest = top]
  BY Zenon
<1>3. n \in Mods
  BY <1>1, ModSet, Zenon
<1> HIDE DEF n
<1>4. [n EXCEPT !.highest = top] \in Mods /\ [n EXCEPT !.highest = top].highest = top
  BY <1>3, ModHighest
<1>5. QED
  BY <1>2, <1>4

LEMMA ModAgain ==
    ASSUME NEW m \in Mods, NEW top \in 60..240, NEW v \in Lines
    PROVE  /\ [m EXCEPT !.lastVActive = v, !.highest = top] \in Mods
           /\ [m EXCEPT !.lastVActive = v, !.highest = top].highest = top
<1> DEFINE n == [m EXCEPT !.lastVActive = v]
<1>1. [m EXCEPT !.lastVActive = v, !.highest = top] = [n EXCEPT !.highest = top]
  BY Zenon
<1>2. n \in Mods
  BY ModVActive, Zenon
<1> HIDE DEF n
<1>3. [n EXCEPT !.highest = top] \in Mods /\ [n EXCEPT !.highest = top].highest = top
  BY <1>2, ModHighest, Zenon
<1>4. QED
  BY <1>1, <1>3

LEMMA GetRateRight ==
    ASSUME StateRight, HwRight(hw), NEW nv
    PROVE  LET read == GetRate(hw, mod, nv) IN
           /\ read.hz \in Rates /\ read.mod \in Mods
           /\ ScreenKnown(mod) => ScreenKnown(read.mod)
<1> DEFINE read == GetRate(hw, mod, nv)
           top  == HighestRate(sink.rates)
<1>1. /\ mod \in Mods /\ sink.v \in Lines /\ top \in 60..240
      /\ place \in {"hand", "dock"}
  <2>1. sink \in Sinks
    BY DEF StateRight
  <2>2. sink.v \in Lines /\ sink.rates \subseteq Nat
    BY <2>1, KnownRates
  <2>3. QED
    BY <2>2, HighestFacts DEF StateRight
<1> DEFINE docked == [mod EXCEPT !.isDocked = TRUE]
           found  == IF mod.canChange THEN docked
                     ELSE [docked EXCEPT !.canChange = TRUE, !.highest = top]
           again  == IF mod.lastVActive = sink.v THEN found
                     ELSE [found EXCEPT !.lastVActive = sink.v, !.highest = top]
           hand   == [mod EXCEPT !.isDocked = FALSE, !.canChange = FALSE]
<1>2. /\ hand \in Mods /\ docked \in Mods
      /\ ~hand.canChange
      /\ docked.canChange = mod.canChange /\ docked.highest = mod.highest
  <2>1. mod \in Mods
    BY <1>1
  <2>2. hand \in Mods /\ ~hand.canChange
    BY <2>1, ModHand, Zenon
  <2>3. /\ docked \in Mods
        /\ docked.canChange = mod.canChange /\ docked.highest = mod.highest
    BY <2>1, ModDocked, Zenon
  <2>4. QED
    BY <2>2, <2>3
<1>3. /\ found \in Mods
      /\ found.highest = IF mod.canChange THEN mod.highest ELSE top
  <2>1. CASE mod.canChange
    BY <1>2, <2>1
  <2>2. CASE ~mod.canChange
    <3> HIDE DEF docked, top
    <3>1. found = [docked EXCEPT !.canChange = TRUE, !.highest = top]
      BY <2>2
    <3>2. QED
      <4>1. docked \in Mods /\ top \in 60..240
        BY <1>1, <1>2
      <4>2. found \in Mods /\ found.highest = top
        BY <3>1, <4>1, ModFound, Zenon
      <4>3. QED
        BY <2>2, <4>2
  <2>3. QED
    BY <2>1, <2>2
<1>4. /\ again \in Mods
      /\ again.highest \in {found.highest, top}
  <2>1. CASE mod.lastVActive = sink.v
    BY <1>3, <2>1
  <2>2. CASE mod.lastVActive # sink.v
    <3> HIDE DEF found, top
    <3>1. again = [found EXCEPT !.lastVActive = sink.v, !.highest = top]
      BY <2>2
    <3> HIDE DEF again
    <3>2. QED
      <4>1. found \in Mods /\ top \in 60..240 /\ sink.v \in Lines
        BY <1>1, <1>3
      <4>2. again \in Mods /\ again.highest = top
        BY <3>1, <4>1, ModAgain, Zenon
      <4>3. QED
        BY <4>2
  <2>3. QED
    BY <2>1, <2>2
<1>5. \/ ~LooksDocked(hw.pll) /\ read = [hz |-> PlldRate(hw.pll), mod |-> hand]
      \/ read = [hz |-> NoRate, mod |-> mod]
      \/ ~mod.canChange /\ read = [hz |-> NoRate, mod |-> docked]
      \/ read = [hz |-> 60, mod |-> found]
      \/ read = [hz |-> hw.mode, mod |-> again]
  BY DEF GetRate
<1> HIDE DEF read, top, docked, found, again, hand
<1>6. CASE ~LooksDocked(hw.pll) /\ read = [hz |-> PlldRate(hw.pll), mod |-> hand]
  <2>1. place = "hand"
    BY <1>1, <1>6, DockedPllFacts DEF HwRight
  <2>2. PICK r \in 40..80 : hw.pll = Plld(r)
    BY <2>1 DEF HwRight
  <2>3. PlldRate(hw.pll) \in Rates
    BY <2>2, PlldFacts DEF Rates
  <2>4. read.hz \in Rates /\ read.mod \in Mods /\ ScreenKnown(read.mod)
    BY <1>2, <1>6, <2>3 DEF ScreenKnown
  <2>5. QED
    BY <2>4 DEF read
<1>7. CASE read = [hz |-> NoRate, mod |-> mod]
  <2>1. read.hz \in Rates /\ read.mod = mod
    BY <1>7 DEF NoRate, Rates
  <2>2. QED
    BY <1>1, <2>1 DEF read
<1>8. CASE ~mod.canChange /\ read = [hz |-> NoRate, mod |-> docked]
  <2>1. read.hz \in Rates /\ read.mod \in Mods /\ ScreenKnown(read.mod)
    BY <1>2, <1>8 DEF NoRate, Rates, ScreenKnown
  <2>2. QED
    BY <2>1 DEF read
<1>9. CASE read = [hz |-> 60, mod |-> found]
  <2>1. read.hz \in Rates /\ read.mod = found
    BY <1>9 DEF Rates
  <2>2. ScreenKnown(mod) => ScreenKnown(found)
    BY <1>3 DEF ScreenKnown, top
  <2>3. QED
    BY <1>3, <2>1, <2>2 DEF read
<1>10. CASE read = [hz |-> hw.mode, mod |-> again]
  <2>1. read.hz \in Rates /\ read.mod = again
    BY <1>10 DEF HwRight, Rates
  <2>2. ScreenKnown(mod) => ScreenKnown(again)
    BY <1>3, <1>4 DEF ScreenKnown, top
  <2>3. QED
    BY <1>4, <2>1, <2>2 DEF read
<1>11. QED
  BY <1>5, <1>6, <1>7, <1>8, <1>9, <1>10

-------------------------------------------------------------------------------
(* The rates asked for.                                                    *)

LEMMA TargetFacts ==
    ASSUME StateRight
    PROVE  /\ Target(ctx) \in OverrideRates \cup HandheldRates \cup DockedRates
           /\ Target(ctx) \in Rates /\ Target(ctx) \in Nat
<1>1. /\ ctx.override \in OverrideRates /\ ctx.profile \in {"Handheld", "Docked"}
      /\ settings.auto.Handheld \in HandheldRates /\ settings.auto.Docked \in DockedRates
  BY DEF StateRight, Settings
<1>2. settings.auto[ctx.profile] \in HandheldRates \cup DockedRates
  BY <1>1
<1>3. Target(ctx) \in OverrideRates \cup HandheldRates \cup DockedRates
  BY <1>1, <1>2 DEF Target
<1>4. \A r \in OverrideRates \cup HandheldRates \cup DockedRates : r \in 0..240
  BY KnownRates
<1>5. Target(ctx) \in 0..240
  BY <1>3, <1>4
<1>6. QED
  BY <1>3, <1>5 DEF Rates

LEMMA MaxDisplayFacts ==
    ASSUME StateRight
    PROVE  MaxDisplay \in Rates /\ MaxDisplay \in Nat
<1> DEFINE hz == IF ctx.override # 0 THEN ctx.override
                 ELSE settings.auto[ctx.profile] * 1000000
<1>1. /\ ctx.override \in OverrideRates /\ ctx.profile \in {"Handheld", "Docked"}
      /\ settings.auto.Handheld \in HandheldRates /\ settings.auto.Docked \in DockedRates
  BY DEF StateRight, Settings
<1>2. ctx.override \in Nat /\ settings.auto[ctx.profile] \in Nat
  <2>1. \A r \in OverrideRates \cup HandheldRates \cup DockedRates : r \in Nat
    BY KnownRates
  <2>2. QED
    BY <1>1, <2>1
<1>3. hz \in Nat
  BY <1>2
<1>4. MaxDisplay = IF hz = 0 THEN 60 ELSE hz % 256
  BY DEF MaxDisplay
<1> HIDE DEF hz
<1>5. MaxDisplay \in 0..255
  BY <1>3, <1>4
<1>6. QED
  BY <1>5 DEF Rates

\* VRR asks for nothing or for a rate up to its maximum.
LEMMA VrrRateFacts ==
    ASSUME StateRight, NEW fps \in Rates
    PROVE  /\ VrrRate(fps) \in Rates /\ VrrRate(fps) \in Nat
           /\ VrrRate(fps) = 0 \/ VrrRate(fps) \in 40..MaxDisplay
<1> DEFINE fits == {i \in 1..9 : fps * i \in MinDisplay..MaxDisplay}
<1>1. MaxDisplay \in 0..255 /\ MinDisplay \in {40, 45}
  BY MaxDisplayFacts DEF Rates, MinDisplay
<1>2. VrrRate(fps) = IF fits = {} THEN 0 ELSE fps * Min(fits)
  BY DEF VrrRate
<1>3. fits # {} => Min(fits) \in fits
  <2>1. fits \subseteq Nat
    OBVIOUS
  <2> HIDE DEF fits
  <2>2. QED
    BY <2>1, MinFacts
<1>4. \A i \in fits : fps * i \in 40..MaxDisplay
  <2>1. fps \in Nat
    BY DEF Rates
  <2>2. QED
    BY <1>1, <2>1
<1> HIDE DEF fits
<1>5. VrrRate(fps) = 0 \/ VrrRate(fps) \in 40..MaxDisplay
  BY <1>2, <1>3, <1>4
<1>6. VrrRate(fps) \in 0..255
  BY <1>1, <1>5
<1>7. QED
  BY <1>5, <1>6 DEF Rates

LEMMA BorneRates ==
    ASSUME NEW rate \in Nat, rate = 0 \/ rate \in 40..PanelMax
    PROVE  Borne(rate)
<1>1. PanelMax \in 60..75
  BY KnownRates
<1>2. CASE rate = 0
  BY <1>2 DEF Borne
<1>3. CASE rate \in 40..PanelMax
  <2>1. rate \in 40..80
    BY <1>1, <1>3
  <2>2. HandheldRate(rate, 4) = rate
    BY <2>1, HandheldFacts
  <2>3. QED
    BY <1>3, <2>2 DEF Borne
<1>4. QED
  BY <1>2, <1>3

\* But for the docked profile's, the tick asks for rates the panel bears.
LEMMA TargetBorne ==
    ASSUME StateRight
    PROVE  /\ Borne(60)
           /\ ~(ctx.profile = "Docked" /\ ctx.override = 0) => Borne(Target(ctx))
<1>1. Borne(60)
  <2>1. 60 \in Nat /\ 60 \in 40..PanelMax
    BY KnownRates
  <2>2. QED
    BY <2>1, BorneRates
<1>2. ASSUME ~(ctx.profile = "Docked" /\ ctx.override = 0)  PROVE Borne(Target(ctx))
  <2>1. /\ ctx.override \in OverrideRates /\ ctx.profile \in {"Handheld", "Docked"}
        /\ settings.auto.Handheld \in HandheldRates
    BY DEF StateRight, Settings
  <2>2. Target(ctx) \in OverrideRates \cup HandheldRates
    BY <1>2, <2>1 DEF Target
  <2>3. Target(ctx) = 0 \/ Target(ctx) \in 40..PanelMax
    BY <2>2, KnownRates
  <2>4. QED
    BY <2>3, TargetFacts, BorneRates
<1>3. QED
  BY <1>1, <1>2

\* What is left of a rate in Hz times 1000000 in 8 bits.
LEMMA CutFacts ==
    ASSUME NEW r \in Nat
    PROVE  (r * 1000000) % 256 \in {0, 64, 128, 192}
<1> DEFINE n == 15625 * r
           k == n \div 4
           s == n % 4
<1>1. n \in Nat /\ r * 1000000 = 64 * n
  OBVIOUS
<1> HIDE DEF n
<1>2. k \in Nat /\ s \in 0..3 /\ n = 4 * k + s
  BY <1>1
<1> HIDE DEF k, s
<1>3. r * 1000000 = 256 * k + 64 * s
  BY <1>1, <1>2
<1>4. 64 * s \in {0, 64, 128, 192}
  BY <1>2
<1>5. \A t \in {0, 64, 128, 192} : (256 * k + t) % 256 = t
  BY <1>2
<1>6. QED
  BY <1>3, <1>4, <1>5

\* Unless the cut has raised its maximum, VRR asks for rates the panel bears.
LEMMA VrrBorne ==
    ASSUME StateRight, ~(MaxDisplay > PanelMax), NEW fps \in Rates
    PROVE  Borne(MaxDisplay) /\ Borne(VrrRate(fps))
<1>1. PanelMax \in 60..75 /\ MaxDisplay \in Nat /\ MaxDisplay <= PanelMax
  BY KnownRates, MaxDisplayFacts
<1>2. MaxDisplay = 0 \/ MaxDisplay >= 40
  <2>1. /\ ctx.override \in OverrideRates /\ ctx.profile \in {"Handheld", "Docked"}
        /\ settings.auto.Handheld \in HandheldRates /\ settings.auto.Docked \in DockedRates
    BY DEF StateRight, Settings
  <2>2. CASE ctx.override # 0
    <3>1. ctx.override \in 40..PanelMax
      BY <2>1, <2>2, KnownRates
    <3>2. ctx.override % 256 = ctx.override
      BY <1>1, <3>1
    <3>3. MaxDisplay = ctx.override
      BY <2>2, <3>1, <3>2 DEF MaxDisplay
    <3>4. QED
      BY <3>1, <3>3
  <2>3. CASE ctx.override = 0
    <3> DEFINE r == settings.auto[ctx.profile]
    <3>1. r \in Nat
      BY <2>1, KnownRates
    <3>2. MaxDisplay = IF r * 1000000 = 0 THEN 60 ELSE (r * 1000000) % 256
      BY <2>3 DEF MaxDisplay
    <3> HIDE DEF r
    <3>3. MaxDisplay \in {60, 0, 64, 128, 192}
      BY <3>1, <3>2, CutFacts
    <3>4. QED
      BY <3>3
  <2>4. QED
    BY <2>2, <2>3
<1>3. Borne(MaxDisplay)
  BY <1>1, <1>2, BorneRates
<1>4. VrrRate(fps) = 0 \/ VrrRate(fps) \in 40..PanelMax
  BY <1>1, VrrRateFacts
<1>5. QED
  BY <1>3, <1>4, VrrRateFacts, BorneRates

-------------------------------------------------------------------------------
(* The initial states and the steps.                                       *)

LEMMA InitRight ==
    ASSUME Init
    PROVE  DisplayIInv /\ Fits(hw, drove)
<1>1. /\ place = "hand" /\ link = FALSE /\ sink \in Sinks /\ tick = "idle"
      /\ stale = TRUE /\ events \in 0..MaxEvents /\ settings \in Settings /\ game \in Games
      /\ hold \in Holds /\ held = FALSE /\ drove \in Drivers /\ swapped = FALSE
  BY KnownRates, DisplayAssumption DEF Init, Drivers
<1>2. 0 \in OverrideRates
  BY DEF Init, Settings
<1>3. ctx \in [profile: {"Handheld", "Docked"}, freq: Rates, override: OverrideRates]
  <2>1. 0 \in Rates
    BY DEF Rates
  <2>2. QED
    BY <1>2, <2>1 DEF Init
<1>4. mod \in Mods /\ ~mod.canChange
  <2>1. FALSE \in BOOLEAN /\ 60 \in 60..240 /\ 1080 \in Lines
    BY DEF Lines
  <2>2. mod = [isDocked |-> FALSE, canChange |-> FALSE, highest |-> 60,
               lastVActive |-> 1080]
    BY DEF Init
  <2>3. mod \in Mods
    BY <2>1, <2>2, Zenon DEF Mods
  <2>4. QED
    BY <2>2, <2>3
<1>5. vrr \in [on: BOOLEAN, last: BOOLEAN]
  BY Zenon DEF Init
<1>6. thread \in Threads
  <2>1. 0 \in Rates /\ 0 \in 0..VrrFocusTicks /\ 0 \in 0..VrrTicks
    BY KnownRates DEF Rates
  <2>2. thread = [pc |-> "idle", fps |-> 0, focusTick |-> 0, vrrTick |-> 0]
    BY DEF Init
  <2>3. QED
    BY <2>1, <2>2 DEF Threads
<1>7. StateRight
  BY <1>1, <1>3, <1>4, <1>5, <1>6 DEF StateRight
<1>8. hw = [pll |-> hw.pll, mode |-> hw.mode] /\ hw.pll = Plld(60) /\ hw.mode = 60
  BY DEF Init
<1>9. 60 \in 40..80 /\ 60 \in 40..PanelMax
  BY KnownRates
<1>10. HwRight(hw) /\ Fits(hw, drove)
  BY <1>1, <1>8, <1>9, FitsFacts DEF HwRight, Bears
<1>11. ModeWithin(hw) /\ ScreenKnown(mod)
  BY <1>1 DEF ModeWithin, ScreenKnown
<1>12. QED
  BY <1>7, <1>10, <1>11 DEF DisplayIInv

\* RefreshContext only learns.
LEMMA RefreshRight ==
    ASSUME DisplayIInv, NEW nv, NEW other \in BOOLEAN, Refresh(nv, other)
    PROVE  DisplayIInv' /\ UNCHANGED <<hw, place, drove>>
<1> DEFINE read  == GetRate(hw, mod, nv)
           moved == read.hz # NoRate /\ read.hz # ctx.freq
           there == Profile = "Docked"
<1>1. StateRight /\ HwRight(hw) /\ ModeWithin(hw) /\ ScreenKnown(mod)
  BY DEF DisplayIInv
<1>2. read.hz \in Rates /\ read.mod \in Mods /\ ScreenKnown(read.mod)
  BY <1>1, GetRateRight
<1>3. /\ ctx' = [profile |-> Profile, override |-> settings.override,
                 freq |-> IF moved THEN read.hz ELSE ctx.freq]
      /\ mod' = IF Lite THEN read.mod ELSE [read.mod EXCEPT !.isDocked = there]
      /\ tick' \in {"set", "boost", "skip"}
      /\ UNCHANGED <<console, settings, game, events, hw, vrr, thread, drove, swapped>>
  BY DEF Refresh, TickAfter
<1>4. stale' \in BOOLEAN /\ held' \in BOOLEAN
  <2>1. stale' \in BOOLEAN
    BY <1>1, Zenon DEF Refresh, StateRight
  <2>2. held' \in BOOLEAN
    BY <1>1, Zenon DEF Refresh, StateRight
  <2>3. QED
    BY <2>1, <2>2
<1> HIDE DEF read, moved, there
<1>5. mod' \in Mods /\ mod'.canChange = read.mod.canChange /\ mod'.highest = read.mod.highest
  <2>1. there \in BOOLEAN
    BY DEF there
  <2>2. /\ [read.mod EXCEPT !.isDocked = there] \in Mods
        /\ [read.mod EXCEPT !.isDocked = there].canChange = read.mod.canChange
        /\ [read.mod EXCEPT !.isDocked = there].highest = read.mod.highest
    BY <1>2, <2>1, ModSet, Zenon
  <2>3. QED
    BY <1>2, <1>3, <2>2
<1>6. ctx' \in [profile: {"Handheld", "Docked"}, freq: Rates, override: OverrideRates]
  <2>1. Profile \in {"Handheld", "Docked"} /\ settings.override \in OverrideRates
    BY <1>1 DEF Profile, StateRight, Settings
  <2>2. (IF moved THEN read.hz ELSE ctx.freq) \in Rates
    BY <1>1, <1>2 DEF StateRight
  <2>3. QED
    BY <1>3, <2>1, <2>2
<1>7. UNCHANGED <<place, sink, link, hold, settings, game, events, hw, vrr, thread, drove,
                  swapped>>
  BY <1>3 DEF console
<1>8. StateRight'
  BY <1>1, <1>3, <1>4, <1>5, <1>6, <1>7 DEF StateRight
<1>9. HwRight(hw)' /\ ModeWithin(hw)'
  BY <1>1, <1>7 DEF HwRight, ModeWithin
<1>10. ScreenKnown(mod)'
  BY <1>2, <1>5, <1>7 DEF ScreenKnown
<1>11. QED
  BY <1>7, <1>8, <1>9, <1>10 DEF DisplayIInv

\* What a call of the driver leaves is right for the next state, when it leaves
\* the rest to itself.
LEMMA HwNext ==
    ASSUME DisplayIInv, NEW h, HwRight(h), ModeWithin(h), hw' = h, mod' = mod,
           UNCHANGED <<place, sink, link, swapped>>, StateRight'
    PROVE  DisplayIInv'
<1>1. HwRight(hw)' /\ ModeWithin(hw)'
  BY DEF HwRight, ModeWithin
<1>2. ScreenKnown(mod)'
  BY DEF DisplayIInv, ScreenKnown
<1>3. QED
  BY <1>1, <1>2 DEF DisplayIInv

LEMMA SetClocksRight ==
    ASSUME DisplayIInv, NEW nv, SetClocks(nv)
    PROVE  /\ DisplayIInv' /\ place' = place
           /\ place = "dock" => hw'.pll = hw.pll
           /\ Fits(hw, drove) => Fits(hw, drove)'
<1> DEFINE reset == IF vrr.last /\ ~settings.vrr THEN SetRate(hw, mod, 60, nv) ELSE hw
           rate  == IF Target(ctx) # 0 THEN Target(ctx) ELSE 60
           ours  == ~settings.vrr /\ settings.overwrite
<1>1. StateRight /\ HwRight(hw) /\ ModeWithin(hw) /\ ScreenKnown(mod)
  BY DEF DisplayIInv
<1>2. /\ vrr' = [on |-> settings.vrr, last |-> settings.vrr]
      /\ hw' = IF ours THEN SetRate(reset, mod, rate, nv) ELSE reset
      /\ ctx' = IF ours /\ Target(ctx) # 0 THEN [ctx EXCEPT !.freq = rate] ELSE ctx
      /\ tick' = "idle"
      /\ UNCHANGED <<outside, mod, thread, swapped>>
  BY DEF SetClocks
<1>3. UNCHANGED <<place, sink, link, hold, settings, stale, game, events, mod, thread, swapped>>
  BY <1>2 DEF outside, console
<1> DEFINE docked == ctx.profile = "Docked" /\ ctx.override = 0
<1>16. drove' = (IF hw' = hw THEN drove ELSE IF docked THEN "docked" ELSE "tick")
  BY DEF SetClocks, Drives
<1>17. held' \in BOOLEAN /\ drove' \in Drivers
  <2>1. held' \in BOOLEAN
    <3>1. held' = (held /\ ~ours) /\ held \in BOOLEAN
      BY <1>1 DEF SetClocks, StateRight
    <3>2. QED
      BY <3>1, Zenon
  <2>2. drove' \in Drivers
    BY <1>1, <1>16 DEF StateRight, Drivers
  <2>3. QED
    BY <2>1, <2>2
<1>4. rate \in Nat /\ rate \in Rates
  <2>1. 60 \in Rates
    BY DEF Rates
  <2>2. QED
    BY <1>1, <2>1, TargetFacts
<1>5. /\ HwRight(reset) /\ ModeWithin(reset)
      /\ place = "dock" => reset.pll = hw.pll
  <2>1. LET s == SetRate(hw, mod, 60, nv) IN
        HwRight(s) /\ ModeWithin(s) /\ (place = "dock" => s.pll = hw.pll)
    BY <1>1, SetRateRight
  <2>2. QED
    BY <1>1, <2>1
<1> HIDE DEF reset, rate, ours
<1>6. LET s == SetRate(reset, mod, rate, nv) IN
      HwRight(s) /\ ModeWithin(s) /\ (place = "dock" => s.pll = reset.pll)
  BY <1>1, <1>4, <1>5, SetRateRight
<1>7. ctx' \in [profile: {"Handheld", "Docked"}, freq: Rates, override: OverrideRates]
  BY <1>1, <1>2, <1>4 DEF StateRight
<1>8. settings.vrr \in BOOLEAN
  BY <1>1 DEF StateRight, Settings
<1>9. vrr' \in [on: BOOLEAN, last: BOOLEAN]
  BY <1>2, <1>8
<1>10. StateRight'
  BY <1>1, <1>2, <1>3, <1>7, <1>9, <1>17 DEF StateRight
<1>11. /\ HwRight(hw') /\ ModeWithin(hw')
       /\ place = "dock" => hw'.pll = hw.pll
  BY <1>2, <1>5, <1>6
<1>12. DisplayIInv'
  BY <1>3, <1>10, <1>11, HwNext
<1>13. ~docked => hw' = hw \/ Bears(hw')
  <2>1. ASSUME ~docked  PROVE hw' = hw \/ Bears(hw')
    <3>1. Borne(60) /\ Borne(rate)
      BY <1>1, <2>1, TargetBorne DEF rate
    <3>2. reset = hw \/ Bears(reset)
      BY <1>1, <3>1, SetRateBears DEF reset
    <3>3. SetRate(reset, mod, rate, nv) = reset \/ Bears(SetRate(reset, mod, rate, nv))
      BY <1>1, <1>4, <1>5, <3>1, SetRateBears
    <3>4. QED
      BY <1>2, <3>2, <3>3
  <2>2. QED
    BY <2>1
<1> HIDE DEF docked
<1>14. ASSUME Fits(hw, drove)  PROVE Fits(hw', drove')
  <2>1. CASE hw' = hw
    BY <1>14, <1>16, <2>1
  <2>2. CASE hw' # hw /\ docked
    BY <1>11, <1>16, <2>2, FitsFacts
  <2>3. CASE hw' # hw /\ ~docked
    BY <1>13, <2>3, FitsFacts
  <2>4. QED
    BY <2>1, <2>2, <2>3
<1>18. Fits(hw, drove) => Fits(hw, drove)'
  BY <1>3, <1>14 DEF Fits
<1>15. QED
  BY <1>3, <1>11, <1>12, <1>18

\* A round of the governor thread that counts on, and may go to wait.
LEMMA CountedRight ==
    ASSUME StateRight, NEW ticks \in 0..VrrFocusTicks
    PROVE  Counted(ticks) \in Threads
<1>1. thread \in Threads /\ game.fps \in Rates /\ 0 \in Rates
  BY KnownRates DEF StateRight, Games, Rates
<1> DEFINE pc  == IF game.fps = 254 THEN "idle" ELSE "lock"
           fps == IF game.fps = 254 THEN 0 ELSE game.fps
<1>2. pc \in {"idle", "lock"} /\ fps \in Rates
  BY <1>1
<1>3. Counted(ticks) = [thread EXCEPT !.focusTick = ticks, !.pc = pc, !.fps = fps]
  BY DEF Counted
<1> HIDE DEF pc, fps
<1>4. QED
  BY <1>1, <1>2, <1>3 DEF Threads

LEMMA LookAtFocusRight ==
    ASSUME DisplayIInv, NEW nv, LookAtFocus(nv)
    PROVE  /\ DisplayIInv' /\ place' = place
           /\ place = "dock" => hw'.pll = hw.pll
           /\ Fits(hw, drove) => Fits(hw, drove)'
<1> DEFINE s == SetRate(hw, mod, 60, nv)
<1>1. StateRight /\ HwRight(hw) /\ ModeWithin(hw) /\ ScreenKnown(mod)
  BY DEF DisplayIInv
<1>2. /\ hw' \in {hw, s}
      /\ thread' \in {Counted(0), [thread EXCEPT !.focusTick = 0]}
      /\ drove' = (IF hw' = hw THEN drove ELSE "vrr")
      /\ UNCHANGED <<outside, mod, ctx, tick, vrr, held, swapped>>
  BY DEF LookAtFocus, Drives
<1>3. UNCHANGED <<place, sink, link, hold, settings, stale, game, events, mod, ctx, tick,
                  vrr, held, swapped>>
  BY <1>2 DEF outside, console
<1>4. HwRight(s) /\ ModeWithin(s) /\ (place = "dock" => s.pll = hw.pll)
  BY <1>1, SetRateRight
<1>5. thread' \in Threads
  <2>1. 0 \in 0..VrrFocusTicks
    BY KnownRates
  <2>2. thread \in Threads
    BY <1>1 DEF StateRight
  <2>3. [thread EXCEPT !.focusTick = 0] \in Threads
    BY <2>1, <2>2 DEF Threads
  <2>4. Counted(0) \in Threads
    BY <1>1, <2>1, CountedRight
  <2>5. QED
    BY <1>2, <2>3, <2>4
<1>12. drove' \in Drivers
  BY <1>1, <1>2 DEF StateRight, Drivers
<1>6. StateRight'
  BY <1>1, <1>3, <1>5, <1>12 DEF StateRight
<1> HIDE DEF s
<1>7. HwRight(hw') /\ ModeWithin(hw') /\ (place = "dock" => hw'.pll = hw.pll)
  BY <1>1, <1>2, <1>4
<1>8. DisplayIInv'
  BY <1>3, <1>6, <1>7, HwNext
<1>13. s = hw \/ Bears(s)
  BY <1>1, TargetBorne, SetRateBears DEF s
<1>9. Fits(hw, drove) => Fits(hw', drove')
  BY <1>2, <1>13, FitsFacts
<1>10. Fits(hw, drove) => Fits(hw, drove)'
  BY <1>3, <1>9 DEF Fits
<1>11. QED
  BY <1>3, <1>7, <1>8, <1>10

LEMMA AdjustRight ==
    ASSUME DisplayIInv, NEW nv, Adjust(nv)
    PROVE  /\ DisplayIInv' /\ place' = place
           /\ place = "dock" => hw'.pll = hw.pll
           /\ Fits(hw, drove) => Fits(hw, drove)'
<1> DEFINE rate  == VrrRate(thread.fps)
           first == SetRate(hw, mod, rate, nv)
           both  == SetRate(first, mod, MaxDisplay, nv)
           top   == thread.vrrTick = VrrTicks
<1>1. StateRight /\ HwRight(hw) /\ ModeWithin(hw) /\ ScreenKnown(mod)
  BY DEF DisplayIInv
<1>2. thread \in Threads /\ thread.fps \in Rates
  BY <1>1 DEF StateRight, Threads
<1>3. /\ hw' \in {hw, first, both}
      /\ ctx' \in {ctx, [ctx EXCEPT !.freq = rate]}
      /\ \/ thread' = [thread EXCEPT !.pc = "idle", !.fps = 0]
         \/ thread' = [thread EXCEPT !.pc = "idle", !.fps = 0,
                                     !.vrrTick = IF top THEN 0 ELSE @ + 1]
      /\ UNCHANGED <<outside, mod, tick, vrr, held, swapped>>
  BY DEF Adjust
<1> DEFINE cut == MaxDisplay > PanelMax
<1>17. drove' = (IF hw' = hw THEN drove ELSE VrrDriver)
  BY DEF Adjust, Drives
<1>19. VrrDriver \in Drivers /\ (cut => VrrDriver \in {"cut", "latecut"})
  BY DEF VrrDriver, Drivers
<1>4. drove' \in Drivers
  BY <1>1, <1>17, <1>19 DEF StateRight
<1>5. UNCHANGED <<place, sink, link, hold, settings, stale, game, events, mod, tick, vrr,
                  held, swapped>>
  BY <1>3 DEF outside, console
<1>6. rate \in Nat /\ rate \in Rates /\ MaxDisplay \in Nat
  BY <1>1, <1>2, VrrRateFacts, MaxDisplayFacts
<1>7. ctx' \in [profile: {"Handheld", "Docked"}, freq: Rates, override: OverrideRates]
  <2> HIDE DEF rate
  <2>1. QED
    BY <1>1, <1>3, <1>6 DEF StateRight
<1>8. thread' \in Threads
  <2> DEFINE next == IF top THEN 0 ELSE thread.vrrTick + 1
  <2>1. next \in 0..VrrTicks /\ 0 \in Rates
    BY <1>2, KnownRates DEF Threads, Rates
  <2>2. \/ thread' = [thread EXCEPT !.pc = "idle", !.fps = 0]
        \/ thread' = [thread EXCEPT !.pc = "idle", !.fps = 0, !.vrrTick = next]
    BY <1>3
  <2> HIDE DEF next
  <2>3. QED
    BY <1>2, <2>1, <2>2 DEF Threads
<1>9. StateRight'
  BY <1>1, <1>4, <1>5, <1>7, <1>8 DEF StateRight
<1> HIDE DEF rate
<1>10. HwRight(first) /\ ModeWithin(first) /\ (place = "dock" => first.pll = hw.pll)
  BY <1>1, <1>6, SetRateRight
<1> HIDE DEF first
<1>11. HwRight(both) /\ ModeWithin(both) /\ (place = "dock" => both.pll = first.pll)
  BY <1>1, <1>6, <1>10, SetRateRight
<1> HIDE DEF both
<1>12. HwRight(hw') /\ ModeWithin(hw') /\ (place = "dock" => hw'.pll = hw.pll)
  BY <1>1, <1>3, <1>10, <1>11
<1>13. DisplayIInv'
  BY <1>5, <1>9, <1>12, HwNext
<1>14. ~cut => hw' = hw \/ Bears(hw')
  <2>1. ASSUME ~cut  PROVE hw' = hw \/ Bears(hw')
    <3>1. Borne(rate) /\ Borne(MaxDisplay)
      BY <1>1, <1>2, <2>1, VrrBorne DEF rate
    <3>2. first = hw \/ Bears(first)
      BY <1>1, <1>6, <3>1, SetRateBears DEF first
    <3>3. both = first \/ Bears(both)
      BY <1>1, <1>6, <1>10, <3>1, SetRateBears DEF both
    <3>4. QED
      BY <1>3, <3>2, <3>3
  <2>2. QED
    BY <2>1
<1> HIDE DEF cut
<1>15. ASSUME Fits(hw, drove)  PROVE Fits(hw', drove')
  <2>1. CASE hw' = hw
    BY <1>15, <1>17, <2>1
  <2>2. CASE hw' # hw /\ cut
    BY <1>12, <1>17, <1>19, <2>2, FitsFacts
  <2>3. CASE hw' # hw /\ ~cut
    BY <1>14, <2>3, FitsFacts
  <2>4. QED
    BY <2>1, <2>2, <2>3
<1>18. Fits(hw, drove) => Fits(hw, drove)'
  BY <1>5, <1>15 DEF Fits
<1>16. QED
  BY <1>5, <1>12, <1>13, <1>18

\* The steps that do not touch the hardware.
LEMMA QuietRight ==
    ASSUME DisplayIInv,
           LookAtFps \/ TickEnds \/ BoostReturn \/ LinkUp \/ (\E h \in Holds : HoldChange(h))
             \/ (\E r \in OverrideRates : SetOverride(r))
             \/ (\E c \in Settings : SetConfig(c)) \/ (\E g \in Games : Play(g))
             \/ UNCHANGED vars
    PROVE  DisplayIInv' /\ UNCHANGED <<hw, place, drove>>
<1>1. StateRight /\ HwRight(hw) /\ ModeWithin(hw)
  BY DEF DisplayIInv
<1>2. ASSUME UNCHANGED <<place, sink, hw, mod, drove, swapped>>, StateRight'
      PROVE  DisplayIInv' /\ UNCHANGED <<hw, place, drove>>
  <2>1. HwRight(hw)' /\ ModeWithin(hw)' /\ ScreenKnown(mod)'
    BY <1>2 DEF DisplayIInv, HwRight, ModeWithin, ScreenKnown
  <2>2. QED
    BY <1>2, <2>1 DEF DisplayIInv
<1>3. CASE LookAtFps
  <2>1. thread' = Counted(thread.focusTick + 1) /\ thread.focusTick < VrrFocusTicks
    BY <1>3 DEF LookAtFps
  <2>2. thread.focusTick + 1 \in 0..VrrFocusTicks
    BY <1>1, <2>1, KnownRates DEF StateRight, Threads
  <2>3. thread' \in Threads
    BY <1>1, <2>1, <2>2, CountedRight
  <2>4. UNCHANGED <<place, sink, link, hold, settings, stale, game, events, hw, mod, ctx, tick,
                    vrr, held, drove, swapped>>
    BY <1>3 DEF LookAtFps, outside, console, history
  <2>5. QED
    BY <1>1, <1>2, <2>3, <2>4 DEF StateRight
<1>4. CASE TickEnds
  <2>1. /\ tick' = "idle"
        /\ UNCHANGED <<place, sink, link, hold, settings, stale, game, events, hw, mod, ctx,
                       vrr, thread, held, drove, swapped>>
    BY <1>4 DEF TickEnds, outside, console, history
  <2>2. QED
    BY <1>1, <1>2, <2>1 DEF StateRight
<1>11. CASE BoostReturn
  <2>1. /\ tick' = "idle"
        /\ UNCHANGED <<place, sink, link, hold, settings, stale, game, events, hw, mod, ctx,
                       vrr, thread, held, drove, swapped>>
    BY <1>11 DEF BoostReturn, outside, console, history
  <2>2. QED
    BY <1>1, <1>2, <2>1 DEF StateRight
<1>12. CASE \E h \in Holds : HoldChange(h)
  <2>1. PICK h \in Holds : HoldChange(h)
    BY <1>12
  <2>2. /\ events < MaxEvents /\ events' = events + 1
        /\ hold' = h
        /\ UNCHANGED <<place, sink, link, settings, stale, game, hw, mod, ctx, tick, vrr,
                       thread, held, drove, swapped>>
    BY <2>1 DEF HoldChange, Event, history
  <2>3. events' \in 0..MaxEvents
    BY <1>1, <2>2, KnownRates DEF StateRight
  <2>4. QED
    BY <1>1, <1>2, <2>2, <2>3 DEF StateRight
<1>5. CASE LinkUp
  <2>1. /\ place = "dock" /\ link' = TRUE
        /\ UNCHANGED <<place, sink, hold, settings, stale, game, events, hw, mod, ctx, tick,
                       vrr, thread, held, drove, swapped>>
    BY <1>5 DEF LinkUp, history
  <2>2. QED
    BY <1>1, <1>2, <2>1 DEF StateRight
<1>6. CASE \E r \in OverrideRates : SetOverride(r)
  <2>1. PICK r \in OverrideRates : SetOverride(r)
    BY <1>6
  <2>2. /\ events < MaxEvents /\ events' = events + 1
        /\ settings' = [settings EXCEPT !.override = r]
        /\ UNCHANGED <<place, sink, link, hold, stale, game, hw, mod, ctx, tick, vrr, thread,
                       held, drove, swapped>>
    BY <2>1 DEF SetOverride, Event, console, history
  <2>3. events' \in 0..MaxEvents
    BY <1>1, <2>2, KnownRates DEF StateRight
  <2>4. settings' \in Settings
    BY <1>1, <2>2 DEF StateRight, Settings
  <2>5. QED
    BY <1>1, <1>2, <2>2, <2>3, <2>4 DEF StateRight
<1>7. CASE \E c \in Settings : SetConfig(c)
  <2>1. PICK c \in Settings : SetConfig(c)
    BY <1>7
  <2>2. /\ events < MaxEvents /\ events' = events + 1
        /\ settings' = c /\ stale' = TRUE
        /\ UNCHANGED <<place, sink, link, hold, game, hw, mod, ctx, tick, vrr, thread, held, drove,
                       swapped>>
    BY <2>1 DEF SetConfig, Event, console, history
  <2>3. events' \in 0..MaxEvents
    BY <1>1, <2>2, KnownRates DEF StateRight
  <2>4. QED
    BY <1>1, <1>2, <2>2, <2>3 DEF StateRight
<1>8. CASE \E g \in Games : Play(g)
  <2>1. PICK g \in Games : Play(g)
    BY <1>8
  <2>2. /\ events < MaxEvents /\ events' = events + 1
        /\ game' = g
        /\ UNCHANGED <<place, sink, link, hold, settings, stale, hw, mod, ctx, tick, vrr,
                       thread, held, drove, swapped>>
    BY <2>1 DEF Play, Event, console, history
  <2>3. events' \in 0..MaxEvents
    BY <1>1, <2>2, KnownRates DEF StateRight
  <2>4. QED
    BY <1>1, <1>2, <2>2, <2>3 DEF StateRight
<1>9. CASE UNCHANGED vars
  <2>1. UNCHANGED <<place, sink, link, hold, settings, stale, game, events, hw, mod, ctx, tick,
                    vrr, thread, held, drove, swapped>>
    BY <1>9 DEF vars, outside, console, history
  <2>2. QED
    BY <1>1, <1>2, <2>1 DEF StateRight
<1>10. QED
  BY <1>3, <1>4, <1>5, <1>6, <1>7, <1>8, <1>9, <1>11, <1>12

\* The operating system drives the new screen at 60 Hz, which every screen has.
LEMMA DockRight ==
    ASSUME DisplayIInv, NEW s \in Sinks, NEW divn \in {0, 32}, Dock(s, divn)
    PROVE  DisplayIInv' /\ place = "hand" /\ Fits(hw, drove)'
<1>1. StateRight /\ HwRight(hw)
  BY DEF DisplayIInv
<1>2. /\ events < MaxEvents /\ events' = events + 1
      /\ place = "hand" /\ place' = "dock" /\ sink' = s /\ link' = FALSE
      /\ hw' = [pll |-> [divn |-> divn, sdm |-> 0], mode |-> 60]
      /\ drove' = "system"
      /\ UNCHANGED <<hold, settings, stale, game, mod, ctx, tick, vrr, thread, held>>
  BY DEF Dock, Event
<1>3. swapped' = (swapped \/ mod.canChange)
  BY DEF Dock
<1>4. events' \in 0..MaxEvents
  BY <1>1, <1>2, KnownRates DEF StateRight
<1>5. swapped' \in BOOLEAN /\ (~swapped' => ~mod.canChange)
  BY <1>1, <1>3 DEF StateRight, Mods
<1>6. StateRight'
  BY <1>1, <1>2, <1>4, <1>5 DEF StateRight, Drivers
<1>7. hw'.pll \in DockedPll /\ hw'.mode = 60 /\ hw' = [pll |-> hw'.pll, mode |-> hw'.mode]
  BY <1>2 DEF DockedPll
<1>8. HwRight(hw)'
  BY <1>2, <1>7 DEF HwRight
<1>9. HighestRate(s.rates) \in 60..240
  BY KnownRates, HighestFacts
<1>10. ModeWithin(hw)'
  BY <1>2, <1>7, <1>9 DEF ModeWithin
<1>11. ScreenKnown(mod)'
  BY <1>2, <1>5 DEF ScreenKnown
<1>12. Fits(hw, drove)'
  BY <1>2 DEF Fits
<1>13. QED
  BY <1>2, <1>6, <1>8, <1>10, <1>11, <1>12 DEF DisplayIInv

\* Out of the dock the operating system drives the panel at 60 Hz.
LEMMA UndockRight ==
    ASSUME DisplayIInv, Undock
    PROVE  DisplayIInv' /\ place' = "hand" /\ Fits(hw, drove)'
<1>1. StateRight /\ HwRight(hw)
  BY DEF DisplayIInv
<1>2. /\ events < MaxEvents /\ events' = events + 1
      /\ place' = "hand" /\ link' = FALSE
      /\ hw' = [hw EXCEPT !.pll = Plld(60)]
      /\ drove' = "system"
      /\ UNCHANGED <<sink, hold, settings, stale, game, mod, ctx, tick, vrr, thread, held,
                     swapped>>
  BY DEF Undock, Event
<1>3. events' \in 0..MaxEvents
  BY <1>1, <1>2, KnownRates DEF StateRight
<1>4. StateRight'
  BY <1>1, <1>2, <1>3 DEF StateRight, Drivers
<1>5. /\ hw = [pll |-> hw.pll, mode |-> hw.mode] /\ hw.mode \in 0..240
  BY <1>1 DEF HwRight
<1>6. /\ hw'.pll = Plld(60) /\ hw'.mode = hw.mode
      /\ hw' = [pll |-> hw'.pll, mode |-> hw'.mode]
  BY <1>2, <1>5
<1>7. 60 \in 40..80 /\ 60 \in 40..PanelMax
  BY KnownRates
<1>8. HwRight(hw)' /\ Fits(hw, drove)'
  BY <1>2, <1>5, <1>6, <1>7 DEF HwRight, Fits
<1>9. ModeWithin(hw)' /\ ScreenKnown(mod)'
  BY <1>2 DEF ModeWithin, ScreenKnown
<1>10. QED
  BY <1>2, <1>4, <1>8, <1>9 DEF DisplayIInv

LEMMA NextCases ==
    ASSUME [Next]_vars
    PROVE  \/ \E nv \in Driver :
                 \/ \E other \in BOOLEAN : Refresh(nv, other)
                 \/ SetClocks(nv) \/ LookAtFocus(nv) \/ Adjust(nv)
           \/ \/ LookAtFps \/ TickEnds \/ BoostReturn \/ LinkUp
              \/ \E h \in Holds : HoldChange(h)
              \/ \E r \in OverrideRates : SetOverride(r)
              \/ \E c \in Settings : SetConfig(c)
              \/ \E g \in Games : Play(g)
              \/ UNCHANGED vars
           \/ \E s \in Sinks, divn \in {0, 32} : Dock(s, divn)
           \/ Undock
BY DEF Next, Tick, Governor, DriverFails, Outside, Driver

\* Every step keeps the invariant and leaves the panel's PLLD alone in the dock.
LEMMA StepRight ==
    ASSUME DisplayIInv, [Next]_vars
    PROVE  /\ DisplayIInv'
           /\ place = "dock" /\ place' = "dock" => hw'.pll = hw.pll
           /\ Fits(hw, drove) => Fits(hw, drove)'
<1>1. ASSUME UNCHANGED <<hw, place, drove>>  PROVE Fits(hw, drove) => Fits(hw, drove)'
  BY <1>1 DEF Fits
<1>2. CASE \E nv \in Driver : \E other \in BOOLEAN : Refresh(nv, other)
  BY <1>1, <1>2, RefreshRight
<1>3. CASE \E nv \in Driver : SetClocks(nv)
  BY <1>3, SetClocksRight
<1>4. CASE \E nv \in Driver : LookAtFocus(nv)
  BY <1>4, LookAtFocusRight
<1>5. CASE \E nv \in Driver : Adjust(nv)
  BY <1>5, AdjustRight
<1>6. CASE LookAtFps \/ TickEnds \/ BoostReturn \/ LinkUp \/ (\E h \in Holds : HoldChange(h))
             \/ (\E r \in OverrideRates : SetOverride(r))
             \/ (\E c \in Settings : SetConfig(c)) \/ (\E g \in Games : Play(g))
             \/ UNCHANGED vars
  BY <1>1, <1>6, QuietRight
<1>7. CASE \E s \in Sinks, divn \in {0, 32} : Dock(s, divn)
  BY <1>7, DockRight
<1>8. CASE Undock
  BY <1>8, UndockRight
<1>9. QED
  BY <1>2, <1>3, <1>4, <1>5, <1>6, <1>7, <1>8, NextCases

-------------------------------------------------------------------------------
(* The theorems.                                                           *)

LEMMA RightMeansType ==
    ASSUME DisplayIInv
    PROVE  TypeOK /\ MonitorWithin
<1>1. StateRight /\ HwRight(hw) /\ ModeWithin(hw)
  BY DEF DisplayIInv
<1>2. hw.pll.divn \in 0..32 /\ hw.pll.sdm \in (-Int16Max - 1)..Int16Max
  <2>1. CASE place = "dock"
    BY <1>1, <2>1, DockedPllFacts DEF HwRight
  <2>2. CASE place = "hand"
    <3>1. PICK r \in 40..80 : hw.pll = Plld(r)
      BY <1>1, <2>2 DEF HwRight
    <3>2. Plld(r).divn \in 16..32 /\ Plld(r).sdm \in (-Int16Max - 1)..Int16Max
      BY PlldFacts
    <3>3. QED
      BY <3>1, <3>2
  <2>3. QED
    BY <1>1, <2>1, <2>2 DEF StateRight
<1>3. hw.mode \in Rates
  BY <1>1 DEF HwRight, Rates
<1>4. /\ mod.isDocked \in BOOLEAN /\ mod.canChange \in BOOLEAN
      /\ mod.highest \in 60..240 /\ mod.lastVActive \in {720, 1080}
  BY <1>1 DEF StateRight, Mods, Lines
<1>5. /\ settings.override \in OverrideRates
      /\ settings.auto \in [Handheld: HandheldRates, Docked: DockedRates]
      /\ settings.vrr \in BOOLEAN /\ settings.overwrite \in BOOLEAN
      /\ settings.overBoost \in OverBoosts
  BY <1>1 DEF StateRight, Settings
<1>6. /\ thread.pc \in {"idle", "lock"} /\ thread.fps \in Rates
      /\ thread.focusTick \in 0..VrrFocusTicks /\ thread.vrrTick \in 0..VrrTicks
  BY <1>1 DEF StateRight, Threads
<1>7. /\ ctx.profile \in {"Handheld", "Docked"} /\ ctx.freq \in Rates
      /\ ctx.override \in OverrideRates
      /\ vrr.on \in BOOLEAN /\ vrr.last \in BOOLEAN
  BY <1>1 DEF StateRight
<1>8. TypeOK
  BY <1>1, <1>2, <1>3, <1>4, <1>5, <1>6, <1>7 DEF TypeOK, StateRight
<1>9. MonitorWithin
  BY <1>1 DEF MonitorWithin, ModeWithin
<1>10. QED
  BY <1>8, <1>9

LEMMA FitsMeansWithin ==
    ASSUME Fits(hw, drove)
    PROVE  HandheldWithinMax
<1>1. CASE place = "hand"
  <2>1. PICK r \in 40..80 : hw.pll = Plld(r) /\ (r <= PanelMax \/ drove \in {"docked", "cut", "latecut"})
    BY <1>1 DEF Fits
  <2>2. PlldRate(hw.pll) = r
    BY <2>1, PlldFacts
  <2>3. QED
    BY <2>1, <2>2 DEF HandheldWithinMax, PanelRate
<1>2. QED
  BY <1>1 DEF HandheldWithinMax

\* Whatever screens, rates and settings there are: a docked screen is never set to
\* more than it offers, but for the one that was swapped unseen (SetDocked with
\* the clamp of _setNvDispDockedRefreshRate, GetRate).
THEOREM MonitorWithinHolds == Spec => [](TypeOK /\ MonitorWithin)
<1>1. Init => DisplayIInv
  BY InitRight
<1>2. DisplayIInv /\ [Next]_vars => DisplayIInv'
  BY StepRight
<1>3. DisplayIInv => TypeOK /\ MonitorWithin
  BY RightMeansType
<1>4. QED
  BY <1>1, <1>2, <1>3, PTL DEF Spec

\* Whatever rates and screens there are, and in whatever order docking, settings,
\* boost mode, throttles, games and failures of the driver come: the panel keeps
\* to its range, and is above its maximum only after a tick that took a console
\* in the hand for a docked one, or after VRR took a rate that was cut to 8 bits
\* for its highest one (SetRate, SetClocks, the VRR half of GovernorThread).
THEOREM RatesAllowedHolds == Spec => []RatesAllowed
<1>1. Init => DisplayIInv /\ Fits(hw, drove)
  BY InitRight
<1>2. DisplayIInv /\ Fits(hw, drove) /\ [Next]_vars => DisplayIInv' /\ Fits(hw, drove)'
  BY StepRight
<1>3. DisplayIInv /\ Fits(hw, drove) => RatesAllowed
  BY RightMeansType, FitsMeansWithin DEF RatesAllowed
<1>4. QED
  BY <1>1, <1>2, <1>3, PTL DEF Spec

\* No call programs the panel's PLLD while the console stays in the dock
\* (_setPLLDHandheldRefreshRate stops at a PLLD that is read as docked).
THEOREM PanelLeftAloneHolds == Spec => PanelLeftAlone
<1>1. Init => DisplayIInv
  BY InitRight
<1>2. DisplayIInv /\ [Next]_vars => DisplayIInv'
  BY StepRight
<1>3. DisplayIInv /\ [Next]_vars =>
          [place = "dock" /\ place' = "dock" => hw'.pll = hw.pll]_vars
  BY StepRight
<1>4. QED
  BY <1>1, <1>2, <1>3, PTL DEF Spec, PanelLeftAlone

=============================================================================
