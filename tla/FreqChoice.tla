------------------------------ MODULE FreqChoice ------------------------------
(***************************************************************************)
(* The way of a clock from the list a user picks it from to the hardware   *)
(* (overlay freq_choice_gui.cpp, app_profile_gui.cpp; mgr/clock_manager.   *)
(* cpp): the page shows the clocks of a module's table that fit the        *)
(* console, colours them by how far the undervolt carries them and marks   *)
(* the one in force; a profile keeps whole MHz, an override the clock; the *)
(* sysmodule rounds what it is asked for to its table. Clocks are in kHz.  *)
(***************************************************************************)
EXTENDS Integers, Sequences

CONSTANTS Lists,         \* for each module the tables the sysmodule may have
          MaxCpuClocks   \* values of HocClkConfigValue_EristaMaxCpuClock

VARIABLES picker,    \* the console, the module, its table and the settings
          picked,    \* the clock picked last, 0: default
          kept,      \* what the profile or the override keeps of it
          marked     \* the items the page marked when it was opened again

choiceVars == <<picker, picked, kept, marked>>

Rounding == INSTANCE FreqTable WITH Soc <- "Mariko", GpuUV <- 0, Bracket <- 0
Caps(s, uv) == INSTANCE FreqTable WITH Soc <- s, GpuUV <- uv, Bracket <- 0

\* Whole MHz, cut off.
Mhz(khz) == khz \div 1000

\* The page leaves out Erista CPU clocks above the configured maximum, and RAM
\* clocks up to 600 MHz.
Listed(k) ==
    LET shown(f) ==
            /\ ~(k.soc = "Erista" /\ k.module = "CPU" /\ k.maxCpu < Mhz(f))
            /\ ~(k.module = "MEM" /\ Mhz(f) <= 600)
    IN  {f \in {k.table[i] : i \in DOMAIN k.table} : shown(f)}

\* Where the colours change, in MHz, for an undervolt level (0: none).
UnsafeOnErista(soc, m, uv) ==
    IF m = "CPU" THEN (IF uv # 0 THEN 2092 ELSE 1786) ELSE (IF uv = 0 THEN 922 ELSE 961)

Unsafe(soc, m, uv) ==
    CASE soc = "Mariko" /\ m = "CPU" -> IF uv # 0 THEN 2398 ELSE 1964
      [] soc = "Mariko" /\ m = "GPU" -> IF uv = 0 THEN 1076 ELSE IF uv = 1 THEN 1153 ELSE 1229
      [] soc = "Erista" /\ m = "CPU" -> IF uv # 0 THEN 2092 ELSE 1786
      [] OTHER -> IF uv = 0 THEN 922 ELSE 961

Danger(soc, m, uv) ==
    CASE soc = "Mariko" /\ m = "CPU" -> IF uv # 0 THEN 2500 ELSE 2398
      [] soc = "Mariko" /\ m = "GPU" -> 1306
      [] soc = "Erista" /\ m = "CPU" -> IF uv # 0 THEN 2194 ELSE 1964
      [] OTHER -> 999

\* The colour of an item: 0 white, 1 orange, 2 red. RAM clocks are white.
Safety(k, f) ==
    IF k.module = "MEM" THEN 0
    ELSE IF Mhz(f) >= Danger(k.soc, k.module, k.uv) THEN 2
    ELSE IF Mhz(f) >= Unsafe(k.soc, k.module, k.uv) THEN 1
    ELSE 0

\* The items marked for a selected clock; 0 is the item "default".
MarkedExactly(k, selected) == {f \in Listed(k) \cup {0} : f = selected}
MarkedItems(k, selected) ==
    {f \in Listed(k) : Mhz(f) = Mhz(selected)} \cup (IF selected = 0 THEN {0} ELSE {})

\* What the sysmodule makes of a wanted clock, nothing capping it.
Applied(k, wanted) == IF wanted = 0 THEN 0 ELSE Rounding!Nearest(k.table, wanted, 0)

ChoiceInit ==
    /\ \E s \in {"Mariko", "Erista"}, m \in DOMAIN Lists, uv \in 0..2, c \in MaxCpuClocks :
         \E t \in Lists[m] :
            /\ s = "Erista" /\ m = "GPU" => uv < 2
            /\ m = "CPU" => uv < 2
            /\ m = "MEM" => uv = 0
            /\ picker = [soc |-> s, module |-> m, table |-> t, uv |-> uv, maxCpu |-> c]
    /\ picked = 0 /\ kept = 0 /\ marked = {0}

\* The listener of a profile page keeps whole MHz, which the page and the
\* sysmodule multiply by a million again.
PickForProfile ==
    /\ picked' \in Listed(picker) \cup {0}
    /\ kept' = Mhz(picked') * 1000
    /\ marked' = MarkedItems(picker, kept')
    /\ UNCHANGED picker

\* The listener of the override page sends the clock itself.
PickForOverride ==
    /\ picked' \in Listed(picker) \cup {0}
    /\ kept' = picked'
    /\ marked' = MarkedItems(picker, kept')
    /\ UNCHANGED picker

ChoiceNext == PickForProfile \/ PickForOverride

ChoiceTypeOK ==
    /\ picker.soc \in {"Mariko", "Erista"} /\ picker.uv \in 0..2
    /\ picked \in Nat /\ kept \in Nat /\ kept <= picked

---------------------------------------------------------------------------

\* A clock picked from the list is the one the sysmodule sets, though a profile
\* keeps only its whole MHz, and the page opened again marks that item and no
\* other.
PickedIsApplied == Applied(picker, kept) = picked /\ marked = {picked}

\* What is allowed without uncapping the clocks, in any profile with a cap, is
\* never coloured as unsafe: the thresholds of the overlay and the caps of the
\* sysmodule, which know nothing of each other, are in the right order for
\* every undervolt level.
CapsAreSafe ==
    \A p \in {"Handheld", "Charging", "USB", "Official", "Docked"} :
        LET C == Caps(picker.soc, picker.uv)!MaxAllowed(FALSE, picker.module, p)
        IN  C # 0 /\ C < 4294967 =>
              \A f \in Listed(picker) : f <= C => Safety(picker, f) = 0
===============================================================================
