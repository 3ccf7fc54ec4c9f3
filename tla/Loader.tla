-------------------------------- MODULE Loader --------------------------------
(***************************************************************************)
(* The patcher of the loader (oc_common.hpp PatcherEntry, Patch of         *)
(* pcv_mariko.cpp and pcv_erista.cpp, pcv.cpp): SafetyCheck, then one pass *)
(* over the words of PCV.  The first entry whose value a word holds and    *)
(* whose checks the place passes patches it; at the end every entry must   *)
(* have been applied, and no more often than it may.                       *)
(*                                                                         *)
(* An image is the sequence of the words that hold a value some entry      *)
(* looks for, each with the structure of PCV it is in: the checks of an    *)
(* entry accept exactly the structure with its name.  RAM tables are "MEM  *)
(* Freq Mtc" with a number, those of the other SoC "other tables".         *)
(***************************************************************************)
EXTENDS PcvPatch

CONSTANTS Customs,      \* customization tables to start from
          Images(_, _)  \* images of PCV, by SoC and customization table

VARIABLES soc, c,       \* the console and the customization table
          image,        \* PCV's words, with what became of them
          at,           \* the next word
          count,        \* patched_count, by entry
          result        \* "check", "scan", "boots" or "panic"

vars == <<soc, c, image, at, count, result>>

-------------------------------------------------------------------------------
(* The entries: name, maximum_patched_count, the value looked for.         *)

Entry(name, max, value) == [name |-> name, max |-> max, value |-> value]

MarikoPatches ==
    << Entry("CPU Freq Vdd", 1, "CpuClkOSLimit"),
       Entry("CPU Freq Table", 1, "CpuCvbDefaultMaxFreq"),
       Entry("CPU Volt DVFS", 1, "CpuVminOfficial"),
       Entry("CPU Volt Thermals", 1, "CpuVminOfficial"),
       Entry("CPU Volt Dfll", 1, "CpuTune0Low"),
       Entry("GPU Volt DVFS", 1, "GpuVminOfficial"),
       Entry("GPU Volt Thermals", 1, "GpuVminOfficial"),
       Entry("GPU Freq Table", 1, "GpuCvbDefaultMaxFreq"),
       Entry("GPU Freq Asm", 2, "GpuMaxClockPattern"),
       Entry("GPU PLL Max", 1, "GpuClkPllMax"),
       Entry("GPU PLL Limit", 4, "GpuClkPllLimit"),
       Entry("MEM Freq Mtc", 1, "EmcClkOSLimit"),
       Entry("MEM Freq Dvb", 1, "EmcClkOSLimit"),
       Entry("MEM Freq Max", 0, "EmcClkOSLimit"),
       Entry("MEM Freq PLLM", 2, "EmcClkPllmLimit"),
       Entry("MEM Vddq", 2, "EmcVddqDefault"),
       Entry("MEM Vdd2", 2, "MemVdd2Default"),
       Entry("MEM Table Asm", 1, "MemMtcGetGetTablePattern"),
       Entry("SOC Volt Asm", 1, "SocVoltPattern"),
       Entry("SOC Volt Limit", 1, "SocVoltLimitOfficial") >>

EristaPatches ==
    << Entry("CPU Freq Table", 1, "CpuCvbDefaultMaxFreq"),
       Entry("CPU Volt DVFS", 1, "CpuVminOfficial"),
       Entry("CPU Volt Thermals", 1, "CpuVminOfficial"),
       Entry("CPU Volt Dfll", 1, "CpuTune0Low"),
       Entry("GPU Volt DVFS", 1, "GpuVminOfficial"),
       Entry("GPU Volt Thermals", 1, "GpuVminOfficial"),
       Entry("GPU Freq Table", 1, "GpuCvbDefaultMaxFreq"),
       Entry("GPU Freq Asm", 2, "GpuMaxClockPattern"),
       Entry("GPU PLL Max", 1, "GpuClkPllMax"),
       Entry("MEM Freq Mtc", 0, "EmcClkOSLimit"),
       Entry("MEM Freq Max", 0, "EmcClkOSLimit"),
       Entry("MEM Freq PLLM", 2, "EmcClkPllmLimit"),
       Entry("MEM Volt", 2, "MemVoltHOS") >>

patches(s) == IF s = "Mariko" THEN MarikoPatches ELSE EristaPatches

\* A word of the image; `by` is the entry that patched it, "" for none.
Place(value, part, table) == [value |-> value, part |-> part, table |-> table, by |-> ""]

-------------------------------------------------------------------------------
(* The checks.  On Mariko the RAM tables lie one after the other, with two *)
(* of Erista's between the first and the second: the offset of the table   *)
(* in use leads to a table only from the first one (GetMtcOffset).         *)

Accepts(e, word) ==
    /\ e.value = word.value
    /\ \/ e.name = "MEM Freq Max"
       \/ e.name = word.part /\ (soc = "Mariko" => word.table = 0)

\* Mutant: the entry that takes every word comes before those that look.
AppliesFirstMax(word) ==
    LET found == {i \in DOMAIN patches(soc) : Accepts(patches(soc)[i], word)}
        max   == {i \in found : patches(soc)[i].name = "MEM Freq Max"}
    IN  IF max # {} THEN max ELSE IF found = {} THEN {} ELSE {Min(found)}

\* The entry that gets a word: the first that accepts it.
Applies(word) ==
    LET found == {i \in DOMAIN patches(soc) : Accepts(patches(soc)[i], word)}
    IN  IF found = {} THEN {} ELSE {Min(found)}

\* Steps of a patch that can fail once the place is found: the I2C write of
\* VDDQ, and the fuses that SocVoltAsm reads when it has a limit to set.
MayFail(name) ==
    \/ name = "MEM Vddq" /\ c["marikoEmcVddqVolt"] # 0
    \/ name = "SOC Volt Asm" /\ c["marikoSocVmax"] > 1000

\* Building the new RAM tables clears every other table, Erista's included
\* but for the one before them (PrepareMtcMemoryRegion).
IsCleared(e, word, i) ==
    /\ soc = "Mariko" /\ e.name = "MEM Freq Mtc" /\ i > at
    /\ c["marikoEmcMaxClock"] > EmcClkOSLimit
    /\ word.part \in {"MEM Freq Mtc", "other tables"}

\* Mutant: the value looked for is noted in place of the entry.
WrittenValue(e) == [image EXCEPT ![at].by = e.value]

Written(e) ==
    [i \in DOMAIN image |->
        IF i = at THEN [image[i] EXCEPT !.by = e.name]
        ELSE IF IsCleared(e, image[i], i) THEN [image[i] EXCEPT !.value = "0"]
        ELSE image[i]]

-------------------------------------------------------------------------------

Init ==
    /\ soc \in {"Mariko", "Erista"}
    /\ c \in Customs
    /\ image \in Images(soc, c)
    /\ at = 1
    /\ count = [i \in DOMAIN patches(soc) |-> 0]
    /\ result = "check"

\* Patch, pcv.cpp: the checks come first and end in a panic.
Check ==
    /\ result = "check"
    /\ result' = IF SafetyCheck(c) THEN "scan" ELSE "panic"
    /\ UNCHANGED <<soc, c, image, at, count>>

\* One word of the pass.
Word1 ==
    /\ result = "scan" /\ at \in DOMAIN image
    /\ at' = at + 1
    /\ IF Applies(image[at]) = {}
       THEN UNCHANGED <<image, count>>
       ELSE LET i == Min(Applies(image[at]))
                e == patches(soc)[i]
            IN  /\ image' = Written(e)
                /\ \/ count' = [count EXCEPT ![i] = @ + 1]
                   \/ MayFail(e.name) /\ UNCHANGED count
    /\ UNCHANGED <<soc, c, result>>

\* Mutant: only entries that were never applied are reported.
CheckResultAny(e, n) == n > 0
CheckResult(e, n) == n > 0 /\ (e.max # 0 => n <= e.max)

Finish ==
    /\ result = "scan" /\ at \notin DOMAIN image
    /\ result' = IF \A i \in DOMAIN count : CheckResult(patches(soc)[i], count[i])
                 THEN "boots" ELSE "panic"
    /\ UNCHANGED <<soc, c, image, at, count>>

Next == Check \/ Word1 \/ Finish
Spec == Init /\ [][Next]_vars

-------------------------------------------------------------------------------

TypeOK ==
    /\ soc \in {"Mariko", "Erista"}
    /\ \A i \in DOMAIN image : image[i].by \in {e.name : e \in Range(patches(soc))} \cup {""}
    /\ at \in 1..(Len(image) + 1)
    /\ \A i \in DOMAIN count : count[i] \in 0..Len(image)
    /\ result \in {"check", "scan", "boots", "panic"}

\* A console that boots has every limit of PCV lifted: each structure an entry
\* is for was patched by that entry, all but the first of the RAM tables aside,
\* and none more often than the entry may be applied (CheckResult).
BootsPatched ==
    result = "boots" =>
        \A e \in Range(patches(soc)) :
            LET mine == {i \in DOMAIN image : image[i].part = e.name}
            IN  /\ \E i \in DOMAIN image : image[i].by = e.name
                /\ \A i \in mine : \/ image[i].by = e.name
                                  \/ image[i].value = "0" \/ image[i].table > 0
                /\ e.max # 0 => Cardinality({i \in mine : image[i].by = e.name}) <= e.max

\* The image PCV really has boots, with every table the checks let through;
\* only the I2C bus or the fuses can stop it.
Official(img) ==
    \A e \in Range(patches(soc)) :
        LET mine == {i \in DOMAIN img : img[i].part = e.name /\ img[i].value = e.value
                                          /\ img[i].table = 0}
        IN  mine # {} /\ (e.max # 0 => Cardinality(mine) <= e.max)
OfficialBoots ==
    result = "panic" =>
        \/ ~SafetyCheck(c)
        \/ \E i \in DOMAIN count : count[i] = 0 /\ MayFail(patches(soc)[i].name)
        \/ ~Official(image)
==============================================================================
