----------------------------- MODULE ConfigStore ------------------------------
(***************************************************************************)
(* sysmodule/src/file/config.cpp over config.ini: the loaded settings, the *)
(* file, and the steps in which minIni replaces it.  The tick's thread     *)
(* reloads the file when its modification time is another one; the IPC     *)
(* thread stores profiles and config values; both take gConfigMutex.  The  *)
(* file may be edited from outside, and power may be lost at any step.     *)
(***************************************************************************)
EXTENDS Integers, Sequences, FiniteSets, Ini, ConfigValues

CONSTANTS Tids,        \* title ids, as the names of their sections
          SlotSeq,     \* profile_module, the names of the keys, in enum order
          Mhz,         \* clocks a slot can have, 0 for none
          KvalSeq,     \* the config values at play, in enum order
          Inputs,      \* what a client or an edit may give a config value
          Edits,       \* the files an edit leaves behind
          MaxTime,     \* bound: granules of the modification time
          MaxChanges,  \* bound: changes by clients,
          MaxEdits,    \* edits of the file
          MaxLosses    \* and losses of power

Slots == {SlotSeq[i] : i \in DOMAIN SlotSeq}
Kvals == {KvalSeq[i] : i \in DOMAIN KvalSeq}

ValuesSection == "values"
Parts == Tids \cup {ValuesSection}

IsEnum(names) ==
    names \in Seq(STRING) /\ \A i, j \in DOMAIN names : names[i] = names[j] => i = j

ASSUME StoreAssumption ==
    /\ IsEnum(SlotSeq) /\ IsEnum(KvalSeq) /\ Kvals \subseteq ConfigValue
    /\ Parts \subseteq STRING /\ ValuesSection \notin Tids
    /\ Inputs \subseteq Nat /\ Mhz \subseteq Nat /\ 0 \in Mhz
    /\ MaxTime \in Nat \ {0} /\ {MaxChanges, MaxEdits, MaxLosses} \subseteq Nat

\* Inputs and Mhz have all that stands in the files.
InRange(lines) ==
    /\ \A k \in Kvals : \A i \in Callbacks(lines, ValuesSection, k) :
          lines[i].value \in Inputs
    /\ \A t \in Tids, s \in Slots : \A i \in Callbacks(lines, t, s) :
          lines[i].value \in Mhz

ASSUME EditsAssumption == Edits \subseteq Seq(Line) /\ \A lines \in Edits : InRange(lines)

\* ini_putsection replaces the first section of a name, and BrowseIniFunc counts
\* every callback: the promises below are about files in which no section of a
\* part comes twice and no key of a title twice, as the program writes them.
SectionsOnce(lines) ==
    \A p \in Parts : \A i, j \in DOMAIN lines :
        lines[i] = SectionLine(p) /\ lines[j] = SectionLine(p) => i = j

ClocksOnce(lines) ==
    \A t \in Tids, s \in Slots : \A i, j \in Callbacks(lines, t, s) :
        lines[i].value # 0 /\ lines[j].value # 0 => i = j

TidyEdits == \A lines \in Edits : SectionsOnce(lines) /\ ClocksOnce(lines)

VARIABLES
    ini, mtime,                 \* config.ini, <<>> with mtime 0 when missing
    gLoaded, gMtime,            \* config.cpp's
    values, mhzMap, countMap,   \* configValues, gProfileMHzMap, gProfileCountMap
    put,                        \* the ini_putsection under way, and its step
    now,                        \* the clock, in granules of the file's time
    readAt,                     \* history: the granule of the last Load, 0 when it
                                \* read no file
    edits, changes, losses      \* history: how many of each

vars == <<ini, mtime, gLoaded, gMtime, values, mhzMap, countMap, put, now,
          readAt, edits, changes, losses>>

Defaults == [k \in Kvals |-> DefaultConfigValue(k)]
NoClocks == [t \in Tids |-> [s \in Slots |-> 0]]
Idle     == [step |-> "idle", part |-> "", content |-> Defaults, lines |-> <<>>,
            time |-> 0]

-------------------------------------------------------------------------------
(* Reading the file.                                                       *)

\* The value that stands after BrowseIniFunc has seen the callbacks for key k of
\* section s: that of the last one it does not skip.
Standing(lines, s, k, skip, default) ==
    LET taken == {i \in Callbacks(lines, s, k) : lines[i].value \notin skip}
    IN  IF taken = {} THEN default
        ELSE lines[CHOOSE i \in taken : \A j \in taken : j <= i].value

InFile(lines, k) == Standing(lines, ValuesSection, k, {}, DefaultConfigValue(k))

\* Mutant: values of the file are taken as they are.
LoadedValuesUnchecked(lines) == [k \in Kvals |-> InFile(lines, k)]

\* BrowseIniFunc on the values section: a value that is not valid counts as the
\* default; keys that no config value has are skipped.
LoadedValues(lines) == [k \in Kvals |-> Accepted(k, InFile(lines, k))]

\* BrowseIniFunc on the section of a title: a clock of 0 is skipped.
LoadedClocks(lines) ==
    [t \in Tids |-> [s \in Slots |-> Standing(lines, t, s, {0}, 0)]]

\* gProfileCountMap counts the callbacks.
Counted(lines, t) ==
    {i \in UNION {Callbacks(lines, t, s) : s \in Slots} : lines[i].value # 0}
LoadedCounts(lines) == [t \in Tids |-> Cardinality(Counted(lines, t))]

\* Mutant: only a newer file is read.
RefreshStatNewer ==
    /\ put.step = "idle"
    /\ ~gLoaded \/ mtime > gMtime
    /\ gLoaded' = FALSE /\ gMtime' = mtime /\ readAt' = now
    /\ values' = Defaults /\ mhzMap' = NoClocks
    /\ countMap' = [t \in Tids |-> 0]
    /\ put' = [Idle EXCEPT !.step = "load"]
    /\ UNCHANGED <<ini, mtime, now, edits, changes, losses>>

\* config::Refresh, up to Load's read of the file: Close, then the time of the
\* file is kept.
RefreshStat ==
    /\ put.step = "idle"
    /\ ~gLoaded \/ gMtime # mtime
    /\ gLoaded' = FALSE /\ gMtime' = mtime /\ readAt' = now
    /\ values' = Defaults /\ mhzMap' = NoClocks
    /\ countMap' = [t \in Tids |-> 0]
    /\ put' = [Idle EXCEPT !.step = "load"]
    /\ UNCHANGED <<ini, mtime, now, edits, changes, losses>>

\* Mutant: the callback ends the browsing at a value that is not valid.
RefreshBrowseStopping ==
    /\ put.step = "load"
    /\ LET bad  == {i \in DOMAIN ini : ini[i].name \in Kvals
                      /\ ~ValidConfigValue(ini[i].name, ini[i].value)}
           seen == IF bad = {} THEN ini
                   ELSE SubSeq(ini, 1, CHOOSE i \in bad : \A j \in bad : i <= j)
       IN /\ values' = LoadedValues(seen)
          /\ mhzMap' = LoadedClocks(seen)
          /\ countMap' = LoadedCounts(seen)
    /\ gLoaded' = TRUE /\ put' = Idle
    /\ UNCHANGED <<ini, mtime, gMtime, now, readAt, edits, changes, losses>>

\* The rest of Load: ini_browse, when there was a file, and gLoaded.  Both go on
\* alike when the file cannot be opened: nothing of it is loaded, and its time is
\* kept all the same, so that it is not read again before it changes.
RefreshBrowse ==
    /\ put.step = "load"
    /\ \/ /\ UNCHANGED <<values, mhzMap, countMap>>
          /\ readAt' = 0
       \/ /\ gMtime # 0
          /\ values' = LoadedValues(ini)
          /\ mhzMap' = LoadedClocks(ini)
          /\ countMap' = LoadedCounts(ini)
          /\ UNCHANGED readAt
    /\ gLoaded' = TRUE /\ put' = Idle
    /\ UNCHANGED <<ini, mtime, gMtime, now, edits, changes, losses>>

-------------------------------------------------------------------------------
(* Storing.                                                                *)

\* The elements of a finite set of numbers in ascending order.
InOrder(S) ==
    LET Rank(i) == Cardinality({j \in S : j <= i})
    IN  [n \in 1..Cardinality(S) |-> CHOOSE i \in S : Rank(i) = n]

\* The arrays handed to ini_putsection: the names that are written, with their
\* values, in the order of the enumeration.
KeyLines(names, written, value) ==
    LET order == InOrder({i \in DOMAIN names : names[i] \in written})
    IN  [n \in DOMAIN order |-> ValueLine(names[order[n]], value[names[order[n]]])]

\* SetProfiles writes the slots that have a clock.
ProfileKeys(clocks) == KeyLines(SlotSeq, {s \in Slots : clocks[s] # 0}, clocks)

\* SetConfigValues writes what is valid and not the default.
Kept(list) == {k \in Kvals : /\ ValidConfigValue(k, list[k])
                             /\ list[k] # DefaultConfigValue(k)}
ValueKeys(list) == KeyLines(KvalSeq, Kept(list), list)

\* ini_putsection up to the open of what it writes: the new file itself when
\* there is none, the temporary one otherwise.  False when that fails, and the
\* settings in memory stay as they are.
Put(part, content, keys) ==
    /\ put.step = "idle" /\ gLoaded
    /\ changes < MaxChanges /\ changes' = changes + 1
    /\ \/ put' = put
       \/ put' = [step    |-> IF mtime = 0 THEN "new" ELSE "temp",
                  part    |-> part, content |-> content,
                  lines   |-> IniPutSection(ini, part, keys), time |-> now]
    /\ IF put'.step = "new" THEN mtime' = now ELSE mtime' = mtime
    /\ UNCHANGED <<ini, gLoaded, gMtime, values, mhzMap, countMap, now, readAt,
                   edits, losses>>

\* The commands SetProfiles and SetConfigValues: nothing before the first Load.
SetProfiles(t, clocks)   == Put(t, clocks, ProfileKeys(clocks))
SetConfigValues(list)    == Put(ValuesSection, list, ValueKeys(list))

\* The lines reach the file: a new config.ini is written as it is.
WriteNew ==
    /\ put.step = "new"
    /\ ini' = put.lines /\ mtime' = now
    /\ put' = [put EXCEPT !.step = "apply"]
    /\ UNCHANGED <<gLoaded, gMtime, values, mhzMap, countMap, now, readAt,
                   edits, changes, losses>>

\* The temporary file is written; close_rename: config.ini is removed,
Remove ==
    /\ put.step = "temp"
    /\ ini' = <<>> /\ mtime' = 0
    /\ put' = [put EXCEPT !.step = "removed", !.time = now]
    /\ UNCHANGED <<gLoaded, gMtime, values, mhzMap, countMap, now, readAt,
                   edits, changes, losses>>

\* and the temporary file takes its name.
Rename ==
    /\ put.step = "removed"
    /\ ini' = put.lines /\ mtime' = put.time
    /\ put' = [put EXCEPT !.step = "apply"]
    /\ UNCHANGED <<gLoaded, gMtime, values, mhzMap, countMap, now, readAt,
                   edits, changes, losses>>

\* The end of SetProfiles and of SetConfigValues: both are always told to take
\* effect immediately.  gMtime stays, so the next Refresh reads the file again.
NewValues == IF put.part = ValuesSection
             THEN [k \in Kvals |-> Accepted(k, put.content[k])]
             ELSE values
NewClocks == IF put.part \in Tids
             THEN [mhzMap EXCEPT ![put.part] = put.content]
             ELSE mhzMap
\* Mutant: the count is left to the next load.
NewCountsKept == countMap
NewCounts == IF put.part \in Tids
             THEN [countMap EXCEPT ![put.part] =
                     Cardinality({s \in Slots : put.content[s] # 0})]
             ELSE countMap

Apply ==
    /\ put.step = "apply"
    /\ values' = NewValues /\ mhzMap' = NewClocks /\ countMap' = NewCounts
    /\ put' = Idle
    /\ UNCHANGED <<ini, mtime, gLoaded, gMtime, now, readAt, edits, changes,
                   losses>>

-------------------------------------------------------------------------------
(* What happens to the console.                                            *)

\* The file is edited, or deleted, from outside while nobody has it open.
EditFile ==
    /\ put.step = "idle"
    /\ edits < MaxEdits /\ edits' = edits + 1
    /\ \/ ini' \in Edits /\ mtime' = now
       \/ ini' = <<>> /\ mtime' = 0
    /\ UNCHANGED <<gLoaded, gMtime, values, mhzMap, countMap, put, now, readAt,
                   changes, losses>>

\* Power is lost and comes back: main starts over with config::Initialize.  A
\* file that was being written new has the lines that had reached it.
PowerLoss ==
    /\ losses < MaxLosses /\ losses' = losses + 1
    /\ IF put.step = "new"
       THEN \E n \in 0..Len(put.lines) : ini' = SubSeq(put.lines, 1, n)
       ELSE ini' = ini
    /\ gLoaded' = FALSE /\ gMtime' = 0 /\ readAt' = now
    /\ values' = Defaults /\ mhzMap' = NoClocks
    /\ countMap' = [t \in Tids |-> 0]
    /\ put' = Idle
    /\ UNCHANGED <<mtime, now, edits, changes>>

Clock ==
    /\ now < MaxTime /\ now' = now + 1
    /\ UNCHANGED <<ini, mtime, gLoaded, gMtime, values, mhzMap, countMap, put,
                   readAt, edits, changes, losses>>

Init ==
    /\ \/ ini \in Edits /\ mtime = 1
       \/ ini = <<>> /\ mtime = 0
    /\ now = 1 /\ readAt = 0
    /\ gLoaded = FALSE /\ gMtime = 0
    /\ values = Defaults /\ mhzMap = NoClocks /\ countMap = [t \in Tids |-> 0]
    /\ put = Idle /\ edits = 0 /\ changes = 0 /\ losses = 0

Refresh == RefreshStat \/ RefreshBrowse
PutStep == WriteNew \/ Remove \/ Rename \/ Apply

Next ==
    \/ Refresh \/ PutStep
    \/ \E t \in Tids, clocks \in [Slots -> Mhz] : SetProfiles(t, clocks)
    \/ \E list \in [Kvals -> Inputs] : SetConfigValues(list)
    \/ EditFile \/ PowerLoss \/ Clock

\* The tick never ends, and a put that has begun goes on.
Spec == Init /\ [][Next]_vars /\ WF_vars(Refresh) /\ WF_vars(PutStep)

-------------------------------------------------------------------------------
(* Properties.                                                             *)

TypeOK ==
    /\ mtime \in 0..MaxTime /\ gMtime \in 0..MaxTime /\ gLoaded \in BOOLEAN
    /\ \A i \in DOMAIN ini : ini[i].kind \in {"section", "key", "other"}
    /\ \A k \in Kvals : ValidConfigValue(k, values[k])
    /\ mhzMap \in [Tids -> [Slots -> Mhz]]
    /\ countMap \in [Tids -> 0..Len(SlotSeq)]
    /\ put.step \in {"idle", "load", "new", "temp", "removed", "apply"}
    /\ readAt \in 0..now /\ now \in 1..MaxTime

\* GetProfileCount tells how many clocks GetProfiles gives, whether they come
\* from the file, from a client or from both in turn.
CountMatches ==
    \A t \in Tids :
        countMap[t] = Cardinality({s \in Slots : mhzMap[t][s] # 0})

\* The test of the modification time is as good as a look into the file, except
\* in the granule of the last load: when the times of a file that exists agree and
\* are older than the load, and the load could open the file, what is loaded is
\* what the file says (config.cpp:218).
FreshWhenOlder ==
    put.step = "idle" /\ gLoaded /\ gMtime = mtime /\ mtime \in 1..readAt - 1 =>
        /\ values = LoadedValues(ini)
        /\ mhzMap = LoadedClocks(ini)
        /\ countMap = LoadedCounts(ini)

\* An edit, a change or a loss of power is followed by a load: the times do not
\* disagree for ever.  A load that could not open the file counts as one.
FileIsLoaded == gMtime # mtime ~> gLoaded /\ gMtime = mtime

-------------------------------------------------------------------------------
(* The promise to the clients.  A change takes effect for them when the    *)
(* old file is gone, or the new one is opened: gConfigMutex is held from   *)
(* there to the end of the change, and only a loss of power can tell.      *)

Content == [p \in Parts |-> IF p = ValuesSection
                            THEN [Kvals -> Inputs \cup
                                    {DefaultConfigValue(k) : k \in Kvals}]
                            ELSE [Slots -> Mhz]]
Empty   == [p \in Parts |-> IF p = ValuesSection THEN Defaults
                            ELSE [s \in Slots |-> 0]]
Whole(vs, clocks) ==
    [p \in Parts |-> IF p = ValuesSection THEN vs ELSE clocks[p]]

StoredNow ==
    LET lines == IF put.step \in {"new", "removed"} THEN put.lines ELSE ini
    IN Whole(LoadedValues(lines), LoadedClocks(lines))

NotLoaded == <<>>

LoadedNow ==
    IF ~gLoaded THEN NotLoaded
    ELSE IF put.step \in {"new", "removed", "apply"}
    THEN Whole(NewValues, NewClocks)
    ELSE Whole(values, mhzMap)

Promise == INSTANCE Settings WITH stored <- StoredNow, loaded <- LoadedNow

\* config.cpp over minIni keeps the promise of Settings: a change is made in the
\* file and in memory together and touches nothing else, and a loss of power
\* leaves all of the old settings, all of the new ones or none.
PromiseKept == Promise!SSpec

\* What the memory of the sysmodule is worth: its count of a title's profiles is
\* that of the profiles, and with a modification time that tells the file from
\* the one loaded, it is the file's (config.cpp Load, Refresh).
StoreInv == TypeOK /\ CountMatches /\ FreshWhenOlder
==============================================================================
