------------------------------- MODULE KipSync --------------------------------
(***************************************************************************)
(* sysmodule/src/file/kip.cpp: the settings the loader reads at boot live  *)
(* twice, in the customization table inside hoc.kip and in config.ini.     *)
(* GetKipData brings the two together when the sysmodule starts, SetKipData *)
(* writes the table when the overlay asks for it; the checksum of the kip  *)
(* kept in config.ini tells which of the two is newer.  config.ini is      *)
(* replaced as Settings promises: after a loss of power it is the old one, *)
(* the new one or gone.  A checksum is the content it is taken of.         *)
(***************************************************************************)
EXTENDS Integers, Sequences

CONSTANTS FieldSeq,      \* fields of CustomizeTable, in the order of the table
          Values,        \* what the overlay offers for a field
          BootVolt,      \* the 800 mV a migration fills in
          Versions,      \* versions of kips: below, at and above the sysmodule's
          KIP_VERSION,   \* the one the sysmodule was built for
          MaxAsks,       \* bound: changes by the user,
          MaxUpdates,    \* kips installed,
          MaxEdits,      \* edits of config.ini,
          MaxFailures,   \* files that could not be written
          MaxLosses      \* and losses of power

Fields  == {FieldSeq[i] : i \in DOMAIN FieldSeq}
Table   == [Fields -> Values \cup {0, BootVolt}]
Factory == [f \in Fields |-> 0]

ASSUME KipAssumption ==
    /\ "marikoGpuBootVolt" \in Fields /\ KIP_VERSION \in Versions
    /\ Versions \subseteq Nat /\ BootVolt \notin Values

VARIABLES
    kip,      \* hoc.kip, [version, table]
    conf,     \* the config values at play: [first, crc, version, table]
    list,     \* the overlay's copy of them, <<>> when it has none
    save,     \* the overlay's shouldSaveKip
    pc,       \* what the sysmodule is doing
    asked,    \* history: the table the user asked for last,
    saved,    \* the one kip and config.ini last agreed on,
    known,    \* every table that was asked for or agreed on so far,
    fresh,    \* whether nothing was asked for, nor failed, since the last start,
    risk,     \* how often a copy was put at risk since all of them agreed
    count     \* [asks, updates, edits, failures, losses]

vars == <<kip, conf, list, save, pc, asked, saved, known, fresh, risk, count>>

\* crc32::checksum_file.
Checksum(k) == <<k.version, k.table>>

\* A config.ini that is not there.
NoConf == [first |-> TRUE, crc |-> <<>>, version |-> 0, table |-> Factory]

\* The fields of the table that had reached the file when power went.
Torn(old, new) ==
    {[f \in Fields |-> IF \E i \in 1..n : FieldSeq[i] = f THEN new[f] ELSE old[f]]
        : n \in 0..Len(FieldSeq)}

\* Both copies are whole and each is on record in the other.
Agree(k, c) ==
    /\ k.version = KIP_VERSION /\ c.version = KIP_VERSION
    /\ c.table = k.table /\ c.crc = Checksum(k) /\ ~c.first

\* The history of a step that puts r copies at risk.  All copies agree when the
\* overlay has no older values than the kip and config.ini.
Record(r) ==
    LET agreed == pc' = "up" /\ Agree(kip', conf')
    IN /\ saved' = IF agreed THEN conf'.table ELSE saved
       /\ known' = known \cup {asked', saved'}
       /\ risk'  = IF agreed /\ list' \in {<<>>, conf'} THEN 0 ELSE risk + r

-------------------------------------------------------------------------------
(* GetKipData, when the sysmodule starts.                                  *)

\* Mutant: the first load does not count.
GetKipDataNoFirst ==
    /\ pc = "boot"
    /\ pc' = IF Checksum(kip) # conf.crc THEN "migrate" ELSE "adopt"
    /\ UNCHANGED <<kip, conf, list, save, asked, fresh, count>> /\ Record(0)

\* Up to the test of the checksum: a kip that is not the one on record gets the
\* settings of config.ini, unless there are none yet.
GetKipData ==
    /\ pc = "boot"
    /\ pc' = IF Checksum(kip) # conf.crc /\ ~conf.first THEN "migrate" ELSE "adopt"
    /\ UNCHANGED <<kip, conf, list, save, asked, fresh, count>> /\ Record(0)

\* What each step that stores config values is about to store.  MigrateKipData
\* fills in a field that older versions did not have.
Adopted  == [first |-> FALSE, crc |-> Checksum(kip), version |-> kip.version,
             table |-> kip.table]
\* Mutant: it is added to what is there.
MigratedAdding == [conf EXCEPT !.table["marikoGpuBootVolt"] =
             IF conf.version < 240 /\ kip.version >= 240 THEN @ + BootVolt ELSE @]
Migrated == [conf EXCEPT !.table["marikoGpuBootVolt"] =
                 IF conf.version < 240 /\ kip.version >= 240 THEN BootVolt ELSE @]
\* Mutant: the checksum of the kip stays the one on record.
SignedNot == conf
Signed   == [conf EXCEPT !.crc = Checksum(kip)]

\* config::SetConfigValues of the list new: the file is replaced, or that fails
\* and nothing changes.
SetConfigValues(new) ==
    \/ conf' = new /\ UNCHANGED <<count, fresh>> /\ Record(0)
    \/ /\ count.failures < MaxFailures
       /\ count' = [count EXCEPT !.failures = @ + 1] /\ conf' = conf
       /\ fresh' = FALSE /\ UNCHANGED <<saved, known, risk>>

\* The rest of GetKipData: a kip of another version is only reported, otherwise
\* its settings are taken in.
Adopt ==
    /\ pc = "adopt" /\ pc' = "up"
    /\ UNCHANGED <<kip, list, save, asked>>
    /\ IF kip.version # KIP_VERSION
       THEN UNCHANGED <<conf, count, fresh>> /\ Record(0)
       ELSE SetConfigValues(Adopted)

\* MigrateKipData, then on to SetKipData.
MigrateKipData ==
    /\ pc = "migrate" /\ pc' = "write"
    /\ UNCHANGED <<kip, list, save, asked>>
    /\ SetConfigValues(Migrated)

-------------------------------------------------------------------------------
(* SetKipData, from GetKipData or from the overlay.                        *)

\* Mutant: the version is not looked at.
WriteTableAnyVersion ==
    /\ pc = "write" /\ pc' = "sign"
    /\ kip' = [kip EXCEPT !.table = conf.table]
    /\ UNCHANGED <<conf, list, save, asked, fresh, count>> /\ Record(0)

\* Nothing for a kip of another version; the table is written in place, and a
\* write that fails, or stops half way, is only reported.
WriteTable ==
    /\ pc = "write"
    /\ UNCHANGED <<conf, list, save, asked>>
    /\ \/ /\ kip.version # KIP_VERSION
          /\ pc' = "up" /\ UNCHANGED <<kip, count, fresh>> /\ Record(0)
       \/ /\ kip.version = KIP_VERSION
          /\ pc' = "sign" /\ kip' = [kip EXCEPT !.table = conf.table]
          /\ UNCHANGED <<count, fresh>> /\ Record(0)
       \/ /\ kip.version = KIP_VERSION /\ count.failures < MaxFailures
          /\ count' = [count EXCEPT !.failures = @ + 1]
          /\ pc' = "sign" /\ fresh' = FALSE
          /\ \E t \in Torn(kip.table, conf.table) : kip' = [kip EXCEPT !.table = t]
          /\ UNCHANGED <<saved, known, risk>>

\* The checksum of the file goes to config.ini, with the values of that moment.
Sign ==
    /\ pc = "sign" /\ pc' = "up"
    /\ UNCHANGED <<kip, list, save, asked>>
    /\ SetConfigValues(Signed)

-------------------------------------------------------------------------------
(* The user, and the console.                                              *)

\* The overlay reads the whole list when it builds a page,
OpenPage ==
    /\ pc = "up" /\ list # conf /\ list' = conf
    /\ UNCHANGED <<kip, conf, save, pc, asked, fresh, count>> /\ Record(0)

\* and sends back the whole list, with one field changed.
Ask(f, v) ==
    /\ pc = "up" /\ list # <<>>
    /\ count.asks < MaxAsks /\ count' = [count EXCEPT !.asks = @ + 1]
    /\ list' = [list EXCEPT !.table[f] = v] /\ save' = TRUE
    /\ conf' = list' /\ asked' = list'.table /\ fresh' = FALSE
    /\ UNCHANGED <<kip, pc>> /\ Record(0)

\* The page is left: its thread asks for SetKipData.
SaveKip ==
    /\ pc = "up" /\ save /\ save' = FALSE /\ pc' = "write"
    /\ UNCHANGED <<kip, conf, list, asked, fresh, count>> /\ Record(0)

\* A release is installed: its kip has the factory settings.
InstallKip ==
    /\ pc \in {"off", "up"}
    /\ count.updates < MaxUpdates /\ count' = [count EXCEPT !.updates = @ + 1]
    /\ \E v \in Versions : kip' = [version |-> v, table |-> Factory]
    /\ fresh' = FALSE
    /\ UNCHANGED <<conf, list, save, pc, asked>> /\ Record(1)

\* config.ini is edited and loaded again by the tick, or deleted while off.
EditConf ==
    /\ count.edits < MaxEdits /\ count' = [count EXCEPT !.edits = @ + 1]
    /\ \/ pc = "off" /\ conf' = NoConf /\ asked' = asked
       \/ /\ pc \notin {"boot", "adopt", "migrate"}
          /\ \E t \in Table :
               t # conf.table /\ conf' = [conf EXCEPT !.table = t] /\ asked' = t
    /\ fresh' = FALSE
    /\ UNCHANGED <<kip, list, save, pc>> /\ Record(1)

\* Power is lost, in the middle of whatever is being written.
PowerLoss ==
    /\ pc # "off" /\ pc' = "off"
    /\ count.losses < MaxLosses /\ count' = [count EXCEPT !.losses = @ + 1]
    /\ IF pc = "write" /\ kip.version = KIP_VERSION
       THEN \E t \in Torn(kip.table, conf.table) : kip' = [kip EXCEPT !.table = t]
       ELSE kip' = kip
    /\ \/ conf' = conf
       \/ pc \in {"adopt", "migrate", "sign"} /\ conf' = NoConf
       \/ pc = "adopt" /\ kip.version = KIP_VERSION /\ conf' = Adopted
       \/ pc = "migrate" /\ conf' = Migrated
       \/ pc = "sign" /\ conf' = Signed
    /\ list' = <<>> /\ save' = FALSE
    /\ UNCHANGED <<asked, fresh>> /\ Record(1)

\* The console is shut down, and started.
ShutDown ==
    /\ pc = "up" /\ pc' = "off" /\ list' = <<>> /\ save' = FALSE
    /\ UNCHANGED <<kip, conf, asked, fresh, count>> /\ Record(0)
Start ==
    /\ pc = "off" /\ pc' = "boot" /\ fresh' = TRUE
    /\ UNCHANGED <<kip, conf, list, save, asked, count>> /\ Record(0)

Init ==
    /\ kip = [version |-> KIP_VERSION, table |-> Factory]
    /\ conf = NoConf /\ list = <<>> /\ save = FALSE /\ pc = "off"
    /\ asked = Factory /\ saved = Factory /\ known = {Factory}
    /\ fresh = FALSE /\ risk = 0
    /\ count = [asks |-> 0, updates |-> 0, edits |-> 0, failures |-> 0, losses |-> 0]

Next ==
    \/ GetKipData \/ Adopt \/ MigrateKipData \/ WriteTable \/ Sign
    \/ OpenPage \/ SaveKip \/ ShutDown \/ Start
    \/ \E f \in Fields, v \in Values : Ask(f, v)
    \/ InstallKip \/ EditConf \/ PowerLoss

Spec == Init /\ [][Next]_vars

-------------------------------------------------------------------------------
(* Properties.                                                             *)

TypeOK ==
    /\ kip \in [version : Versions, table : Table]
    /\ conf.table \in Table /\ conf.first \in BOOLEAN
    /\ conf.version \in Versions \cup {0}
    /\ conf.crc # <<>> => conf.crc[1] \in Versions /\ conf.crc[2] \in Table
    /\ list # <<>> => list.table \in Table
    /\ save \in BOOLEAN
    /\ pc \in {"off", "boot", "adopt", "migrate", "write", "sign", "up"}
    /\ {saved, asked} \cup known \subseteq Table /\ risk \in Nat

\* After a start in which every write succeeded the kip and config.ini have the
\* same table, and the checksum on record is that of the kip: whatever was asked
\* for, edited, installed, torn or not written before (kip.cpp:193).
AgreeAfterStart ==
    pc = "up" /\ fresh /\ kip.version = KIP_VERSION =>
        conf.table = kip.table /\ conf.crc = Checksum(kip)

\* A table somebody set, as it is or migrated.
WithBootVolt(t) == [t EXCEPT !["marikoGpuBootVolt"] = BootVolt]
KnownIn(tables, t) == t \in tables \/ \E u \in tables : t = WithBootVolt(u)

\* What is in use when the sysmodule is done with the kip.
Settles == pc # "up" /\ pc' = "up"

\* Without a failed write, the table in use is never a mix of two, though power
\* was lost in the middle of the one that is written in place, a kip was installed
\* or config.ini edited, once since all copies agreed; and without that it is the
\* one asked for last or the one agreed on last.
SettingsSurvive ==
    Settles /\ count.failures = 0 =>
        /\ risk <= 1 => KnownIn(known, conf'.table)
        /\ risk = 0 => conf'.table \in {asked, saved}

\* The table of a kip of another version, whose layout may be another, is not
\* written: it stays as it is until a release takes its place.
ForeignKipUntouched ==
    kip.version # KIP_VERSION => kip' = kip \/ kip'.table = Factory

\* Every step heeds both: what the user set survives, and the kip of another
\* version is left alone (kip.cpp).
StepsRight == [][SettingsSurvive /\ ForeignKipUntouched]_vars

\* The two copies of the settings agree after a start (kip.cpp).
SyncInv == TypeOK /\ AgreeAfterStart
==============================================================================
