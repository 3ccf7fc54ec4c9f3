----------------------------- MODULE LoaderProofs -----------------------------
(***************************************************************************)
(* The kip's settings and the loader that puts them to use.                *)
(*                                                                         *)
(* KipSync: after any start in which every write succeeded the kip and     *)
(* config.ini agree, no single loss of power leaves a mix of two tables in *)
(* use, and a kip of another version is never written: for any table, any  *)
(* versions and any number of changes, edits, releases, failures and       *)
(* losses.                                                                 *)
(*                                                                         *)
(* ProcessCreation: a process is created whole, in its own place and       *)
(* patched for what it is, or not at all: for any programs, with any number*)
(* of modules of any sizes, any window, page and block, and any order of   *)
(* calls and failures.                                                     *)
(***************************************************************************)
EXTENDS KipSync, ProcessCreation, FiniteSetTheorems, SequenceTheorems,
        WellFoundedInduction, TLAPS

-----------------------------------------------------------------------------
(* The inductive invariant, part by part.                                  *)

\* The values of config.ini, and of the overlay's copy of them.
Conf == [first : BOOLEAN, crc : {<<>>} \cup (Versions \X Table),
         version : Versions \cup {0}, table : Table]

Counts == [asks : Nat, updates : Nat, edits : Nat, failures : Nat, losses : Nat]

Types ==
    /\ kip \in [version : Versions, table : Table]
    /\ conf \in Conf /\ list \in Conf \cup {<<>>} /\ save \in BOOLEAN
    /\ pc \in {"off", "boot", "adopt", "migrate", "write", "sign", "up"}
    /\ asked \in Table /\ saved \in Table /\ known \subseteq Table
    /\ Factory \in known /\ asked \in known /\ saved \in known
    /\ fresh \in BOOLEAN /\ risk \in Nat
    /\ count \in Counts

\* The table is what was written when the checksum is about to be stored.
Agreeing ==
    fresh /\ kip.version = KIP_VERSION =>
        /\ pc = "up" => conf.table = kip.table /\ conf.crc = Checksum(kip)
        /\ pc = "sign" => conf.table = kip.table

\* config.ini names no version, or that of the sysmodule; the overlay has no list
\* while the sysmodule starts; and what a kip of another version, or a first load
\* that did not take the kip in, says of the risks there were.
Loading ==
    /\ conf.version = IF conf.first THEN 0 ELSE KIP_VERSION
    /\ list # <<>> => list.first = conf.first /\ list.version = conf.version
    /\ pc \in {"off", "boot", "adopt", "migrate"} => list = <<>>
    /\ pc = "migrate" => ~conf.first
    /\ kip.version # KIP_VERSION => risk >= 1
    /\ conf.first /\ pc \in {"up", "write", "sign"} /\ count.failures = 0 =>
          risk >= 1 /\ (kip.version = KIP_VERSION => risk >= 2)

\* After at most one risk all tables are known, or the kip has a mix, which the
\* next start finds by its checksum and writes over.
AtMostOneRisk ==
    count.failures = 0 /\ risk <= 1 =>
        /\ KnownIn(known, conf.table)
        /\ conf.crc # <<>> => KnownIn(known, conf.crc[2])
        /\ list # <<>> => KnownIn(known, list.table) /\ (list.crc # <<>> => KnownIn(known, list.crc[2]))
        /\ \/ KnownIn(known, kip.table)
           \/ /\ kip.version = KIP_VERSION /\ risk = 1 /\ ~conf.first /\ list = <<>>
              /\ pc \in {"off", "boot", "migrate", "write"}

\* With no risk at all the kip has the table agreed on last, unless the next one
\* has been written and its checksum not yet stored.
NoRisk ==
    count.failures = 0 /\ risk = 0 =>
        /\ conf.table \in {asked, saved}
        /\ kip.table = IF pc = "sign" THEN conf.table ELSE saved

IInv == Types /\ Agreeing /\ Loading /\ AtMostOneRisk /\ NoRisk

-----------------------------------------------------------------------------
(* What the steps store.                                                   *)

\* The table nobody has changed.
LEMMA FactoryIsTable == Factory \in Table
  BY DEF Factory, Table

\* A table written in part has values of both.
LEMMA TornIsTable ==
    ASSUME NEW old \in Table, NEW new \in Table, NEW t \in Torn(old, new)
    PROVE  t \in Table
  BY DEF Torn, Table

\* A checksum stands for the version and the table.
LEMMA ChecksumIsPair ==
    ASSUME kip \in [version : Versions, table : Table]
    PROVE  /\ Checksum(kip) \in Versions \X Table
           /\ Checksum(kip)[1] = kip.version /\ Checksum(kip)[2] = kip.table
  BY DEF Checksum

\* What a first load takes over from the kip.
LEMMA AdoptedIsConf ==
    ASSUME kip \in [version : Versions, table : Table]
    PROVE  /\ Adopted \in Conf /\ ~Adopted.first /\ Adopted.version = kip.version
           /\ Adopted.table = kip.table /\ Adopted.crc = Checksum(kip)
  BY ChecksumIsPair DEF Adopted, Conf

\* Storing the checksum changes nothing else.
LEMMA SignedIsConf ==
    ASSUME kip \in [version : Versions, table : Table], conf \in Conf
    PROVE  /\ Signed \in Conf /\ Signed.first = conf.first
           /\ Signed.version = conf.version /\ Signed.table = conf.table
           /\ Signed.crc = Checksum(kip)
  BY ChecksumIsPair DEF Signed, Conf

\* Filling in the boot voltage twice is filling it in once.
LEMMA BootVoltInTable ==
    ASSUME NEW t \in Table
    PROVE  /\ WithBootVolt(t) \in Table
           /\ WithBootVolt(WithBootVolt(t)) = WithBootVolt(t)
  BY KipAssumption DEF WithBootVolt, Table

\* A migration changes the boot voltage at most.
LEMMA MigratedIsConf ==
    ASSUME conf \in Conf
    PROVE  /\ Migrated \in Conf /\ Migrated.first = conf.first
           /\ Migrated.version = conf.version /\ Migrated.crc = conf.crc
           /\ Migrated.table = IF conf.version < 240 /\ kip.version >= 240
                               THEN WithBootVolt(conf.table) ELSE conf.table
<1>1. conf.table \in Table /\ WithBootVolt(conf.table) \in Table
  BY BootVoltInTable DEF Conf
<1>2. Migrated = [conf EXCEPT !.table = IF conf.version < 240 /\ kip.version >= 240
                                        THEN WithBootVolt(conf.table) ELSE conf.table]
  BY <1>1, KipAssumption DEF Migrated, WithBootVolt, Conf, Table
<1>3. QED
  BY <1>1, <1>2 DEF Conf

\* A config.ini without any of the values.
LEMMA NoConfIsConf == NoConf \in Conf
  BY FactoryIsTable DEF NoConf, Conf

\* The list with one field changed.
LEMMA AskedIsConf ==
    ASSUME list \in Conf, NEW f \in Fields, NEW v \in Values
    PROVE  LET l == [list EXCEPT !.table[f] = v]
           IN  /\ l \in Conf /\ l.first = list.first /\ l.version = list.version
               /\ l.crc = list.crc
<1>1. list.table \in Table
  BY DEF Conf
<1>2. [list.table EXCEPT ![f] = v] \in Table
  BY <1>1 DEF Table
<1>3. [list EXCEPT !.table[f] = v] = [list EXCEPT !.table = [list.table EXCEPT ![f] = v]]
  BY DEF Conf
<1>4. QED
  BY <1>2, <1>3 DEF Conf

\* A table that is known stays known, and known when it is migrated.
LEMMA KnownMigrated ==
    ASSUME NEW tables \in SUBSET Table, NEW t \in Table, KnownIn(tables, t)
    PROVE  KnownIn(tables, WithBootVolt(t))
  BY BootVoltInTable DEF KnownIn

\* What is known stays known.
LEMMA KnownGrows ==
    ASSUME NEW tables, NEW more, tables \subseteq more, NEW t, KnownIn(tables, t)
    PROVE  KnownIn(more, t)
  BY DEF KnownIn

\* Counters stay counters.
LEMMA CountUp ==
    ASSUME count \in Counts
    PROVE  /\ [count EXCEPT !.asks = @ + 1] \in Counts
           /\ [count EXCEPT !.updates = @ + 1] \in Counts
           /\ [count EXCEPT !.edits = @ + 1] \in Counts
           /\ [count EXCEPT !.failures = @ + 1] \in Counts
           /\ [count EXCEPT !.losses = @ + 1] \in Counts
  BY DEF Counts

\* What a step does to the history.
LEMMA Recorded ==
    ASSUME Types, NEW r \in Nat, Record(r), asked' \in Table, conf' \in Conf
    PROVE  /\ saved' \in Table /\ known' \subseteq Table /\ known \subseteq known'
           /\ asked' \in known' /\ saved' \in known' /\ risk' \in Nat
           /\ \/ /\ pc' = "up" /\ Agree(kip', conf') /\ saved' = conf'.table
                 /\ \/ risk' = risk + r
                    \/ risk' = 0 /\ list' \in {<<>>, conf'}
              \/ saved' = saved /\ risk' = risk + r
<1>1. conf'.table \in Table
  BY DEF Conf
<1>2. /\ saved' = IF pc' = "up" /\ Agree(kip', conf') THEN conf'.table ELSE saved
      /\ known' = known \cup {asked', saved'}
      /\ risk' = IF (pc' = "up" /\ Agree(kip', conf')) /\ list' \in {<<>>, conf'}
                 THEN 0 ELSE risk + r
  BY DEF Record
<1>3. saved \in Table /\ known \subseteq Table /\ risk \in Nat
  BY DEF Types
<1>4. QED
  BY <1>1, <1>2, <1>3

-----------------------------------------------------------------------------
(* Types.                                                                  *)

\* Storing the values, or failing to.
LEMMA StoredValues ==
    ASSUME Types, NEW new \in Conf, SetConfigValues(new), asked' = asked
    PROVE  /\ conf' \in Conf /\ fresh' \in BOOLEAN /\ count' \in Counts
           /\ saved' \in Table /\ known' \subseteq Table /\ known \subseteq known'
           /\ saved' \in known' /\ asked' \in known' /\ risk' \in Nat
<1>1. CASE conf' = new /\ UNCHANGED <<count, fresh>> /\ Record(0)
  BY <1>1, Recorded DEF Types
<1>2. CASE count' = [count EXCEPT !.failures = @ + 1] /\ conf' = conf
             /\ fresh' = FALSE /\ UNCHANGED <<saved, known, risk>>
  BY <1>2, CountUp DEF Types
<1>3. QED
  BY <1>1, <1>2 DEF SetConfigValues

\* The initial state has the types,
LEMMA InitTypes == Init => Types
<1> SUFFICES ASSUME Init PROVE Types
  OBVIOUS
<1>1. kip \in [version : Versions, table : Table] /\ conf \in Conf
  BY FactoryIsTable, NoConfIsConf, KipAssumption DEF Init
<1>2. count \in Counts /\ risk \in Nat
  BY DEF Init, Counts
<1>3. QED
  BY <1>1, <1>2, FactoryIsTable DEF Init, Types

\* every step keeps them, and forgets no table.
LEMMA TypesStep ==
    ASSUME Types, [Next]_vars
    PROVE  Types' /\ known \subseteq known'
<1> USE DEF Types
<1>1. CASE GetKipData
  BY <1>1, Recorded DEF GetKipData
<1>2. CASE Adopt
  <2>1. CASE kip.version # KIP_VERSION
    BY <1>2, <2>1, Recorded DEF Adopt
  <2>2. CASE kip.version = KIP_VERSION
    <3>1. SetConfigValues(Adopted) /\ Adopted \in Conf
      BY <1>2, <2>2, AdoptedIsConf DEF Adopt
    <3>2. QED
      BY <1>2, <3>1, StoredValues DEF Adopt
  <2>3. QED
    BY <2>1, <2>2
<1>3. CASE MigrateKipData
  BY <1>3, MigratedIsConf, StoredValues DEF MigrateKipData
<1>4. CASE WriteTable
  <2>1. conf.table \in Table /\ kip.table \in Table
    BY DEF Conf
  <2>2. CASE pc' = "up" /\ UNCHANGED <<kip, count, fresh>> /\ Record(0)
    BY <1>4, <2>2, Recorded DEF WriteTable
  <2>3. CASE pc' = "sign" /\ kip' = [kip EXCEPT !.table = conf.table]
               /\ UNCHANGED <<count, fresh>> /\ Record(0)
    BY <1>4, <2>1, <2>3, Recorded DEF WriteTable
  <2>4. CASE /\ count' = [count EXCEPT !.failures = @ + 1] /\ pc' = "sign"
             /\ fresh' = FALSE /\ UNCHANGED <<saved, known, risk>>
             /\ \E t \in Torn(kip.table, conf.table) : kip' = [kip EXCEPT !.table = t]
    <3>1. PICK t \in Torn(kip.table, conf.table) : kip' = [kip EXCEPT !.table = t]
      BY <2>4
    <3>2. kip' \in [version : Versions, table : Table]
      BY <2>1, <3>1, TornIsTable
    <3>3. QED
      BY <1>4, <2>4, <3>2, CountUp DEF WriteTable
  <2>5. QED
    BY <1>4, <2>2, <2>3, <2>4 DEF WriteTable
<1>5. CASE Sign
  BY <1>5, SignedIsConf, StoredValues DEF Sign
<1>6. CASE OpenPage
  BY <1>6, Recorded DEF OpenPage
<1>7. CASE SaveKip
  BY <1>7, Recorded DEF SaveKip
<1>8. CASE ShutDown
  BY <1>8, Recorded DEF ShutDown
<1>9. CASE Start
  BY <1>9, Recorded DEF Start
<1>10. ASSUME NEW f \in Fields, NEW v \in Values, Ask(f, v)
       PROVE  Types' /\ known \subseteq known'
  <2>1. list \in Conf /\ list' \in Conf /\ conf' = list' /\ asked' = list'.table
    BY <1>10, AskedIsConf DEF Ask
  <2>2. asked' \in Table
    BY <2>1 DEF Conf
  <2>3. QED
    BY <1>10, <2>1, <2>2, Recorded, CountUp DEF Ask
<1>11. CASE InstallKip
  <2>1. kip' \in [version : Versions, table : Table]
    BY <1>11, FactoryIsTable DEF InstallKip
  <2>2. QED
    BY <1>11, <2>1, Recorded, CountUp DEF InstallKip
<1>12. CASE EditConf
  <2>1. conf' \in Conf /\ asked' \in Table
    BY <1>12, NoConfIsConf DEF EditConf, Conf
  <2>2. QED
    BY <1>12, <2>1, Recorded, CountUp DEF EditConf
<1>13. CASE PowerLoss
  <2>1. conf.table \in Table /\ kip.table \in Table
    BY DEF Conf
  <2>2. conf' \in Conf
    BY <1>13, NoConfIsConf, AdoptedIsConf, MigratedIsConf, SignedIsConf DEF PowerLoss
  <2>3. kip' \in [version : Versions, table : Table]
    <3>1. CASE pc = "write" /\ kip.version = KIP_VERSION
      BY <1>13, <2>1, <3>1, TornIsTable DEF PowerLoss
    <3>2. QED
      BY <1>13, <3>1 DEF PowerLoss
  <2>4. QED
    BY <1>13, <2>2, <2>3, Recorded, CountUp DEF PowerLoss
<1>14. CASE UNCHANGED vars
  BY <1>14 DEF vars
<1>15. QED
  BY <1>1, <1>2, <1>3, <1>4, <1>5, <1>6, <1>7, <1>8, <1>9, <1>10, <1>11, <1>12, <1>13,
     <1>14 DEF Next

-----------------------------------------------------------------------------
(* The kip and config.ini agree after a start.                             *)

\* Kip and config.ini agree after every step,
LEMMA AgreeingStep ==
    ASSUME Types, Agreeing, [Next]_vars
    PROVE  Agreeing'
<1> USE DEF Agreeing, Checksum
<1>1. CASE Adopt
  <2>1. CASE kip.version = KIP_VERSION
    <3>1. CASE conf' = Adopted
      <4>1. conf'.table = kip.table /\ conf'.crc = Checksum(kip)
        BY <3>1, AdoptedIsConf DEF Types
      <4>2. QED
        BY <1>1, <4>1 DEF Adopt
    <3>2. CASE fresh' = FALSE
      BY <3>2
    <3>3. QED
      BY <1>1, <2>1, <3>1, <3>2 DEF Adopt, SetConfigValues
  <2>2. QED
    BY <1>1, <2>1 DEF Adopt
<1>2. CASE WriteTable
  <2>1. CASE kip' = [kip EXCEPT !.table = conf.table] /\ pc' = "sign"
    <3>1. kip'.table = conf.table
      BY <2>1 DEF Types
    <3>2. QED
      BY <1>2, <2>1, <3>1 DEF WriteTable
  <2>2. QED
    BY <1>2, <2>1 DEF WriteTable
<1>3. CASE Sign
  <2>1. CASE conf' = Signed /\ UNCHANGED fresh
    <3>1. conf'.table = conf.table /\ conf'.crc = Checksum(kip)
      BY <2>1, SignedIsConf DEF Types
    <3>2. QED
      BY <1>3, <2>1, <3>1 DEF Sign
  <2>2. CASE fresh' = FALSE
    BY <2>2
  <2>3. QED
    BY <1>3, <2>1, <2>2 DEF Sign, SetConfigValues
<1>4. CASE OpenPage \/ SaveKip \/ ShutDown \/ Start \/ GetKipData \/ MigrateKipData
  BY <1>4 DEF OpenPage, SaveKip, ShutDown, Start, GetKipData, MigrateKipData
<1>5. CASE InstallKip \/ EditConf \/ \E f \in Fields, v \in Values : Ask(f, v)
  BY <1>5 DEF InstallKip, EditConf, Ask
<1>6. CASE PowerLoss
  BY <1>6 DEF PowerLoss
<1>7. CASE UNCHANGED vars
  BY <1>7 DEF vars
<1>8. QED
  BY <1>1, <1>2, <1>3, <1>4, <1>5, <1>6, <1>7 DEF Next

\* After a start in which every write succeeded the two copies agree.
THEOREM SyncInvHolds == Spec => []SyncInv
<1>1. Init => Types /\ Agreeing
  BY InitTypes, Zenon DEF Init, Agreeing
<1>2. Types /\ Agreeing /\ [Next]_vars => Types' /\ Agreeing'
  BY TypesStep, AgreeingStep
<1>3. Types /\ Agreeing => SyncInv
  BY DEF Types, Agreeing, Conf, SyncInv, TypeOK, AgreeAfterStart
<1>4. QED
  BY <1>1, <1>2, <1>3, PTL DEF Spec

-----------------------------------------------------------------------------
(* What the user set survives.                                             *)

\* The risk after a step: what it was and what the step adds, or none.
LEMMA RiskAfter ==
    ASSUME Types, Types', NEW r \in Nat, Record(r)
    PROVE  \/ risk' = risk + r
           \/ risk' = 0 /\ pc' = "up" /\ Agree(kip', conf') /\ list' \in {<<>>, conf'}
              /\ saved' = conf'.table
  BY Recorded DEF Types

\* config.ini names the sysmodule's version or none,
LEMMA LoadingStep ==
    ASSUME Types, Types', Loading, [Next]_vars
    PROVE  Loading'
<1> USE DEF Loading
<1>a. risk \in Nat /\ count.failures \in Nat /\ kip.version \in Nat /\ KIP_VERSION \in Nat
  BY KipAssumption DEF Types, Counts
<1>b. ASSUME NEW new \in Conf, SetConfigValues(new)
      PROVE  \/ conf' = new /\ count' = count /\ Record(0)
             \/ conf' = conf /\ count'.failures # 0 /\ risk' = risk
  BY <1>b, <1>a DEF SetConfigValues, Types, Counts
<1>c. Agree(kip', conf') => kip'.version = KIP_VERSION /\ ~conf'.first
  BY DEF Agree
<1>1. CASE GetKipData
  <2>1. risk' = risk \/ (risk' = 0 /\ kip.version = KIP_VERSION /\ ~conf.first)
    BY <1>1, <1>a, <1>c, RiskAfter DEF GetKipData
  <2>2. QED
    BY <1>1, <2>1 DEF GetKipData
<1>2. CASE Adopt
  <2>1. CASE kip.version # KIP_VERSION
    <3>1. conf' = conf /\ count' = count /\ Record(0) /\ kip' = kip
      BY <1>2, <2>1 DEF Adopt
    <3>2. risk' = risk
      BY <2>1, <3>1, <1>a, <1>c, RiskAfter
    <3>3. QED
      BY <1>2, <2>1, <3>1, <3>2 DEF Adopt
  <2>2. CASE kip.version = KIP_VERSION
    <3>1. Adopted \in Conf /\ ~Adopted.first /\ Adopted.version = KIP_VERSION
      BY <2>2, AdoptedIsConf DEF Types
    <3>2. list = <<>> /\ list' = <<>> /\ kip' = kip /\ pc' = "up"
      BY <1>2 DEF Adopt
    <3>3. SetConfigValues(Adopted)
      BY <1>2, <2>2 DEF Adopt
    <3>4. QED
      BY <1>b, <2>2, <3>1, <3>2, <3>3
  <2>3. QED
    BY <2>1, <2>2
<1>3. CASE MigrateKipData
  <2>1. Migrated \in Conf /\ Migrated.first = conf.first /\ Migrated.version = conf.version
    BY MigratedIsConf DEF Types
  <2>2. conf'.first = conf.first /\ conf'.version = conf.version /\ ~conf.first
    BY <1>3, <1>b, <2>1 DEF MigrateKipData
  <2>3. risk' = risk
    BY <1>3, <1>a, <1>b, <2>1, RiskAfter DEF MigrateKipData
  <2>4. QED
    BY <1>3, <2>2, <2>3 DEF MigrateKipData
<1>4. CASE WriteTable
  <2>1. kip'.version = kip.version /\ conf' = conf /\ list' = list /\ pc' \in {"up", "sign"}
    BY <1>4 DEF WriteTable, Types
  <2>2. CASE Record(0) /\ count' = count
    <3>1. risk' = risk \/ (risk' = 0 /\ kip.version = KIP_VERSION /\ ~conf.first)
      BY <2>1, <2>2, <1>a, <1>c, RiskAfter
    <3>2. QED
      BY <1>4, <2>1, <2>2, <3>1 DEF WriteTable
  <2>3. CASE count' = [count EXCEPT !.failures = @ + 1] /\ risk' = risk
    <3>1. count'.failures # 0
      BY <2>3, <1>a DEF Types, Counts
    <3>2. QED
      BY <1>4, <2>1, <2>3, <3>1 DEF WriteTable
  <2>4. QED
    BY <1>4, <2>2, <2>3 DEF WriteTable
<1>5. CASE Sign
  <2>1. Signed \in Conf /\ Signed.first = conf.first /\ Signed.version = conf.version
    BY SignedIsConf DEF Types
  <2>2. SetConfigValues(Signed) /\ kip' = kip /\ list' = list /\ pc' = "up" /\ pc = "sign"
    BY <1>5 DEF Sign
  <2>3. conf'.first = conf.first /\ conf'.version = conf.version
    BY <1>b, <2>1, <2>2
  <2>4. \/ count' = count /\ (risk' = risk \/ (risk' = 0 /\ kip.version = KIP_VERSION /\ ~conf.first))
        \/ count'.failures # 0 /\ risk' = risk
    BY <1>a, <1>b, <1>c, <2>1, <2>2, <2>3, RiskAfter
  <2>5. QED
    BY <2>2, <2>3, <2>4
<1>6. CASE OpenPage \/ SaveKip \/ ShutDown \/ Start
  <2>1. kip' = kip /\ conf' = conf /\ count' = count /\ Record(0)
    BY <1>6 DEF OpenPage, SaveKip, ShutDown, Start
  <2>2. risk' = risk \/ (risk' = 0 /\ kip.version = KIP_VERSION /\ ~conf.first)
    BY <2>1, <1>a, <1>c, RiskAfter
  <2>3. QED
    BY <1>6, <2>1, <2>2 DEF OpenPage, SaveKip, ShutDown, Start
<1>7. ASSUME NEW f \in Fields, NEW v \in Values, Ask(f, v)
      PROVE  Loading'
  <2>1. list \in Conf /\ list # <<>>
    BY <1>7 DEF Ask, Types
  <2>2. /\ kip' = kip /\ pc' = pc /\ pc = "up" /\ conf' = list' /\ Record(0)
        /\ list' = [list EXCEPT !.table[f] = v]
        /\ count' = [count EXCEPT !.asks = @ + 1]
    BY <1>7 DEF Ask
  <2>3. conf'.first = conf.first /\ conf'.version = conf.version
    BY <2>1, <2>2, AskedIsConf
  <2>4. count'.failures = count.failures
    BY <2>2 DEF Types, Counts
  <2>5. risk' = risk \/ (risk' = 0 /\ kip.version = KIP_VERSION /\ ~conf.first)
    BY <1>a, <1>c, <2>2, <2>3, RiskAfter
  <2>6. QED
    BY <2>2, <2>3, <2>4, <2>5
<1>8. CASE InstallKip
  <2>1. /\ conf' = conf /\ list' = list /\ pc' = pc /\ Record(1) /\ pc \in {"off", "up"}
        /\ count' = [count EXCEPT !.updates = @ + 1]
    BY <1>8 DEF InstallKip
  <2>2. count'.failures = count.failures
    BY <2>1 DEF Types, Counts
  <2>3. risk' = risk + 1 \/ (risk' = 0 /\ kip'.version = KIP_VERSION /\ ~conf'.first)
    BY <1>a, <1>c, <2>1, RiskAfter
  <2>4. QED
    BY <1>a, <2>1, <2>2, <2>3
<1>9. CASE EditConf
  <2>1. /\ kip' = kip /\ list' = list /\ pc' = pc /\ Record(1)
        /\ count' = [count EXCEPT !.edits = @ + 1]
    BY <1>9 DEF EditConf
  <2>2. count'.failures = count.failures
    BY <2>1 DEF Types, Counts
  <2>3. risk' = risk + 1 \/ (risk' = 0 /\ kip'.version = KIP_VERSION /\ ~conf'.first)
    BY <1>a, <1>c, <2>1, RiskAfter
  <2>4. CASE pc = "off" /\ conf' = NoConf
    BY <1>a, <2>1, <2>2, <2>3, <2>4 DEF NoConf
  <2>5. CASE pc \notin {"boot", "adopt", "migrate"} /\
             \E t \in Table : conf' = [conf EXCEPT !.table = t]
    <3>1. conf'.first = conf.first /\ conf'.version = conf.version
      BY <2>5 DEF Types, Conf
    <3>2. QED
      BY <1>a, <2>1, <2>2, <2>3, <3>1
  <2>6. QED
    BY <1>9, <2>4, <2>5 DEF EditConf
<1>10. CASE PowerLoss
  <2>1. pc' = "off" /\ list' = <<>> /\ Record(1) /\ kip'.version = kip.version
    BY <1>10 DEF PowerLoss, Types
  <2>2. conf'.version = IF conf'.first THEN 0 ELSE KIP_VERSION
    <3>1. NoConf.first /\ NoConf.version = 0
      BY DEF NoConf
    <3>2. kip \in [version : Versions, table : Table] /\ conf \in Conf
      BY DEF Types
    <3>3. QED
      BY <1>10, <3>1, <3>2, AdoptedIsConf, MigratedIsConf, SignedIsConf DEF PowerLoss
  <2>3. risk' = risk + 1
    BY <2>1, RiskAfter
  <2>4. QED
    BY <1>a, <2>1, <2>2, <2>3
<1>11. CASE UNCHANGED vars
  BY <1>11 DEF vars
<1>12. QED
  BY <1>1, <1>2, <1>3, <1>4, <1>5, <1>6, <1>7, <1>8, <1>9, <1>10, <1>11 DEF Next

\* A step that ends with at most one risk began with at most one, or it is the
\* one with which all copies agree.
LEMMA RiskBefore ==
    ASSUME Types, Types', [Next]_vars, count'.failures = 0, risk' <= 1
    PROVE  /\ count.failures = 0
           /\ \/ risk <= 1 /\ risk <= risk'
                 /\ (InstallKip \/ EditConf \/ PowerLoss => risk = 0)
              \/ /\ pc' = "up" /\ Agree(kip', conf') /\ list' \in {<<>>, conf'}
                 /\ saved' = conf'.table
<1>1. risk \in Nat /\ count.failures \in Nat
  BY DEF Types, Counts
<1>2. CASE count' = [count EXCEPT !.failures = @ + 1]
  BY <1>1, <1>2 DEF Types, Counts
<1>3. CASE \/ count' = count
           \/ count' = [count EXCEPT !.asks = @ + 1]
           \/ count' = [count EXCEPT !.updates = @ + 1]
           \/ count' = [count EXCEPT !.edits = @ + 1]
           \/ count' = [count EXCEPT !.losses = @ + 1]
  <2>1. count.failures = 0
    BY <1>3 DEF Types, Counts
  <2>2. CASE InstallKip \/ EditConf \/ PowerLoss
    <3>1. Record(1)
      BY <2>2 DEF InstallKip, EditConf, PowerLoss
    <3>2. QED
      BY <1>1, <2>1, <3>1, RiskAfter
  <2>3. CASE Record(0) /\ ~(InstallKip \/ EditConf \/ PowerLoss)
    BY <1>1, <2>1, <2>3, RiskAfter
  <2>4. CASE UNCHANGED risk /\ ~(InstallKip \/ EditConf \/ PowerLoss)
    BY <1>1, <2>1, <2>4
  <2>5. Record(0) \/ InstallKip \/ EditConf \/ PowerLoss \/ UNCHANGED risk
    BY DEF Next, vars, GetKipData, Adopt, MigrateKipData, WriteTable, Sign,
       SetConfigValues, OpenPage, SaveKip, ShutDown, Start, Ask
  <2>6. QED
    BY <2>2, <2>3, <2>4, <2>5
<1>4. QED
  BY <1>2, <1>3 DEF Next, vars, GetKipData, Adopt, MigrateKipData, WriteTable, Sign,
     SetConfigValues, OpenPage, SaveKip, ShutDown, Start, Ask, InstallKip, EditConf,
     PowerLoss

\* The kip may have a mix, and what the next start needs to find it.
Mix == /\ kip.version = KIP_VERSION /\ risk = 1 /\ ~conf.first /\ list = <<>>
       /\ pc \in {"off", "boot", "migrate", "write"}

\* The values all have known tables.
ValuesKnown(tables, c) ==
    KnownIn(tables, c.table) /\ (c.crc # <<>> => KnownIn(tables, c.crc[2]))

\* one risk leaves one of the two whole,
LEMMA AtMostOneRiskStep ==
    ASSUME Types, Types', known \subseteq known', Loading, AtMostOneRisk, [Next]_vars
    PROVE  AtMostOneRisk'
<1> DEFINE K(t) == KnownIn(known', t)
           V(c) == ValuesKnown(known', c)
<1>1. SUFFICES ASSUME count'.failures = 0, risk' <= 1
               PROVE  /\ V(conf') /\ (list' # <<>> => V(list'))
                      /\ K(kip'.table) \/ Mix'
  BY DEF AtMostOneRisk, ValuesKnown, Mix
<1>2. CASE pc' = "up" /\ Agree(kip', conf') /\ list' \in {<<>>, conf'} /\ saved' = conf'.table
  <2>1. /\ conf'.table \in known' /\ kip'.table = conf'.table
        /\ conf'.crc = <<kip'.version, kip'.table>>
    BY <1>2 DEF Agree, Checksum, Types
  <2>2. V(conf') /\ K(kip'.table)
    BY <2>1 DEF KnownIn, ValuesKnown
  <2>3. QED
    BY <1>2, <2>2
<1>3. CASE /\ count.failures = 0 /\ risk <= 1 /\ risk <= risk'
           /\ (InstallKip \/ EditConf \/ PowerLoss => risk = 0)
  <2> USE <1>1, <1>3
  <2>a. risk \in Nat /\ risk' \in Nat
    BY DEF Types
  <2>b. /\ conf \in Conf /\ conf.table \in Table
        /\ kip \in [version : Versions, table : Table] /\ kip.table \in Table
    BY DEF Types, Conf
  <2>c. V(conf) /\ (list # <<>> => V(list)) /\ (K(kip.table) \/ Mix)
    BY KnownGrows DEF AtMostOneRisk, ValuesKnown, Mix
  <2>d. K(Factory)
    BY DEF Types, KnownIn
  <2>e. K(WithBootVolt(conf.table)) /\ K(conf.table)
    BY <2>b, <2>c, KnownMigrated DEF Types, ValuesKnown
  <2>f. V(NoConf) /\ V(Migrated)
    BY <2>b, <2>c, <2>d, <2>e, MigratedIsConf DEF NoConf, ValuesKnown
  <2>g. K(kip.table) => V(Adopted) /\ V(Signed)
    BY <2>b, <2>c, ChecksumIsPair, AdoptedIsConf, SignedIsConf DEF ValuesKnown
  <2>1. CASE GetKipData
    <3>1. /\ kip' = kip /\ conf' = conf /\ list' = list /\ pc = "boot"
          /\ pc' = IF Checksum(kip) # conf.crc /\ ~conf.first THEN "migrate" ELSE "adopt"
      BY <2>1 DEF GetKipData
    <3>2. ~K(kip.table) => Checksum(kip) # conf.crc
      <4>1. SUFFICES ASSUME conf.crc = Checksum(kip) PROVE K(kip.table)
        OBVIOUS
      <4>2. conf.crc # <<>> /\ conf.crc[2] = kip.table
        BY <2>b, <4>1 DEF Checksum
      <4>3. QED
        BY <2>c, <4>2 DEF ValuesKnown
    <3>3. risk' = 1 \/ risk = 0
      BY <2>a
    <3>4. QED
      BY <2>c, <3>1, <3>2, <3>3 DEF Mix
  <2>2. CASE Adopt
    <3>1. K(kip.table) /\ kip' = kip /\ list' = list /\ conf' \in {conf, Adopted}
      BY <2>2, <2>c DEF Adopt, SetConfigValues, Mix
    <3>2. QED
      BY <2>c, <2>g, <3>1
  <2>3. CASE MigrateKipData
    <3>1. kip' = kip /\ list' = list /\ conf' \in {conf, Migrated} /\ pc' = "write"
      BY <2>3 DEF MigrateKipData, SetConfigValues
    <3>2. conf'.first = conf.first
      BY <2>b, <3>1, MigratedIsConf
    <3>3. risk' = 1 \/ risk = 0
      BY <2>a
    <3>4. QED
      BY <2>c, <2>f, <3>1, <3>2, <3>3 DEF Mix
  <2>4. CASE WriteTable
    <3>1. CASE kip' = kip /\ kip.version # KIP_VERSION
      BY <2>4, <2>c, <3>1 DEF WriteTable, Mix
    <3>2. CASE kip' = [kip EXCEPT !.table = conf.table]
      <4>1. kip'.table = conf.table
        BY <2>b, <3>2
      <4>2. QED
        BY <2>4, <2>c, <2>e, <4>1 DEF WriteTable
    <3>3. CASE count' = [count EXCEPT !.failures = @ + 1]
      BY <3>3 DEF Types, Counts
    <3>4. QED
      BY <2>4, <3>1, <3>2, <3>3 DEF WriteTable
  <2>5. CASE Sign
    <3>1. K(kip.table) /\ kip' = kip /\ list' = list /\ conf' \in {conf, Signed}
      BY <2>5, <2>c DEF Sign, SetConfigValues, Mix
    <3>2. QED
      BY <2>c, <2>g, <3>1
  <2>6. CASE OpenPage
    BY <2>6, <2>c DEF OpenPage, Mix
  <2>7. CASE SaveKip
    BY <2>7, <2>c DEF SaveKip, Mix
  <2>8. CASE ShutDown
    BY <2>8, <2>c DEF ShutDown, Mix
  <2>9. CASE Start
    <3>1. risk' = 1 \/ risk = 0
      BY <2>a
    <3>2. QED
      BY <2>9, <2>c, <3>1 DEF Start, Mix
  <2>10. ASSUME NEW f \in Fields, NEW v \in Values, Ask(f, v)
         PROVE  V(conf') /\ (list' # <<>> => V(list')) /\ (K(kip'.table) \/ Mix')
    <3>1. /\ list \in Conf /\ list' = [list EXCEPT !.table[f] = v] /\ conf' = list'
          /\ asked' = list'.table /\ kip' = kip /\ pc = "up" /\ list # <<>>
      BY <2>10 DEF Ask, Types
    <3>2. list'.crc = list.crc /\ list'.table \in known'
      BY <3>1, AskedIsConf DEF Types
    <3>3. V(list')
      BY <2>c, <3>1, <3>2 DEF ValuesKnown, KnownIn
    <3>4. QED
      BY <2>c, <3>1, <3>3 DEF Mix
  <2>11. CASE InstallKip
    <3>1. conf' = conf /\ list' = list /\ kip'.table = Factory
      BY <2>11 DEF InstallKip
    <3>2. QED
      BY <2>c, <2>d, <3>1
  <2>12. CASE EditConf
    <3>1. K(kip.table) /\ kip' = kip /\ list' = list
      BY <2>12, <2>c DEF EditConf, Mix
    <3>2. V(conf')
      <4>1. CASE conf' = NoConf
        BY <2>f, <4>1
      <4>2. CASE \E t \in Table : conf' = [conf EXCEPT !.table = t] /\ asked' = t
        <5>1. conf'.crc = conf.crc /\ conf'.table = asked' /\ asked' \in known'
          BY <2>b, <4>2 DEF Conf, Types
        <5>2. QED
          BY <2>c, <5>1 DEF ValuesKnown, KnownIn
      <4>3. QED
        BY <2>12, <4>1, <4>2 DEF EditConf
    <3>3. QED
      BY <2>c, <3>1, <3>2
  <2>13. CASE PowerLoss
    <3>1. K(kip.table) /\ list' = <<>> /\ pc' = "off"
      BY <2>13, <2>c DEF PowerLoss, Mix
    <3>2. V(conf')
      BY <2>13, <2>c, <2>f, <2>g, <3>1 DEF PowerLoss
    <3>3. CASE pc = "write" /\ kip.version = KIP_VERSION
      <4>1. kip'.version = kip.version
        BY <2>13, <2>b DEF PowerLoss
      <4>2. conf' = conf /\ ~conf.first
        BY <2>13, <3>3 DEF PowerLoss, Loading
      <4>3. Record(1) /\ Types /\ Types'
        BY <2>13 DEF PowerLoss
      <4>4. risk' = 1
        BY <2>13, <3>1, <4>3, RiskAfter
      <4>5. QED
        BY <3>1, <3>2, <3>3, <4>1, <4>2, <4>4 DEF Mix
    <3>4. CASE ~(pc = "write" /\ kip.version = KIP_VERSION)
      BY <2>13, <3>1, <3>2, <3>4 DEF PowerLoss
    <3>5. QED
      BY <3>3, <3>4
  <2>14. CASE UNCHANGED vars
    BY <2>14, <2>c DEF vars, Mix
  <2>15. QED
    BY <2>1, <2>2, <2>3, <2>4, <2>5, <2>6, <2>7, <2>8, <2>9, <2>10, <2>11, <2>12, <2>13,
       <2>14 DEF Next
<1>4. QED
  BY <1>1, <1>2, <1>3, RiskBefore

\* and none leaves both.
LEMMA NoRiskStep ==
    ASSUME Types, Types', Loading, NoRisk, [Next]_vars
    PROVE  NoRisk'
<1>1. SUFFICES ASSUME count'.failures = 0, risk' = 0
               PROVE  /\ conf'.table \in {asked', saved'}
                      /\ kip'.table = IF pc' = "sign" THEN conf'.table ELSE saved'
  BY DEF NoRisk
<1>a. risk \in Nat /\ count.failures \in Nat
  BY DEF Types, Counts
\* A step after which the two agree is right, whatever it was.
<1>2. CASE pc' = "up" /\ Agree(kip', conf') /\ saved' = conf'.table
  BY <1>2 DEF Agree
<1>3. CASE saved' = saved /\ ~(pc' = "up" /\ Agree(kip', conf') /\ saved' = conf'.table)
  <2> USE <1>1, <1>3
  <2>a. /\ count.failures = 0 /\ risk = 0
        /\ ~InstallKip /\ ~EditConf /\ ~PowerLoss
    <3>1. count.failures = 0 /\ risk = 0
      BY RiskBefore, <1>a
    <3>2. CASE InstallKip \/ EditConf \/ PowerLoss
      <4>1. Record(1)
        BY <3>2 DEF InstallKip, EditConf, PowerLoss
      <4>2. QED
        BY <1>a, <3>1, <4>1, RiskAfter
    <3>3. QED
      BY <3>1, <3>2
  <2>b. /\ conf.table \in {asked, saved}
        /\ kip.table = IF pc = "sign" THEN conf.table ELSE saved
        /\ kip.version = KIP_VERSION
        /\ pc \in {"up", "write", "sign"} => ~conf.first
    BY <2>a DEF NoRisk, Loading
  <2>c. /\ conf \in Conf /\ kip \in [version : Versions, table : Table]
        /\ KIP_VERSION \in Nat
    BY KipAssumption DEF Types
  <2>d. count' # [count EXCEPT !.failures = @ + 1]
    BY <1>a DEF Types, Counts
  <2>1. CASE GetKipData \/ OpenPage \/ SaveKip \/ ShutDown \/ Start
    BY <2>1, <2>b DEF GetKipData, OpenPage, SaveKip, ShutDown, Start
  <2>2. CASE Adopt
    <3>1. conf' = Adopted /\ kip' = kip /\ pc' = "up" /\ asked' = asked
      BY <2>2, <2>b, <2>d DEF Adopt, SetConfigValues
    <3>2. Agree(kip', conf') /\ conf'.table = kip.table
      BY <2>b, <2>c, <3>1, AdoptedIsConf DEF Agree
    <3>3. QED
      BY <2>2, <2>b, <3>1, <3>2 DEF Adopt
  <2>3. CASE MigrateKipData
    <3>1. conf' = Migrated /\ kip' = kip /\ pc' = "write" /\ pc = "migrate" /\ asked' = asked
      BY <2>3, <2>d DEF MigrateKipData, SetConfigValues
    <3>2. conf.version = kip.version
      BY <2>b, <3>1 DEF Loading
    <3>3. conf'.table = conf.table
      BY <2>b, <2>c, <3>1, <3>2, MigratedIsConf
    <3>4. QED
      BY <2>b, <3>1, <3>3
  <2>4. CASE WriteTable
    <3>1. /\ kip' = [kip EXCEPT !.table = conf.table] /\ pc' = "sign"
          /\ UNCHANGED <<conf, asked>>
      BY <2>4, <2>b, <2>d DEF WriteTable
    <3>2. kip'.table = conf.table
      BY <2>c, <3>1
    <3>3. QED
      BY <2>b, <3>1, <3>2
  <2>5. CASE Sign
    <3>1. conf' = Signed /\ kip' = kip /\ pc' = "up" /\ Record(0) /\ asked' = asked /\ pc = "sign"
      BY <2>5, <2>d DEF Sign, SetConfigValues
    <3>2. Agree(kip', conf')
      BY <2>b, <2>c, <3>1, SignedIsConf DEF Agree, Loading
    <3>3. saved' = conf'.table
      BY <3>1, <3>2 DEF Record
    <3>4. QED
      BY <3>1, <3>2, <3>3
  <2>6. ASSUME NEW f \in Fields, NEW v \in Values, Ask(f, v)
        PROVE  /\ conf'.table \in {asked', saved'}
               /\ kip'.table = IF pc' = "sign" THEN conf'.table ELSE saved'
    BY <2>6, <2>b DEF Ask
  <2>7. CASE UNCHANGED vars
    BY <2>7, <2>b DEF vars
  <2>8. QED
    BY <2>a, <2>1, <2>2, <2>3, <2>4, <2>5, <2>6, <2>7 DEF Next
<1>4. saved' = saved \/ (pc' = "up" /\ Agree(kip', conf') /\ saved' = conf'.table)
  <2>1. CASE \E r \in {0, 1} : Record(r)
    BY <2>1 DEF Record
  <2>2. CASE saved' = saved
    BY <2>2
  <2>3. QED
    BY <2>1, <2>2 DEF Next, vars, GetKipData, Adopt, MigrateKipData, WriteTable, Sign,
       SetConfigValues, OpenPage, SaveKip, ShutDown, Start, Ask, InstallKip, EditConf,
       PowerLoss
<1>5. QED
  BY <1>2, <1>3, <1>4

\* All parts together hold throughout.
LEMMA IInvHolds == Spec => []IInv
<1>1. Init => IInv
  <2> SUFFICES ASSUME Init PROVE IInv
    OBVIOUS
  <2>1. Types /\ Agreeing
    BY InitTypes, Zenon DEF Init, Agreeing
  <2>2. Loading
    BY DEF Init, Loading, NoConf
  <2>3. AtMostOneRisk /\ NoRisk
    BY DEF Init, AtMostOneRisk, NoRisk, NoConf, KnownIn
  <2>4. QED
    BY <2>1, <2>2, <2>3 DEF IInv
<1>2. IInv /\ [Next]_vars => IInv'
  BY TypesStep, AgreeingStep, LoadingStep, AtMostOneRiskStep, NoRiskStep DEF IInv
<1>3. QED
  BY <1>1, <1>2, PTL DEF Spec

\* The steps that settle: Adopt, WriteTable of another version, and Sign.
LEMMA Survives ==
    ASSUME IInv, IInv', [Next]_vars
    PROVE  SettingsSurvive
<1> USE DEF IInv
<1>1. SUFFICES ASSUME pc # "up", pc' = "up", count.failures = 0
               PROVE  /\ risk <= 1 => KnownIn(known, conf'.table)
                      /\ risk = 0 => conf'.table \in {asked, saved}
  BY DEF SettingsSurvive, Settles
<1>2. Adopt \/ WriteTable \/ Sign
  BY <1>1 DEF Next, vars, GetKipData, MigrateKipData, OpenPage, SaveKip, ShutDown, Start, Ask,
     InstallKip, EditConf, PowerLoss
<1>3. conf'.table = conf.table \/ (pc = "adopt" /\ conf'.table = kip.table)
  <2>1. Signed.table = conf.table /\ Adopted.table = kip.table
    BY SignedIsConf, AdoptedIsConf DEF Types
  <2>2. QED
    BY <1>1, <1>2, <2>1 DEF Adopt, WriteTable, Sign, SetConfigValues
<1>4. QED
  BY <1>1, <1>3 DEF AtMostOneRisk, NoRisk

\* SetKipData looks at the version before it writes.
LEMMA ForeignUntouched ==
    ASSUME [Next]_vars
    PROVE  ForeignKipUntouched
<1>1. SUFFICES ASSUME kip.version # KIP_VERSION PROVE kip' = kip \/ kip'.table = Factory
  BY DEF ForeignKipUntouched
<1>2. CASE InstallKip
  BY <1>2 DEF InstallKip
<1>3. QED
  BY <1>1, <1>2 DEF Next, vars, GetKipData, Adopt, MigrateKipData, WriteTable, Sign, OpenPage,
     SaveKip, ShutDown, Start, Ask, EditConf, PowerLoss

\* No step of any run costs the user settings that were agreed on, mixes two tables
\* after a single loss of power, or writes the kip of another version.
THEOREM StepsRightHold == Spec => StepsRight
<1>1. IInv /\ IInv' /\ [Next]_vars => [SettingsSurvive /\ ForeignKipUntouched]_vars
  BY Survives, ForeignUntouched
<1>2. QED
  BY <1>1, IInvHolds, PTL DEF Spec, StepsRight

-----------------------------------------------------------------------------
(***************************************************************************)
(* The creation of a process.  The layout first: what LoadAutoLoadHeaders  *)
(* finds, and where DecideAddressSpaceLayout puts it.  Both are recursive  *)
(* functions over the modules, so that what they return for every program  *)
(* rests on a least counterexample, not on induction.                      *)
(***************************************************************************)

\* A non-empty set of naturals has a least element.
LEMMA LeastExists ==
    ASSUME NEW S, S \subseteq Nat, S # {}
    PROVE  \E x \in S : \A y \in S : x <= y
<1>1. PICK x \in S : \A y \in S : <<y, x>> \notin OpToRel(<, Nat)
  BY WFMin, NatLessThanWellFounded, Zenon
<1>2. \A y \in S : ~(y < x)
  BY <1>1, Zenon DEF OpToRel
<1> QED BY <1>2

-----------------------------------------------------------------------------
(* The modules found. *)

\* The lists LoadAutoLoadHeaders goes through.
ListsTo(g, m, n) ==
    /\ g \in [0..n -> Seq(DOMAIN m.files)]
    /\ g[0] = <<>>
    /\ \A k \in 1..n : g[k] = IF IsThere(m, NsoPaths[k]) THEN Append(g[k - 1], NsoPaths[k])
                                                          ELSE g[k - 1]

\* A list of files stays one with a file that is there.
LEMMA OneMore ==
    ASSUME NEW m, NEW f, NEW s \in Seq(DOMAIN m.files)
    PROVE  (IF IsThere(m, f) THEN Append(s, f) ELSE s) \in Seq(DOMAIN m.files)
<1> DEFINE F == DOMAIN m.files
<1>1. CASE IsThere(m, f)
  <2>1. f \in F
    BY <1>1 DEF IsThere
  <2>2. Append(s, f) \in Seq(F)
    <3> HIDE DEF F
    <3>1. s \in Seq(F)
      BY DEF F
    <3> QED BY <2>1, <3>1
  <2> QED BY <1>1, <2>2
<1> QED BY <1>1

\* There are such lists up to every file: the first without any would have a
\* predecessor with some.
LEMMA ListsExist ==
    ASSUME NEW m, NEW N \in Nat
    PROVE  \E g : ListsTo(g, m, N)
<1> DEFINE Without == {n \in 0..N : ~ \E g : ListsTo(g, m, n)}
<1>0. N \in 0..N
  OBVIOUS
<1> SUFFICES Without = {}
  BY <1>0
<1> SUFFICES ASSUME Without # {} PROVE FALSE
  OBVIOUS
<1>1. Without \subseteq Nat
  OBVIOUS
<1>2. PICK n \in Without : \A k \in Without : n <= k
  <2> HIDE DEF Without
  <2> QED BY <1>1, LeastExists
<1>3. n # 0
  <2>1. ListsTo([k \in 0..0 |-> <<>>], m, 0)
    BY DEF ListsTo
  <2> QED BY <2>1
<1>4. n \in 1..N /\ n - 1 \in 0..N /\ n - 1 \notin Without
  BY <1>2, <1>3
<1>5. PICK g : ListsTo(g, m, n - 1)
  BY <1>4
<1> DEFINE last == IF IsThere(m, NsoPaths[n]) THEN Append(g[n - 1], NsoPaths[n]) ELSE g[n - 1]
           h == [k \in 0..n |-> IF k = n THEN last ELSE g[k]]
<1>6. /\ g \in [0..(n - 1) -> Seq(DOMAIN m.files)] /\ g[0] = <<>>
      /\ \A k \in 1..(n - 1) : g[k] = IF IsThere(m, NsoPaths[k])
                                      THEN Append(g[k - 1], NsoPaths[k]) ELSE g[k - 1]
  BY <1>5 DEF ListsTo
<1>7. last \in Seq(DOMAIN m.files)
  <2>1. n - 1 \in 0..(n - 1)
    BY <1>4
  <2>2. g[n - 1] \in Seq(DOMAIN m.files)
    BY <1>6, <2>1
  <2> QED BY Zenon, <2>2, OneMore
<1> HIDE DEF last
<1>8. h \in [0..n -> Seq(DOMAIN m.files)]
  BY <1>4, <1>6, <1>7
<1>9. h[0] = <<>>
  BY <1>4, <1>6
<1>10. ASSUME NEW k \in 1..n
       PROVE  h[k] = IF IsThere(m, NsoPaths[k]) THEN Append(h[k - 1], NsoPaths[k]) ELSE h[k - 1]
  <2>1. h[k - 1] = g[k - 1]
    BY <1>4
  <2>2. CASE k = n
    <3>1. h[k] = last
      BY <1>4, <2>2
    <3> QED BY <2>1, <2>2, <3>1 DEF last
  <2>3. CASE k # n
    <3>1. k \in 1..(n - 1) /\ h[k] = g[k]
      BY <1>4, <2>3
    <3> HIDE DEF h
    <3> QED BY <1>6, <2>1, <3>1
  <2> QED BY <2>2, <2>3
<1>11. ListsTo(h, m, n)
  <2> HIDE DEF h
  <2> QED BY <1>8, <1>9, <1>10 DEF ListsTo
<1> QED BY <1>2, <1>11

\* Only files of the program are found.
LEMMA HeadersAreFiles ==
    ASSUME NEW m
    PROVE  LoadAutoLoadHeaders(m) \in Seq(DOMAIN m.files)
<1> DEFINE N == Len(NsoPaths)
           Step(g, k) == IF k = 0 THEN <<>>
                         ELSE IF IsThere(m, NsoPaths[k]) THEN Append(g[k - 1], NsoPaths[k])
                                                         ELSE g[k - 1]
           Right(g) == g = [k \in 0..N |-> Step(g, k)]
           found == CHOOSE g : Right(g)
<1>1. N \in Nat
  BY DEF NsoPaths
<1>2. LoadAutoLoadHeaders(m) = found[N]
  BY DEF LoadAutoLoadHeaders
<1> HIDE DEF N
<1>3. PICK g : ListsTo(g, m, N)
  BY <1>1, ListsExist
<1>4. Right(g)
  <2>1. /\ g \in [0..N -> Seq(DOMAIN m.files)] /\ g[0] = <<>>
        /\ \A k \in 1..N : g[k] = IF IsThere(m, NsoPaths[k])
                                  THEN Append(g[k - 1], NsoPaths[k]) ELSE g[k - 1]
    BY <1>3 DEF ListsTo
  <2>2. ASSUME NEW k \in 0..N PROVE g[k] = Step(g, k)
    <3>1. CASE k = 0
      BY <2>1, <3>1
    <3>2. CASE k # 0
      <4>1. k \in 1..N
        BY <1>1, <3>2
      <4> QED BY Zenon, <2>1, <3>2, <4>1
    <3> QED BY <3>1, <3>2
  <2> HIDE DEF Step
  <2> QED BY <2>1, <2>2
<1>5. Right(found)
  <2> HIDE DEF Right
  <2> QED BY <1>4
<1> HIDE DEF found
<1>6. \A k \in 0..N : found[k] = Step(found, k)
  <2> HIDE DEF Step
  <2> QED BY <1>5
<1> DEFINE Off == {k \in 0..N : found[k] \notin Seq(DOMAIN m.files)}
<1>7. Off = {}
  <2> SUFFICES ASSUME Off # {} PROVE FALSE
    OBVIOUS
  <2>1. Off \subseteq Nat
    BY <1>1
  <2>2. PICK k \in Off : \A j \in Off : k <= j
    <3> HIDE DEF Off
    <3> QED BY <2>1, LeastExists
  <2>3. k # 0
    <3>1. 0 \in 0..N
      BY <1>1
    <3>2. found[0] = <<>>
      BY <1>6, <3>1
    <3>3. found[0] \in Seq(DOMAIN m.files)
      BY <3>2
    <3> QED BY <2>2, <3>3
  <2>4. k \in 0..N /\ k - 1 \in 0..N /\ k - 1 \notin Off
    BY <1>1, <2>2, <2>3
  <2>5. found[k - 1] \in Seq(DOMAIN m.files)
    BY <2>4
  <2>6. found[k] = IF IsThere(m, NsoPaths[k]) THEN Append(found[k - 1], NsoPaths[k])
                                              ELSE found[k - 1]
    BY <1>6, <2>3, <2>4
  <2>8. found[k] \in Seq(DOMAIN m.files)
    BY Zenon, <2>5, <2>6, OneMore
  <2> QED BY <2>2, <2>8
<1>8. N \in 0..N
  BY <1>1
<1> QED BY <1>2, <1>7, <1>8

-----------------------------------------------------------------------------
(* Headers and pages. *)

\* A header's fields are numbers.
HeaderTyped(h) ==
    /\ \A s \in Segments : h.dst[s] \in Nat /\ h.size[s] \in Nat /\ h.packed[s] \in Nat
    /\ h.bss \in Nat

\* So are those of every file.
LEMMA FilesTyped ==
    ASSUME NEW m \in Programs, NEW f \in DOMAIN m.files
    PROVE  HeaderTyped(m.files[f])
<1> DEFINE h == m.files[f]
<1>1. /\ h.dst \in [{"text", "ro", "rw"} -> Nat] /\ h.size \in [{"text", "ro", "rw"} -> Nat]
      /\ h.packed \in [{"text", "ro", "rw"} -> Nat] /\ h.bss \in Nat
  BY ProgramsAssumption
<1> HIDE DEF h
<1>2. HeaderTyped(h)
  BY <1>1 DEF HeaderTyped, Segments
<1> QED BY <1>2 DEF h

\* The segments of a checked header follow one another from its beginning.
Ordered(h) ==
    /\ h.dst["text"] = 0 /\ h.dst["rw"] % PageSize = 0
    /\ End(h, "text") <= h.dst["ro"] /\ End(h, "ro") <= h.dst["rw"]

\* So the last segment ends last, and the zeroes begin where it does.
LEMMA EndsOrdered ==
    ASSUME NEW h, HeaderTyped(h), Ordered(h)
    PROVE  /\ \A s \in Segments : End(h, s) \in Nat /\ End(h, s) = h.dst[s] + h.size[s]
           /\ \A s \in Segments : End(h, s) <= End(h, "rw")
           /\ Extent(h) = End(h, "rw") + h.bss
<1>1. \A s \in Segments : h.dst[s] \in Nat /\ h.size[s] \in Nat
  BY DEF HeaderTyped
<1>2. \A s \in Segments : End(h, s) \in Nat /\ End(h, s) = h.dst[s] + h.size[s]
  BY <1>1 DEF End
<1>3. \A s \in Segments : End(h, s) <= End(h, "rw")
  <2>1. "text" \in Segments /\ "ro" \in Segments /\ "rw" \in Segments
    BY DEF Segments
  <2> DEFINE t == End(h, "text")   r == End(h, "ro")   w == End(h, "rw")
  <2>2. t \in Nat /\ r \in Nat /\ w \in Nat /\ h.dst["ro"] \in Nat /\ h.dst["rw"] \in Nat
        /\ h.dst["ro"] <= r /\ h.dst["rw"] <= w
    <3>1. h.size["ro"] \in Nat /\ h.size["rw"] \in Nat /\ h.dst["ro"] \in Nat /\ h.dst["rw"] \in Nat
      BY <1>1, <2>1
    <3>2. r = h.dst["ro"] + h.size["ro"] /\ w = h.dst["rw"] + h.size["rw"] /\ t \in Nat
      BY <1>2, <2>1
    <3> HIDE DEF t, r, w
    <3> QED BY <3>1, <3>2
  <2>3. t <= h.dst["ro"] /\ r <= h.dst["rw"]
    BY DEF Ordered
  <2> HIDE DEF t, r, w
  <2>4. t <= w /\ r <= w /\ w <= w
    BY <2>2, <2>3
  <2> QED BY <2>4 DEF t, r, w, Segments
<1>4. Largest({End(h, s) : s \in Segments}) = End(h, "rw")
  <2> DEFINE S == {End(h, s) : s \in Segments}
             w == End(h, "rw")
  <2>1. w \in S
    BY DEF Segments
  <2>2. \A y \in S : y \in Nat /\ y <= w
    BY <1>2, <1>3
  <2> HIDE DEF S, w
  <2>3. \A x \in S : (\A y \in S : y <= x) => x = w
    <3> SUFFICES ASSUME NEW x \in S, \A y \in S : y <= x PROVE x = w
      OBVIOUS
    <3>1. w <= x /\ x <= w /\ x \in Nat /\ w \in Nat
      BY <2>1, <2>2
    <3> QED BY <3>1
  <2>4. Largest(S) = w
    BY <2>1, <2>2, <2>3 DEF Largest
  <2> QED BY <2>4 DEF S, w
<1> QED BY <1>2, <1>3, <1>4 DEF Extent

\* A multiple more gives a quotient more.
LEMMA QuotientShift ==
    ASSUME NEW a \in Nat \ {0}, NEW k \in Nat, NEW y \in Nat
    PROVE  (a * k + y) \div a = k + (y \div a)
<1> DEFINE q == y \div a   r == y % a
<1>1. q \in Nat /\ r \in Nat /\ r < a /\ y = a * q + r
  OBVIOUS
<1> HIDE DEF q, r
<1>2. a * k + y = a * (k + q) + r
  BY <1>1
<1>3. (a * (k + q) + r) \div a = k + q
  <2> DEFINE z == k + q
  <2>1. z \in Nat
    BY <1>1
  <2> HIDE DEF z
  <2>2. (a * z + r) \div a = z
    BY <1>1, <2>1
  <2> QED BY <2>2 DEF z
<1> QED BY <1>2, <1>3 DEF q

\* Rounding up to pages: never down, and the same behind whole pages.
LEMMA AlignUpIs ==
    ASSUME NEW x \in Nat
    PROVE  /\ AlignUp(x) \in Nat /\ x <= AlignUp(x)
           /\ \A d \in Nat : d % PageSize = 0 => AlignUp(d + x) = d + AlignUp(x)
<1> DEFINE P == PageSize   q == (x + P - 1) \div P
<1>1. P \in Nat \ {0}
  BY CreationAssumption
<1>2. q \in Nat /\ P * q <= x + P - 1 /\ x + P - 1 < P * q + P
  <2> DEFINE y == x + P - 1
  <2>1. y \in Nat
    BY <1>1
  <2> HIDE DEF y, P
  <2>2. y \div P \in Nat /\ P * (y \div P) <= y /\ y < P * (y \div P) + P
    BY <1>1, <2>1
  <2> QED BY <2>2 DEF y
<1>3. AlignUp(x) = q * P
  BY DEF AlignUp
<1>4. AlignUp(x) \in Nat /\ x <= AlignUp(x)
  <2> HIDE DEF q, P
  <2>1. q * P = P * q /\ P * q \in Nat
    BY <1>1, <1>2
  <2> QED BY <1>1, <1>2, <1>3, <2>1
<1>5. ASSUME NEW d \in Nat, d % P = 0
      PROVE  AlignUp(d + x) = d + AlignUp(x)
  <2> DEFINE k == d \div P   y == x + P - 1
  <2> HIDE DEF P
  <2>1. k \in Nat /\ d = P * k
    BY <1>1, <1>5
  <2>2. y \in Nat /\ d + x + P - 1 = P * k + y
    BY <1>1, <2>1
  <2>3. (d + x + P - 1) \div P = k + q
    <3> HIDE DEF k, y
    <3>1. (P * k + y) \div P = k + (y \div P)
      BY <1>1, <2>1, <2>2, QuotientShift
    <3> QED BY <2>2, <3>1 DEF y
  <2>4. AlignUp(d + x) = (k + q) * P
    BY <2>3 DEF AlignUp, P
  <2>5. (k + q) * P = P * k + q * P
    <3> HIDE DEF k, q
    <3> QED BY <1>1, <1>2, <2>1
  <2> QED BY <1>3, <2>1, <2>4, <2>5
<1> QED BY <1>4, <1>5

-----------------------------------------------------------------------------
(* Offsets. *)

\* The offset of a module from the one before it.
Gap(m, names, i) == NsoSize(m, names, i) + (IF i = 1 THEN m.args ELSE 0)

OffsetsTo(g, m, names, n) ==
    /\ g \in [1..n -> Nat] /\ g[1] = 0
    /\ \A i \in 2..n : g[i] = g[i - 1] + Gap(m, names, i - 1)

\* Sizes are numbers.
LEMMA SizesTyped ==
    ASSUME NEW m \in Programs, NEW names \in Seq(DOMAIN m.files), NEW i \in 1..Len(names)
    PROVE  NsoSize(m, names, i) \in Nat /\ Gap(m, names, i) \in Nat
           /\ Gap(m, names, i) = NsoSize(m, names, i) + (IF i = 1 THEN m.args ELSE 0)
<1> DEFINE h == m.files[names[i]]
<1>1. HeaderTyped(h)
  <2>1. names[i] \in DOMAIN m.files
    BY ElementOfSeq
  <2> QED BY <2>1, FilesTyped
<1>2. NsoSize(m, names, i) = AlignUp(Extent(h)) % ModuleSizeMax
  BY DEF NsoSize, Aligned
<1> HIDE DEF h
<1>3. Extent(h) \in Nat
  <2> DEFINE S == {End(h, s) : s \in Segments}
             a == End(h, "text")   b == End(h, "ro")   c == End(h, "rw")
  <2>1. a \in Nat /\ b \in Nat /\ c \in Nat /\ S = {a, b, c}
    <3>1. \A s \in Segments : End(h, s) \in Nat
      BY <1>1 DEF End, HeaderTyped
    <3>2. Segments = {"text", "ro", "rw"}
      BY DEF Segments
    <3>3. S = {a, b, c}
      BY <3>2
    <3> QED BY <3>1, <3>2, <3>3
  <2> HIDE DEF S, a, b, c
  <2>2. \E x \in S : \A y \in S : y <= x
    <3>1. CASE a <= b /\ c <= b
      BY <2>1, <3>1
    <3>2. CASE b <= a /\ c <= a
      BY <2>1, <3>2
    <3>3. CASE a <= c /\ b <= c
      BY <2>1, <3>3
    <3> QED BY <2>1, <3>1, <3>2, <3>3
  <2>3. Largest(S) \in S
    BY <2>2 DEF Largest
  <2>4. Largest(S) \in Nat
    BY <2>1, <2>3
  <2>5. Extent(h) = Largest(S) + h.bss /\ h.bss \in Nat
    BY <1>1 DEF Extent, S, HeaderTyped
  <2> QED BY <2>4, <2>5
<1>4. NsoSize(m, names, i) \in Nat
  <2> DEFINE x == AlignUp(Extent(h))
  <2>1. x \in Nat
    BY <1>3, AlignUpIs
  <2>2. ModuleSizeMax \in Nat \ {0}
    BY CreationAssumption
  <2> HIDE DEF x
  <2>3. x % ModuleSizeMax \in Nat
    BY <2>1, <2>2
  <2> QED BY <1>2, <2>3 DEF x
<1>5. m.args \in Nat
  BY ProgramsAssumption
<1> QED BY <1>4, <1>5 DEF Gap

\* There are such offsets for every number of modules.
LEMMA OffsetsExist ==
    ASSUME NEW m \in Programs, NEW names \in Seq(DOMAIN m.files)
    PROVE  \E g : OffsetsTo(g, m, names, Len(names) + 1)
<1> DEFINE N == Len(names) + 1
           Without == {n \in 1..N : ~ \E g : OffsetsTo(g, m, names, n)}
<1>0. N \in Nat /\ N \in 1..N
  BY LenProperties
<1> HIDE DEF N
<1> SUFFICES Without = {}
  BY <1>0 DEF N
<1> SUFFICES ASSUME Without # {} PROVE FALSE
  OBVIOUS
<1>1. Without \subseteq Nat
  OBVIOUS
<1>2. PICK n \in Without : \A k \in Without : n <= k
  <2> HIDE DEF Without
  <2> QED BY <1>1, LeastExists
<1>3. n # 1
  <2>1. OffsetsTo([k \in 1..1 |-> 0], m, names, 1)
    BY DEF OffsetsTo
  <2> QED BY <2>1
<1>4. n \in 2..N /\ n - 1 \in 1..N /\ n - 1 \notin Without
  BY <1>0, <1>2, <1>3
<1>5. PICK g : OffsetsTo(g, m, names, n - 1)
  BY <1>4
<1>6. /\ g \in [1..(n - 1) -> Nat] /\ g[1] = 0
      /\ \A i \in 2..(n - 1) : g[i] = g[i - 1] + Gap(m, names, i - 1)
  BY <1>5 DEF OffsetsTo
<1> DEFINE last == g[n - 1] + Gap(m, names, n - 1)
           h == [k \in 1..n |-> IF k = n THEN last ELSE g[k]]
<1>7. last \in Nat
  <2>1. n - 1 \in 1..Len(names) /\ n - 1 \in 1..(n - 1)
    BY <1>0, <1>4, LenProperties DEF N
  <2>2. Gap(m, names, n - 1) \in Nat
    BY <2>1, SizesTyped
  <2> QED BY <1>6, <2>1, <2>2
<1> HIDE DEF last
<1>8. h \in [1..n -> Nat] /\ h[1] = 0
  BY <1>4, <1>6, <1>7
<1>9. ASSUME NEW i \in 2..n
      PROVE  h[i] = h[i - 1] + Gap(m, names, i - 1)
  <2>1. h[i - 1] = g[i - 1]
    BY <1>4
  <2>2. CASE i = n
    <3>1. h[i] = last
      BY <1>4, <2>2
    <3> QED BY <2>1, <2>2, <3>1 DEF last
  <2>3. CASE i # n
    <3>1. i \in 2..(n - 1) /\ h[i] = g[i]
      BY <1>4, <2>3
    <3> HIDE DEF h
    <3> QED BY <1>6, <2>1, <3>1
  <2> QED BY <2>2, <2>3
<1>10. OffsetsTo(h, m, names, n)
  <2> HIDE DEF h
  <2> QED BY <1>8, <1>9 DEF OffsetsTo
<1> QED BY <1>2, <1>10

\* The offsets of the layout: the first module at the beginning, each of the
\* others behind the one before it.
LEMMA OffsetsAre ==
    ASSUME NEW m \in Programs, NEW names \in Seq(DOMAIN m.files)
    PROVE  OffsetsTo(NsoOffset(m, names), m, names, Len(names) + 1)
<1> DEFINE N == Len(names) + 1
           Step(g, i) == IF i = 1 THEN 0
                         ELSE g[i - 1] + NsoSize(m, names, i - 1) + (IF i = 2 THEN m.args ELSE 0)
           Right(g) == g = [i \in 1..(Len(names) + 1) |-> Step(g, i)]
           offset == CHOOSE g : Right(g)
<1>1. NsoOffset(m, names) = offset
  BY DEF NsoOffset
<1>2. N \in Nat /\ 1 \in 1..N
  BY LenProperties
<1>3. PICK g : OffsetsTo(g, m, names, N)
  BY OffsetsExist
<1>4. ASSUME NEW i \in 2..N, NEW f, f[i - 1] \in Nat
      PROVE  Step(f, i) = f[i - 1] + Gap(m, names, i - 1)
  <2>1. i - 1 \in 1..Len(names)
    BY LenProperties
  <2>2. /\ Gap(m, names, i - 1) = NsoSize(m, names, i - 1) + (IF i - 1 = 1 THEN m.args ELSE 0)
        /\ NsoSize(m, names, i - 1) \in Nat
    BY <2>1, SizesTyped
  <2>3. m.args \in Nat
    BY ProgramsAssumption
  <2> QED BY <1>4, <2>1, <2>2, <2>3
<1>5. Right(g)
  <2>1. g \in [1..N -> Nat] /\ g[1] = 0 /\ \A i \in 2..N : g[i] = g[i - 1] + Gap(m, names, i - 1)
    BY <1>3 DEF OffsetsTo
  <2>2. ASSUME NEW i \in 1..N PROVE g[i] = Step(g, i)
    <3>1. CASE i = 1
      BY <2>1, <3>1
    <3>2. CASE i # 1
      <4>1. i \in 2..N /\ i - 1 \in 1..N
        BY <1>2, <3>2
      <4>2. g[i - 1] \in Nat
        BY <2>1, <4>1
      <4> HIDE DEF Step, N
      <4> QED BY <1>4, <2>1, <4>1, <4>2
    <3> QED BY <3>1, <3>2
  <2> HIDE DEF Step
  <2> QED BY <2>1, <2>2
<1>6. Right(offset)
  <2> HIDE DEF Right
  <2> QED BY <1>5
<1> HIDE DEF offset
<1>7. DOMAIN offset = 1..N /\ offset = [i \in 1..N |-> offset[i]]
      /\ \A i \in 1..N : offset[i] = Step(offset, i)
  <2> HIDE DEF Step
  <2> QED BY <1>6
<1>8. offset[1] = 0
  BY <1>2, <1>7
<1> HIDE DEF Step, Right, N
<1> DEFINE Off == {k \in 1..N : offset[k] \notin Nat}
<1>9. Off = {}
  <2> SUFFICES ASSUME Off # {} PROVE FALSE
    OBVIOUS
  <2>1. Off \subseteq Nat
    BY <1>2
  <2>2. PICK k \in Off : \A j \in Off : k <= j
    <3> HIDE DEF Off
    <3> QED BY <2>1, LeastExists
  <2>3. k # 1
    BY <1>8, <2>2
  <2>4. k \in 2..N /\ k - 1 \in 1..N /\ k - 1 \notin Off
    BY <1>2, <2>2, <2>3
  <2>5. offset[k - 1] \in Nat
    BY <2>4
  <2>6. offset[k] = offset[k - 1] + Gap(m, names, k - 1)
    BY <1>4, <1>7, <2>2, <2>4, <2>5
  <2>7. Gap(m, names, k - 1) \in Nat
    <3>1. k - 1 \in 1..Len(names)
      BY <2>4, LenProperties DEF N
    <3> QED BY <3>1, SizesTyped
  <2> QED BY <2>2, <2>5, <2>6, <2>7
<1>10. \A i \in 1..N : offset[i] \in Nat
  BY <1>9
<1>11. ASSUME NEW i \in 2..N
       PROVE  offset[i] = offset[i - 1] + Gap(m, names, i - 1)
  <2>1. i - 1 \in 1..N /\ i \in 1..N
    BY <1>2
  <2> QED BY <1>4, <1>7, <1>10, <2>1
<1>12. offset \in [1..N -> Nat]
  BY <1>7, <1>10
<1> QED BY <1>1, <1>8, <1>11, <1>12 DEF OffsetsTo, N

\* Modules do not overlap, nor do the arguments behind the first.
LEMMA OffsetsRise ==
    ASSUME NEW m, NEW names, NEW g, NEW n \in Nat, OffsetsTo(g, m, names, n),
           \A i \in 1..(n - 1) : Gap(m, names, i) \in Nat,
           NEW i \in 1..n, NEW j \in 1..n, i < j
    PROVE  g[i] + Gap(m, names, i) <= g[j]
<1>1. /\ g \in [1..n -> Nat] /\ g[1] = 0
      /\ \A k \in 2..n : g[k] = g[k - 1] + Gap(m, names, k - 1)
  BY DEF OffsetsTo
<1> DEFINE Low == {k \in 1..n : i < k /\ ~(g[i] + Gap(m, names, i) <= g[k])}
<1>2. Low = {}
  <2> SUFFICES ASSUME Low # {} PROVE FALSE
    OBVIOUS
  <2>1. Low \subseteq Nat
    OBVIOUS
  <2>2. PICK k \in Low : \A x \in Low : k <= x
    <3> HIDE DEF Low
    <3> QED BY <2>1, LeastExists
  <2>3. k \in 2..n /\ k - 1 \in 1..n /\ k - 1 \notin Low /\ i <= k - 1 /\ i \in 1..(n - 1)
    BY <2>2
  <2>4. g[k] = g[k - 1] + Gap(m, names, k - 1) /\ Gap(m, names, k - 1) \in Nat
        /\ g[k - 1] \in Nat /\ g[i] \in Nat /\ Gap(m, names, i) \in Nat
    BY <1>1, <2>3
  <2>5. CASE i = k - 1
    BY <2>2, <2>4, <2>5
  <2>6. CASE i # k - 1
    <3>1. g[i] + Gap(m, names, i) <= g[k - 1]
      BY <2>3, <2>6
    <3> QED BY <2>2, <2>4, <3>1
  <2> QED BY <2>5, <2>6
<1> QED BY <1>2

-----------------------------------------------------------------------------
(* The layout decided. *)

\* A layout of the modules from a base in the window that leaves room for them.
Laid ==
    /\ program \in Programs /\ nsos \in Seq(DOMAIN program.files)
    /\ CheckAutoLoad(program, nsos) /\ LayoutFits(program, nsos)
    /\ info = DecideAddressSpaceLayout(program, nsos, info.base)
    /\ info.base \in Nat
    /\ WindowOf(program).start \in Nat /\ WindowOf(program).size \in Nat
    /\ WindowOf(program).start <= info.base
    /\ info.base + TotalSize(program, nsos) <= WindowOf(program).start + WindowOf(program).size

\* The offset of a module from the base.
At(i) == NsoOffset(program, nsos)[i]
SizeOf(i) == NsoSize(program, nsos, i)
HeaderOf(i) == program.files[nsos[i]]

\* Sizes, places and order of the modules, and the place of the arguments.
LEMMA LaidOut ==
    ASSUME Laid
    PROVE  /\ Len(nsos) \in Nat /\ 1 <= Len(nsos) /\ DOMAIN nsos = 1..Len(nsos)
           /\ program.args \in Nat
           /\ \A i \in 1..Len(nsos) :
                 /\ HeaderTyped(HeaderOf(i)) /\ Ordered(HeaderOf(i))
                 /\ SizeOf(i) \in Nat /\ 0 < SizeOf(i) /\ Extent(HeaderOf(i)) <= SizeOf(i)
                 /\ info.size[i] = SizeOf(i) /\ info.nso[i] = info.base + At(i)
           /\ \A i \in 1..(Len(nsos) + 1) : At(i) \in Nat
           /\ At(1) = 0
           /\ \A i, j \in 1..(Len(nsos) + 1) :
                 i < j => At(i) + SizeOf(i) + (IF i = 1 THEN program.args ELSE 0) <= At(j)
           /\ info.total = At(Len(nsos) + 1)
           /\ info.args = IF program.args = 0 THEN 0 ELSE info.base + SizeOf(1)
<1> DEFINE m == program   L == Len(nsos)
<1>1. L \in Nat /\ DOMAIN nsos = 1..L
  BY LenProperties DEF Laid
<1>2. 1 <= L
  <2>1. "main" \in {nsos[i] : i \in DOMAIN nsos}
    BY DEF Laid, CheckAutoLoad
  <2>2. PICK i \in DOMAIN nsos : nsos[i] = "main"
    BY <2>1
  <2> HIDE DEF L
  <2> QED BY <1>1, <2>2
<1>3. m.args \in Nat
  BY ProgramsAssumption DEF Laid
<1>4. ASSUME NEW i \in 1..L
      PROVE  /\ HeaderTyped(HeaderOf(i)) /\ Ordered(HeaderOf(i))
             /\ SizeOf(i) \in Nat /\ 0 < SizeOf(i) /\ Extent(HeaderOf(i)) <= SizeOf(i)
             /\ info.size[i] = SizeOf(i) /\ info.nso[i] = info.base + At(i)
             /\ Gap(m, nsos, i) \in Nat
             /\ Gap(m, nsos, i) = SizeOf(i) + (IF i = 1 THEN m.args ELSE 0)
  <2>1. nsos[i] \in DOMAIN m.files
    BY ElementOfSeq DEF Laid
  <2>2. HeaderTyped(HeaderOf(i))
    BY <2>1, FilesTyped DEF Laid, HeaderOf
  <2>3. Ordered(HeaderOf(i))
    <3> DEFINE found == {nsos[k] : k \in DOMAIN nsos}
    <3>1. nsos[i] \in found
      BY <1>1
    <3>2. \A f \in found : HeaderIsValid(m, f, found)
      BY DEF Laid, CheckAutoLoad
    <3> HIDE DEF found
    <3>3. HeaderIsValid(m, nsos[i], found)
      BY <3>1, <3>2
    <3> QED BY <3>3 DEF HeaderIsValid, Ordered, HeaderOf, IsAligned, Segments
  <2>4. /\ SizeOf(i) \in Nat /\ Gap(m, nsos, i) \in Nat
        /\ Gap(m, nsos, i) = SizeOf(i) + (IF i = 1 THEN m.args ELSE 0)
    BY SizesTyped DEF Laid, SizeOf
  <2>5. Extent(HeaderOf(i)) <= SizeOf(i) /\ SizeOf(i) > 0
    BY <1>1 DEF Laid, LayoutFits, HeaderOf, SizeOf
  <2>6. info.size[i] = SizeOf(i) /\ info.nso[i] = info.base + At(i)
    <3>1. /\ info.size = [k \in DOMAIN nsos |-> NsoSize(m, nsos, k)]
          /\ info.nso = [k \in DOMAIN nsos |-> info.base + NsoOffset(m, nsos)[k]]
      BY DEF Laid, DecideAddressSpaceLayout
    <3> QED BY <1>1, <3>1 DEF SizeOf, At
  <2> QED BY <2>2, <2>3, <2>4, <2>5, <2>6
<1>5. OffsetsTo(NsoOffset(m, nsos), m, nsos, L + 1)
  BY OffsetsAre DEF Laid
<1>6. (\A i \in 1..(L + 1) : At(i) \in Nat) /\ At(1) = 0
  BY <1>1, <1>5 DEF OffsetsTo, At
<1>7. ASSUME NEW i \in 1..(L + 1), NEW j \in 1..(L + 1), i < j
      PROVE  At(i) + SizeOf(i) + (IF i = 1 THEN m.args ELSE 0) <= At(j)
  <2> DEFINE N == L + 1
  <2>0. N \in Nat /\ N - 1 = L
    BY <1>1
  <2>1. \A k \in 1..(N - 1) : Gap(m, nsos, k) \in Nat
    BY <1>4, <2>0
  <2>2. i \in 1..L
    BY <1>1, <1>7
  <2> HIDE DEF N
  <2>3. NsoOffset(m, nsos)[i] + Gap(m, nsos, i) <= NsoOffset(m, nsos)[j]
    <3>1. OffsetsTo(NsoOffset(m, nsos), m, nsos, N) /\ i \in 1..N /\ j \in 1..N
      BY <1>5 DEF N
    <3> HIDE DEF m
    <3> QED BY <1>7, <2>0, <2>1, <3>1, OffsetsRise
  <2>4. Gap(m, nsos, i) = SizeOf(i) + (IF i = 1 THEN m.args ELSE 0) /\ SizeOf(i) \in Nat
        /\ At(i) \in Nat
    BY <1>4, <1>6, <2>2
  <2> QED BY <1>3, <2>3, <2>4 DEF At
<1>8. info.total = At(L + 1) /\ info.args = IF m.args = 0 THEN 0 ELSE info.base + SizeOf(1)
  BY DEF Laid, DecideAddressSpaceLayout, TotalSize, At, SizeOf
<1> QED BY <1>1, <1>2, <1>3, <1>4, <1>6, <1>7, <1>8

\* What has a place: modules, and arguments if there are any.
ModuleParts == {<<info.nso[i], info.size[i]>> : i \in DOMAIN nsos}
ArgumentPart == IF program.args = 0 THEN {} ELSE {<<info.args, program.args>>}

\* Each has its own.
LEMMA PartsCounted ==
    ASSUME Laid
    PROVE  Cardinality(ModuleParts \cup ArgumentPart)
             = Len(nsos) + (IF program.args = 0 THEN 0 ELSE 1)
<1> DEFINE L == Len(nsos)
           f == [i \in 1..L |-> <<info.nso[i], info.size[i]>>]
<1>1. /\ L \in Nat /\ 1 <= L /\ DOMAIN nsos = 1..L /\ program.args \in Nat
      /\ \A i \in 1..L : SizeOf(i) \in Nat /\ 0 < SizeOf(i) /\ info.size[i] = SizeOf(i)
                         /\ info.nso[i] = info.base + At(i)
      /\ \A i \in 1..(L + 1) : At(i) \in Nat
      /\ At(1) = 0
      /\ \A i, j \in 1..(L + 1) :
            i < j => At(i) + SizeOf(i) + (IF i = 1 THEN program.args ELSE 0) <= At(j)
      /\ info.args = IF program.args = 0 THEN 0 ELSE info.base + SizeOf(1)
  BY LaidOut
<1>2. info.base \in Nat
  BY DEF Laid
<1> HIDE DEF L
<1>3. ASSUME NEW i \in 1..L, NEW j \in 1..L, i < j
      PROVE  At(i) < At(j)
  <2>0. i \in 1..(L + 1) /\ j \in 1..(L + 1)
    BY <1>1
  <2>1. At(i) + SizeOf(i) + (IF i = 1 THEN program.args ELSE 0) <= At(j)
    BY <1>1, <1>3, <2>0
  <2>2. At(i) \in Nat /\ At(j) \in Nat /\ SizeOf(i) \in Nat /\ 0 < SizeOf(i)
    BY <1>1
  <2> QED BY <1>1, <2>1, <2>2
<1>4. ASSUME NEW i \in 1..L, NEW j \in 1..L, f[i] = f[j]
      PROVE  i = j
  <2>1. info.nso[i] = info.nso[j]
    BY <1>4
  <2>2. At(i) = At(j)
    <3>1. info.nso[i] = info.base + At(i) /\ info.nso[j] = info.base + At(j)
          /\ At(i) \in Nat /\ At(j) \in Nat
      <4>1. i \in 1..(L + 1) /\ j \in 1..(L + 1)
        BY <1>1
      <4> QED BY <1>1, <4>1
    <3> DEFINE b == info.base   a == At(i)   c == At(j)
    <3>2. b \in Nat /\ a \in Nat /\ c \in Nat /\ b + a = b + c
      BY <1>2, <2>1, <3>1
    <3> HIDE DEF a, b, c
    <3>3. a = c
      BY <3>2
    <3> QED BY <3>3 DEF a, c
  <2>3. ~(i < j) /\ ~(j < i)
    <3>0. i \in 1..(L + 1) /\ j \in 1..(L + 1)
      BY <1>1
    <3>1. At(i) \in Nat /\ At(j) \in Nat
      BY <1>1, <3>0
    <3>2. (i < j => At(i) < At(j)) /\ (j < i => At(j) < At(i))
      BY <1>3
    <3> QED BY <2>2, <3>1, <3>2
  <2> QED BY <1>1, <2>3
<1>5. f \in [1..L -> ModuleParts] /\ \A t \in ModuleParts : \E i \in 1..L : f[i] = t
  BY <1>1 DEF ModuleParts
<1>6. ExistsBijection(1..L, ModuleParts)
  <2>1. f \in Injection(1..L, ModuleParts)
    <3>1. DOMAIN f = 1..L
      OBVIOUS
    <3> HIDE DEF f
    <3> QED BY <1>4, <1>5, <3>1 DEF Injection, IsInjective
  <2>2. f \in Surjection(1..L, ModuleParts)
    <3> HIDE DEF f
    <3> QED BY <1>5 DEF Surjection
  <2> HIDE DEF f
  <2> QED BY <2>1, <2>2 DEF ExistsBijection, Bijection
<1>7. Cardinality(ModuleParts) = L /\ IsFiniteSet(ModuleParts)
  BY <1>1, <1>6, FS_CountingElements, FS_NatSurjection
     DEF ExistsBijection, Bijection, ExistsSurjection
<1>8. CASE program.args = 0
  <2>1. ModuleParts \cup ArgumentPart = ModuleParts
    BY <1>8 DEF ArgumentPart
  <2>2. L + 0 = L
    BY <1>1
  <2> QED BY <1>7, <1>8, <2>1, <2>2 DEF L
<1>9. CASE program.args # 0
  <2> DEFINE x == <<info.args, program.args>>
  <2>1. ArgumentPart = {x}
    BY <1>9 DEF ArgumentPart
  <2>2. x \notin ModuleParts
    <3> SUFFICES ASSUME NEW i \in 1..L, x = <<info.nso[i], info.size[i]>> PROVE FALSE
      BY <1>1 DEF ModuleParts
    <3>1. info.args = info.nso[i]
      OBVIOUS
    <3>2. info.base + SizeOf(1) = info.base + At(i)
      BY <1>1, <1>9, <3>1
    <3>3. 1 \in 1..L /\ SizeOf(1) \in Nat /\ 0 < SizeOf(1) /\ At(i) \in Nat
      BY <1>1
    <3>4. SizeOf(1) = At(i)
      BY <1>2, <3>2, <3>3
    <3>5. CASE i = 1
      BY <1>1, <3>3, <3>4, <3>5
    <3>6. CASE i # 1
      <4>1. 1 \in 1..(L + 1) /\ i \in 1..(L + 1) /\ 1 < i
        BY <1>1, <3>6
      <4>2. At(1) + SizeOf(1) + program.args <= At(i)
        BY <1>1, <4>1
      <4> QED BY <1>1, <1>9, <3>3, <3>4, <4>2
    <3> QED BY <3>5, <3>6
  <2> HIDE DEF x
  <2>3. Cardinality(ModuleParts \cup {x}) = L + 1
    BY <1>7, <2>2, FS_AddElement
  <2> QED BY <1>9, <2>1, <2>3 DEF L
<1> QED BY <1>8, <1>9

\* They lie one behind another in the window, and hold all of their segments.
LEMMA LayoutIsRight == Laid => LayoutRight
<1> SUFFICES ASSUME Laid PROVE LayoutRight
  OBVIOUS
<1> DEFINE L == Len(nsos)
           parts == ModuleParts \cup ArgumentPart
           lo == WindowOf(program).start
           hi == WindowOf(program).start + WindowOf(program).size
<1>1. /\ L \in Nat /\ 1 <= L /\ DOMAIN nsos = 1..L /\ program.args \in Nat
      /\ \A i \in 1..L : SizeOf(i) \in Nat /\ 0 < SizeOf(i) /\ info.size[i] = SizeOf(i)
                         /\ info.nso[i] = info.base + At(i)
      /\ \A i \in 1..(L + 1) : At(i) \in Nat
      /\ At(1) = 0
      /\ \A i, j \in 1..(L + 1) :
            i < j => At(i) + SizeOf(i) + (IF i = 1 THEN program.args ELSE 0) <= At(j)
      /\ info.args = IF program.args = 0 THEN 0 ELSE info.base + SizeOf(1)
  BY LaidOut
<1>2. /\ info.base \in Nat /\ lo \in Nat /\ hi \in Nat /\ lo <= info.base
      /\ info.base + At(L + 1) <= hi
  BY DEF Laid, TotalSize, At
<1> HIDE DEF L, lo, hi
<1>3. ASSUME NEW i \in 1..L
      PROVE  /\ SizeOf(i) \in Nat /\ At(i) \in Nat /\ At(L + 1) \in Nat
             /\ At(i) + SizeOf(i) + (IF i = 1 THEN program.args ELSE 0) <= At(L + 1)
             /\ info.nso[i] = info.base + At(i) /\ info.size[i] = SizeOf(i)
  <2>1. i \in 1..(L + 1) /\ L + 1 \in 1..(L + 1) /\ i < L + 1
    BY <1>1
  <2> QED BY <1>1, <2>1
<1>4. ASSUME NEW x \in parts
      PROVE  \/ \E i \in 1..L : x[1] = info.base + At(i) /\ x[2] = SizeOf(i)
             \/ program.args # 0 /\ x[1] = info.base + SizeOf(1) /\ x[2] = program.args
  <2>1. CASE x \in ModuleParts
    BY <1>1, <2>1 DEF ModuleParts
  <2>2. CASE x \in ArgumentPart
    BY <1>1, <2>2 DEF ArgumentPart
  <2> QED BY <2>1, <2>2
<1> HIDE DEF parts
<1>5. ASSUME NEW x \in parts
      PROVE  x[1] >= lo /\ x[1] + x[2] <= hi
  <2>1. ASSUME NEW i \in 1..L, x[1] = info.base + At(i), x[2] = SizeOf(i)
        PROVE  x[1] >= lo /\ x[1] + x[2] <= hi
    <3>1. At(i) + SizeOf(i) <= At(L + 1)
      BY <1>1, <1>3
    <3> QED BY <1>2, <1>3, <2>1, <3>1
  <2>2. ASSUME program.args # 0, x[1] = info.base + SizeOf(1), x[2] = program.args
        PROVE  x[1] >= lo /\ x[1] + x[2] <= hi
    <3>1. 1 \in 1..L
      BY <1>1
    <3>2. SizeOf(1) \in Nat /\ At(1) + SizeOf(1) + program.args <= At(L + 1) /\ At(L + 1) \in Nat
      BY <1>3, <3>1
    <3>3. SizeOf(1) + program.args <= At(L + 1) /\ program.args \in Nat
      BY <1>1, <3>2
    <3>4. info.base + At(L + 1) <= hi /\ info.base \in Nat /\ lo \in Nat /\ hi \in Nat
          /\ lo <= info.base
      BY <1>2
    <3> QED BY <2>2, <3>2, <3>3, <3>4
  <2> QED BY <1>4, <2>1, <2>2
<1>6. ASSUME NEW x \in parts, NEW y \in parts, x[1] < y[1]
      PROVE  x[1] + x[2] <= y[1]
  <2>0. 1 \in 1..L
    BY <1>1
  <2>1. ASSUME NEW i \in 1..L, x[1] = info.base + At(i), x[2] = SizeOf(i),
               NEW j \in 1..L, y[1] = info.base + At(j)
        PROVE  x[1] + x[2] <= y[1]
    <3>1. At(i) \in Nat /\ At(j) \in Nat /\ SizeOf(i) \in Nat /\ SizeOf(j) \in Nat /\ At(i) < At(j)
      BY <1>2, <1>3, <1>6, <2>1
    <3>2. i < j
      <4> SUFFICES ASSUME j < i \/ j = i PROVE FALSE
        BY <1>1
      <4>1. j # i
        BY <3>1
      <4>2. i \in 1..(L + 1) /\ j \in 1..(L + 1) /\ j < i
        BY <1>1, <4>1
      <4>3. At(j) + SizeOf(j) + (IF j = 1 THEN program.args ELSE 0) <= At(i)
        BY <1>1, <4>2
      <4> QED BY <1>1, <3>1, <4>3
    <3>3. i \in 1..(L + 1) /\ j \in 1..(L + 1)
      BY <1>1
    <3>4. At(i) + SizeOf(i) + (IF i = 1 THEN program.args ELSE 0) <= At(j)
      BY <1>1, <3>2, <3>3
    <3>5. At(i) + SizeOf(i) <= At(j)
      BY <1>1, <3>1, <3>4
    <3> QED BY <1>2, <2>1, <3>1, <3>5
  <2>2. ASSUME NEW i \in 1..L, x[1] = info.base + At(i), x[2] = SizeOf(i),
               y[1] = info.base + SizeOf(1)
        PROVE  x[1] + x[2] <= y[1]
    <3>1. At(i) \in Nat /\ SizeOf(i) \in Nat /\ SizeOf(1) \in Nat /\ At(i) < SizeOf(1)
      BY <1>2, <1>3, <1>6, <2>0, <2>2
    <3>2. i = 1
      <4> SUFFICES ASSUME i # 1 PROVE FALSE
        OBVIOUS
      <4>1. 1 \in 1..(L + 1) /\ i \in 1..(L + 1) /\ 1 < i
        BY <1>1
      <4>2. At(1) + SizeOf(1) + program.args <= At(i)
        BY <1>1, <4>1
      <4> QED BY <1>1, <3>1, <4>2
    <3> QED BY <1>1, <1>2, <2>2, <3>1, <3>2
  <2>3. ASSUME x[1] = info.base + SizeOf(1), x[2] = program.args,
               NEW j \in 1..L, y[1] = info.base + At(j)
        PROVE  x[1] + x[2] <= y[1]
    <3>1. At(j) \in Nat /\ SizeOf(1) \in Nat /\ SizeOf(1) < At(j)
      BY <1>2, <1>3, <1>6, <2>0, <2>3
    <3>2. j # 1
      BY <1>1, <3>1
    <3>3. 1 \in 1..(L + 1) /\ j \in 1..(L + 1) /\ 1 < j
      BY <1>1, <3>2
    <3>4. At(1) + SizeOf(1) + program.args <= At(j)
      BY <1>1, <3>3
    <3>5. SizeOf(1) + program.args <= At(j) /\ program.args \in Nat
      BY <1>1, <3>1, <3>4
    <3> QED BY <1>2, <2>3, <3>1, <3>5
  <2>4. ASSUME x[1] = info.base + SizeOf(1), y[1] = info.base + SizeOf(1) PROVE FALSE
    <3>1. SizeOf(1) \in Nat
      BY <1>3, <2>0
    <3> QED BY <1>2, <1>6, <2>4, <3>1
  <2> QED BY <1>4, <2>1, <2>2, <2>3, <2>4
<1>7. Cardinality(parts) = Len(nsos) + (IF program.args = 0 THEN 0 ELSE 1)
  BY PartsCounted DEF parts
<1>8. ASSUME NEW i \in DOMAIN nsos
      PROVE  /\ \A s \in Segments : End(HeaderOf(i), s) <= info.size[i]
             /\ End(HeaderOf(i), "rw") + HeaderOf(i).bss <= info.size[i]
  <2> DEFINE h == HeaderOf(i)
  <2>1. /\ HeaderTyped(h) /\ Ordered(h) /\ SizeOf(i) \in Nat /\ Extent(h) <= SizeOf(i)
        /\ info.size[i] = SizeOf(i)
    BY LaidOut
  <2> HIDE DEF h
  <2>2. /\ \A s \in Segments : End(h, s) \in Nat /\ End(h, s) <= End(h, "rw")
        /\ Extent(h) = End(h, "rw") + h.bss
    BY <2>1, EndsOrdered
  <2>3. h.bss \in Nat /\ "rw" \in Segments
    BY <2>1 DEF HeaderTyped, Segments
  <2>4. End(h, "rw") + h.bss <= info.size[i] /\ End(h, "rw") \in Nat
    BY <2>1, <2>2, <2>3
  <2>5. ASSUME NEW s \in Segments PROVE End(h, s) <= info.size[i]
    BY <2>1, <2>2, <2>3, <2>4
  <2> QED BY <2>4, <2>5 DEF h
<1> QED BY <1>5, <1>6, <1>7, <1>8
        DEF LayoutRight, parts, ModuleParts, ArgumentPart, lo, hi, HeaderOf

-----------------------------------------------------------------------------
(* The memory of a module. *)

\* A is where the header has a segment.
Covers(h, s, a) == a >= h.dst[s] /\ a < h.dst[s] + h.size[s]

\* What a put leaves at an address.
LEMMA PutIs ==
    ASSUME NEW mem, NEW from, NEW n, NEW what
    PROVE  /\ DOMAIN Put(mem, from, n, what) = DOMAIN mem
           /\ \A x \in DOMAIN mem :
                 Put(mem, from, n, what)[x] = IF x >= from /\ x < from + n THEN what ELSE mem[x]
BY DEF Put

\* Memory with a segment loaded to its place.
Loads(new, mem, h, i, from, s) ==
    /\ DOMAIN new = DOMAIN mem
    /\ \A x \in DOMAIN mem :
          /\ x < from + h.dst[s] => new[x] = mem[x]
          /\ x >= from + h.dst[s] /\ x < from + h.dst[s] + h.size[s] => new[x] = <<i, s>>

\* A segment is loaded to its place, and nothing before that is touched: what
\* is packed ends no later than where it is unpacked to.
LEMMA SegmentLoaded ==
    ASSUME NEW mem, NEW h, HeaderTyped(h), NEW i, NEW from \in Nat, NEW end \in Nat,
           NEW s \in Segments, PackedFits(h, s), from + h.dst[s] + h.size[s] <= end,
           DOMAIN mem \subseteq Nat
    PROVE  Loads(LoadSegment(mem, h, i, from, end, s), mem, h, i, from, s)
<1> DEFINE d == h.dst[s]   n == h.size[s]   k == h.packed[s]
           raw == IF k = 0 THEN mem ELSE Put(mem, end - k, k, Packed)
           r == Put(raw, from + d, n, <<i, s>>)
<1>1. d \in Nat /\ n \in Nat /\ k \in Nat
  BY DEF HeaderTyped
<1>2. k <= n /\ from + d + n <= end
  BY DEF PackedFits
<1>3. LoadSegment(mem, h, i, from, end, s) = r
  BY DEF LoadSegment
<1> HIDE DEF d, n, k
<1>4. DOMAIN raw = DOMAIN mem /\ \A x \in DOMAIN mem : x < from + d => raw[x] = mem[x]
  <2>1. CASE k = 0
    BY <2>1
  <2>2. CASE k # 0
    <3>1. raw = Put(mem, end - k, k, Packed)
      BY <2>2
    <3> HIDE DEF raw
    <3>2. DOMAIN raw = DOMAIN mem
      BY <3>1, PutIs
    <3>3. ASSUME NEW x \in DOMAIN mem, x < from + d PROVE raw[x] = mem[x]
      <4>1. raw[x] = IF x >= end - k /\ x < end - k + k THEN Packed ELSE mem[x]
        <5>1. \A y \in DOMAIN mem :
                 Put(mem, end - k, k, Packed)[y]
                     = IF y >= end - k /\ y < end - k + k THEN Packed ELSE mem[y]
          BY PutIs
        <5> QED BY <3>1, <5>1
      <4>2. ~(x >= end - k)
        BY <1>1, <1>2, <3>3
      <4> QED BY <4>1, <4>2
    <3> QED BY <3>2, <3>3
  <2> QED BY <2>1, <2>2
<1> HIDE DEF raw
<1>5. DOMAIN r = DOMAIN mem
  BY <1>4, PutIs
<1>6. ASSUME NEW x \in DOMAIN mem
      PROVE  /\ x < from + d => r[x] = mem[x]
             /\ x >= from + d /\ x < from + d + n => r[x] = <<i, s>>
  <2>1. r[x] = IF x >= from + d /\ x < from + d + n THEN <<i, s>> ELSE raw[x]
    <3>1. \A y \in DOMAIN raw :
             Put(raw, from + d, n, <<i, s>>)[y]
                 = IF y >= from + d /\ y < from + d + n THEN <<i, s>> ELSE raw[y]
      BY PutIs
    <3> QED BY <1>4, <3>1
  <2>2. x \in Nat
    OBVIOUS
  <2>3. x < from + d => ~(x >= from + d)
    BY <1>1, <2>2
  <2> HIDE DEF r
  <2> QED BY <1>4, <2>1, <2>3
<1> HIDE DEF r
<1> QED BY <1>3, <1>5, <1>6 DEF Loads, d, n

\* The one segment at an offset, if there is one.
LEMMA BelongsIs ==
    ASSUME NEW i, HeaderTyped(HeaderOf(i)), Ordered(HeaderOf(i)), NEW a \in Nat
    PROVE  /\ \A s \in Segments : Covers(HeaderOf(i), s, a) => Belongs(i, a) = <<i, s>>
           /\ (\A s \in Segments : ~Covers(HeaderOf(i), s, a)) => Belongs(i, a) = Zero
<1> DEFINE h == HeaderOf(i)
           at == {s \in Segments : a >= h.dst[s] /\ a < End(h, s)}
<1>1. Belongs(i, a) = IF at = {} THEN Zero ELSE <<i, CHOOSE s \in at : TRUE>>
  BY DEF Belongs, HeaderOf
<1>2. at = {s \in Segments : Covers(h, s, a)}
  BY DEF Covers, End
<1> HIDE DEF h
<1>3. ASSUME NEW s \in Segments, NEW t \in Segments, Covers(h, s, a), Covers(h, t, a)
      PROVE  s = t
  <2>1. /\ "text" \in Segments /\ "ro" \in Segments /\ "rw" \in Segments
        /\ Segments = {"text", "ro", "rw"}
    BY DEF Segments
  <2> DEFINE t0 == h.dst["text"] + h.size["text"]   r1 == h.dst["ro"]
             r2 == h.dst["ro"] + h.size["ro"]   w1 == h.dst["rw"]
  <2>2. t0 \in Nat /\ r1 \in Nat /\ r2 \in Nat /\ w1 \in Nat /\ r1 <= r2
    BY <2>1 DEF HeaderTyped, h
  <2>3. t0 <= r1 /\ r2 <= w1
    BY DEF Ordered, End, h
  <2>4. /\ Covers(h, "text", a) => a < t0
        /\ Covers(h, "ro", a) => a >= r1 /\ a < r2
        /\ Covers(h, "rw", a) => a >= w1
    BY DEF Covers
  <2> HIDE DEF t0, r1, r2, w1
  <2>5. /\ ~(Covers(h, "text", a) /\ Covers(h, "ro", a))
        /\ ~(Covers(h, "text", a) /\ Covers(h, "rw", a))
        /\ ~(Covers(h, "ro", a) /\ Covers(h, "rw", a))
    BY <2>2, <2>3, <2>4
  <2> QED BY <1>3, <2>1, <2>5
<1>4. ASSUME NEW s \in Segments, Covers(h, s, a)
      PROVE  Belongs(i, a) = <<i, s>>
  <2>1. at = {s}
    BY <1>2, <1>3, <1>4
  <2> QED BY <1>1, <2>1
<1>5. (\A s \in Segments : ~Covers(h, s, a)) => Belongs(i, a) = Zero
  BY <1>1, <1>2
<1> QED BY <1>4, <1>5 DEF h

\* What LoadModule leaves in memory, from the values at each address.
LEMMA ModuleLoaded ==
    ASSUME Laid, NEW mem, DOMAIN mem = 0..(info.total - 1), NEW i \in 1..Len(nsos),
           \A s \in Segments : PackedFits(HeaderOf(i), s)
    PROVE  /\ DOMAIN LoadModule(mem, program, i) = DOMAIN mem
           /\ \A x \in DOMAIN mem : x < At(i) => LoadModule(mem, program, i)[x] = mem[x]
           /\ \A a \in 0..(SizeOf(i) - 1) :
                 LoadModule(mem, program, i)[At(i) + a] = Belongs(i, a)
<1> DEFINE h == HeaderOf(i)
           f == At(i)
           end == IF h.zstd THEN info.total ELSE f + SizeOf(i)
           text == LoadSegment(mem, h, i, f, end, "text")
           ro == LoadSegment(text, h, i, f, end, "ro")
           rw == LoadSegment(ro, h, i, f, end, "rw")
           t == End(h, "text")   r1 == h.dst["ro"]   r2 == End(h, "ro")
           w1 == h.dst["rw"]     w2 == End(h, "rw")  z == SizeOf(i)
           c1 == Put(rw, f + t, r1 - t, Zero)
           c2 == Put(c1, f + r2, w1 - r2, Zero)
           c3 == Put(c2, f + w2, z - w2, Zero)
           D == DOMAIN mem
<1>1. /\ HeaderTyped(h) /\ Ordered(h) /\ z \in Nat /\ 0 < z /\ Extent(h) <= z
      /\ info.size[i] = z /\ info.nso[i] = info.base + f /\ f \in Nat
      /\ f + z <= info.total /\ info.total \in Nat /\ info.base \in Nat
  <2> DEFINE L == Len(nsos)
  <2>1. L \in Nat /\ i \in 1..(L + 1) /\ L + 1 \in 1..(L + 1) /\ i < L + 1
    BY LaidOut
  <2>2. /\ HeaderTyped(h) /\ Ordered(h) /\ z \in Nat /\ 0 < z /\ Extent(h) <= z
        /\ info.size[i] = z /\ info.nso[i] = info.base + f
    BY LaidOut
  <2>3. f \in Nat /\ At(L + 1) \in Nat /\ info.total = At(L + 1) /\ program.args \in Nat
    BY <2>1, LaidOut
  <2>4. f + z + (IF i = 1 THEN program.args ELSE 0) <= At(L + 1)
    BY <2>1, LaidOut
  <2>5. f + z <= At(L + 1)
    <3> HIDE DEF f, z, L
    <3> QED BY <2>2, <2>3, <2>4
  <2>6. info.base \in Nat
    BY DEF Laid
  <2> HIDE DEF f, z, L, h
  <2> QED BY <2>2, <2>3, <2>5, <2>6
<1>2. info.nso[i] - info.base = f
  <2> HIDE DEF f
  <2> QED BY <1>1
<1>3. LoadModule(mem, program, i) = c3
  BY <1>1, <1>2 DEF LoadModule, ClearUnused, HeaderOf
<1>4. /\ t \in Nat /\ r1 \in Nat /\ r2 \in Nat /\ w1 \in Nat /\ w2 \in Nat
      /\ t <= r1 /\ r1 <= r2 /\ r2 <= w1 /\ w1 <= w2 /\ w2 <= z
      /\ h.dst["text"] = 0 /\ h.size["text"] = t
      /\ h.size["ro"] \in Nat /\ h.size["rw"] \in Nat
      /\ r2 = r1 + h.size["ro"] /\ w2 = w1 + h.size["rw"]
  <2>0. Segments = {"text", "ro", "rw"}
    BY DEF Segments
  <2> DEFINE n == h.size["ro"]   k == h.size["rw"]   b == h.bss   e == Extent(h)
  <2>1. /\ h.size["text"] \in Nat /\ r1 \in Nat /\ n \in Nat /\ w1 \in Nat /\ k \in Nat
        /\ b \in Nat
    BY <1>1, <2>0 DEF HeaderTyped
  <2>2. h.dst["text"] = 0 /\ t <= r1 /\ r2 <= w1
    BY <1>1 DEF Ordered
  <2>3. t = h.dst["text"] + h.size["text"] /\ r2 = r1 + n /\ w2 = w1 + k
    BY DEF End
  <2>4. e = w2 + b
    BY <1>1, EndsOrdered
  <2>5. e <= z
    BY <1>1
  <2>6. t = h.size["text"]
    <3> HIDE DEF t
    <3> QED BY <2>1, <2>2, <2>3
  <2> HIDE DEF t, r1, r2, w1, w2, z, n, k, b, e
  <2>7. /\ t \in Nat /\ r2 \in Nat /\ w2 \in Nat /\ r1 <= r2 /\ w1 <= w2
    BY <2>1, <2>3, <2>6
  <2>8. w2 <= z
    BY <1>1, <2>1, <2>4, <2>5, <2>7
  <2> QED BY <2>1, <2>2, <2>3, <2>6, <2>7, <2>8 DEF n, k
<1>5. end \in Nat /\ f + z <= end
  <2> HIDE DEF f, z, h
  <2> QED BY <1>1
<1>6. /\ "text" \in Segments /\ "ro" \in Segments /\ "rw" \in Segments /\ D \subseteq Nat
      /\ PackedFits(h, "text") /\ PackedFits(h, "ro") /\ PackedFits(h, "rw")
  BY <1>1 DEF Segments
<1> HIDE DEF h, f, end, z
<1>4a. /\ t \in Nat /\ r1 \in Nat /\ r2 \in Nat /\ w1 \in Nat /\ w2 \in Nat
       /\ t <= r1 /\ r1 <= r2 /\ r2 <= w1 /\ w1 <= w2 /\ w2 <= z
       /\ f \in Nat /\ z \in Nat
  BY <1>1, <1>4
<1>7. /\ DOMAIN text = D
      /\ \A x \in D : /\ x < f => text[x] = mem[x]
                      /\ x >= f /\ x < f + t => text[x] = <<i, "text">>
  <2>1. f + h.dst["text"] + h.size["text"] <= end /\ f + h.dst["text"] = f
        /\ f + h.dst["text"] + h.size["text"] = f + t
    <3> HIDE DEF t
    <3>1. f + 0 = f /\ f + t <= end
      BY <1>1, <1>4, <1>5
    <3> QED BY <1>4, <3>1
  <2> HIDE DEF t, D
  <2>2. Loads(text, mem, h, i, f, "text")
    <3>1. DOMAIN mem \subseteq Nat
      BY <1>6 DEF D
    <3>2. f + h.dst["text"] + h.size["text"] <= end
      BY <2>1
    <3> QED BY Zenon, <1>1, <1>5, <1>6, <3>1, <3>2, SegmentLoaded
  <2> QED BY <2>1, <2>2 DEF D, Loads
<1>8. /\ DOMAIN ro = D
      /\ \A x \in D : /\ x < f + r1 => ro[x] = text[x]
                      /\ x >= f + r1 /\ x < f + r2 => ro[x] = <<i, "ro">>
  <2>1. f + r1 + h.size["ro"] <= end /\ f + r1 + h.size["ro"] = f + r2
    <3> DEFINE n == h.size["ro"]
    <3>1. n \in Nat /\ r2 = r1 + n /\ end \in Nat /\ f + z <= end
      BY <1>4, <1>5
    <3> HIDE DEF t, r1, r2, w1, w2, n
    <3>2. f + r1 + n <= end /\ f + r1 + n = f + r2
      BY <1>4a, <3>1
    <3> QED BY <3>2 DEF n
  <2> HIDE DEF D, text, r2
  <2>2. Loads(ro, text, h, i, f, "ro")
    <3>1. DOMAIN text \subseteq Nat
      BY <1>6, <1>7
    <3>2. f + h.dst["ro"] + h.size["ro"] <= end
      BY <2>1
    <3> QED BY Zenon, <1>1, <1>5, <1>6, <3>1, <3>2, SegmentLoaded
  <2> QED BY <1>7, <2>1, <2>2 DEF Loads
<1>9. /\ DOMAIN rw = D
      /\ \A x \in D : /\ x < f + w1 => rw[x] = ro[x]
                      /\ x >= f + w1 /\ x < f + w2 => rw[x] = <<i, "rw">>
  <2>1. f + w1 + h.size["rw"] <= end /\ f + w1 + h.size["rw"] = f + w2
    <3> DEFINE n == h.size["rw"]
    <3>1. n \in Nat /\ w2 = w1 + n /\ end \in Nat /\ f + z <= end
      BY <1>4, <1>5
    <3> HIDE DEF t, r1, r2, w1, w2, n
    <3>2. f + w1 + n <= end /\ f + w1 + n = f + w2
      BY <1>4a, <3>1
    <3> QED BY <3>2 DEF n
  <2> HIDE DEF D, text, ro, w2
  <2>2. Loads(rw, ro, h, i, f, "rw")
    <3>1. DOMAIN ro \subseteq Nat
      BY <1>6, <1>8
    <3>2. f + h.dst["rw"] + h.size["rw"] <= end
      BY <2>1
    <3> QED BY Zenon, <1>1, <1>5, <1>6, <3>1, <3>2, SegmentLoaded
  <2> QED BY <1>8, <2>1, <2>2 DEF Loads
<1> HIDE DEF text, ro, rw
<1>10. /\ DOMAIN c1 = D
       /\ \A x \in D : c1[x] = IF x >= f + t /\ x < f + r1 THEN Zero ELSE rw[x]
  <2>1. f + t + (r1 - t) = f + r1
    <3> HIDE DEF t, r1
    <3> QED BY <1>1, <1>4
  <2>2. \A x \in DOMAIN rw :
           c1[x] = IF x >= f + t /\ x < f + t + (r1 - t) THEN Zero ELSE rw[x]
    BY PutIs
  <2>3. DOMAIN c1 = DOMAIN rw
    BY PutIs
  <2> HIDE DEF c1, t, r1, D
  <2> QED BY <1>9, <2>1, <2>2, <2>3
<1> HIDE DEF c1
<1>11. /\ DOMAIN c2 = D
       /\ \A x \in D : c2[x] = IF x >= f + r2 /\ x < f + w1 THEN Zero ELSE c1[x]
  <2>1. f + r2 + (w1 - r2) = f + w1
    <3> HIDE DEF r2, w1
    <3> QED BY <1>1, <1>4
  <2>2. \A x \in DOMAIN c1 :
           c2[x] = IF x >= f + r2 /\ x < f + r2 + (w1 - r2) THEN Zero ELSE c1[x]
    BY PutIs
  <2>3. DOMAIN c2 = DOMAIN c1
    BY PutIs
  <2> HIDE DEF c2, w1, r2, D
  <2> QED BY <1>10, <2>1, <2>2, <2>3
<1> HIDE DEF c2
<1>12. /\ DOMAIN c3 = D
       /\ \A x \in D : c3[x] = IF x >= f + w2 /\ x < f + z THEN Zero ELSE c2[x]
  <2>1. f + w2 + (z - w2) = f + z
    <3> HIDE DEF w2
    <3> QED BY <1>1, <1>4
  <2>2. \A x \in DOMAIN c2 :
           c3[x] = IF x >= f + w2 /\ x < f + w2 + (z - w2) THEN Zero ELSE c2[x]
    BY PutIs
  <2>3. DOMAIN c3 = DOMAIN c2
    BY PutIs
  <2> HIDE DEF c3, w2, D
  <2> QED BY <1>11, <2>1, <2>2, <2>3
<1> HIDE DEF c3
<1>13. ASSUME NEW x \in D, x < f PROVE c3[x] = mem[x]
  <2> HIDE DEF t, r1, r2, w1, w2
  <2>1. x \in Nat
    BY <1>6
  <2> HIDE DEF D
  <2>2. /\ ~(x >= f + w2) /\ ~(x >= f + r2) /\ ~(x >= f + t) /\ x < f + w1 /\ x < f + r1
    BY <1>4a, <1>13, <2>1
  <2> QED BY <1>7, <1>8, <1>9, <1>10, <1>11, <1>12, <1>13, <2>2
<1>14. ASSUME NEW a \in 0..(z - 1) PROVE c3[f + a] = Belongs(i, a)
  <2> DEFINE x == f + a
  <2>1. x \in D /\ a \in Nat /\ a < z
    <3>1. a \in Nat /\ a < z
      BY <1>1
    <3>2. f + a \in 0..(info.total - 1)
      BY <1>1, <3>1
    <3> QED BY <3>1, <3>2
  <2>2. /\ \A s \in Segments : Covers(h, s, a) => Belongs(i, a) = <<i, s>>
        /\ (\A s \in Segments : ~Covers(h, s, a)) => Belongs(i, a) = Zero
    BY <1>1, <2>1, BelongsIs DEF h
  <2>3. /\ Covers(h, "text", a) <=> a < t
        /\ Covers(h, "ro", a) <=> a >= r1 /\ a < r2
        /\ Covers(h, "rw", a) <=> a >= w1 /\ a < w2
    <3>1. /\ Covers(h, "text", a) <=> a >= 0 /\ a < 0 + t
          /\ Covers(h, "ro", a) <=> a >= r1 /\ a < r1 + h.size["ro"]
          /\ Covers(h, "rw", a) <=> a >= w1 /\ a < w1 + h.size["rw"]
      BY <1>4 DEF Covers
    <3> HIDE DEF t, r1, r2, w1, w2
    <3>2. a >= 0 /\ 0 + t = t
      BY <1>4, <2>1
    <3> QED BY <1>4, <3>1, <3>2
  <2> HIDE DEF t, r1, r2, w1, w2, D
  <2>4. CASE a < t
    <3>1. Belongs(i, a) = <<i, "text">>
      BY <1>6, <2>2, <2>3, <2>4
    <3>2. /\ ~(x >= f + w2) /\ ~(x >= f + r2) /\ ~(x >= f + t) /\ x < f + w1 /\ x < f + r1
          /\ x >= f /\ x < f + t
      BY <1>4a, <2>1, <2>4
    <3> HIDE DEF x
    <3>3. c3[x] = <<i, "text">>
      BY <1>7, <1>8, <1>9, <1>10, <1>11, <1>12, <2>1, <3>2
    <3> QED BY <3>1, <3>3 DEF x
  <2>5. CASE a >= t /\ a < r1
    <3>1. Belongs(i, a) = Zero
      <4>1. ~(a < t) /\ ~(a >= r1) /\ ~(a >= w1)
        BY <1>4a, <2>1, <2>5
      <4>2. \A s \in Segments : ~Covers(h, s, a)
        BY <2>3, <4>1 DEF Segments
      <4> QED BY <2>2, <4>2
    <3>2. /\ ~(x >= f + w2) /\ ~(x >= f + r2) /\ x >= f + t /\ x < f + r1
      BY <1>4a, <2>1, <2>5
    <3> HIDE DEF x
    <3>3. c3[x] = Zero
      BY <1>10, <1>11, <1>12, <2>1, <3>2
    <3> QED BY <3>1, <3>3 DEF x
  <2>6. CASE a >= r1 /\ a < r2
    <3>1. Belongs(i, a) = <<i, "ro">>
      BY <1>6, <2>2, <2>3, <2>6
    <3>2. /\ ~(x >= f + w2) /\ ~(x >= f + r2) /\ ~(x < f + r1) /\ x < f + w1 /\ x >= f + r1
          /\ x < f + r2
      BY <1>4a, <2>1, <2>6
    <3> HIDE DEF x
    <3>3. c3[x] = <<i, "ro">>
      BY <1>8, <1>9, <1>10, <1>11, <1>12, <2>1, <3>2
    <3> QED BY <3>1, <3>3 DEF x
  <2>7. CASE a >= r2 /\ a < w1
    <3>1. Belongs(i, a) = Zero
      <4>1. ~(a < t) /\ ~(a < r2) /\ ~(a >= w1)
        BY <1>4a, <2>1, <2>7
      <4>2. \A s \in Segments : ~Covers(h, s, a)
        BY <2>3, <4>1 DEF Segments
      <4> QED BY <2>2, <4>2
    <3>2. /\ ~(x >= f + w2) /\ x >= f + r2 /\ x < f + w1
      BY <1>4a, <2>1, <2>7
    <3> HIDE DEF x
    <3>3. c3[x] = Zero
      BY <1>11, <1>12, <2>1, <3>2
    <3> QED BY <3>1, <3>3 DEF x
  <2>8. CASE a >= w1 /\ a < w2
    <3>1. Belongs(i, a) = <<i, "rw">>
      BY <1>6, <2>2, <2>3, <2>8
    <3>2. /\ ~(x >= f + w2) /\ ~(x < f + w1) /\ ~(x < f + r1) /\ x >= f + w1 /\ x < f + w2
      BY <1>4a, <2>1, <2>8
    <3> HIDE DEF x
    <3>3. c3[x] = <<i, "rw">>
      BY <1>9, <1>10, <1>11, <1>12, <2>1, <3>2
    <3> QED BY <3>1, <3>3 DEF x
  <2>9. CASE a >= w2
    <3>1. Belongs(i, a) = Zero
      <4>1. ~(a < t) /\ ~(a < r2) /\ ~(a < w2)
        BY <1>4a, <2>1, <2>9
      <4>2. \A s \in Segments : ~Covers(h, s, a)
        BY <2>3, <4>1 DEF Segments
      <4> QED BY <2>2, <4>2
    <3>2. x >= f + w2 /\ x < f + z
      BY <1>4a, <2>1, <2>9
    <3> HIDE DEF x
    <3>3. c3[x] = Zero
      BY <1>12, <2>1, <3>2
    <3> QED BY <3>1, <3>3 DEF x
  <2> QED BY <1>4, <2>1, <2>4, <2>5, <2>6, <2>7, <2>8, <2>9
<1> HIDE DEF D, t, r1, r2, w1, w2
<1> QED BY <1>3, <1>12, <1>13, <1>14 DEF D, f, z

\* The numbers of a module's layout.
LEMMA ModulePlaced ==
    ASSUME Laid, NEW i \in 1..Len(nsos)
    PROVE  /\ At(i) \in Nat /\ SizeOf(i) \in Nat /\ info.total \in Nat
           /\ At(i) + SizeOf(i) <= info.total
           /\ info.nso[i] - info.base = At(i) /\ info.size[i] = SizeOf(i)
           /\ HeaderTyped(HeaderOf(i)) /\ Ordered(HeaderOf(i))
           /\ SizeOf(i) <= AlignUp(Extent(HeaderOf(i)))
<1> DEFINE L == Len(nsos)   f == At(i)   z == SizeOf(i)   h == HeaderOf(i)
<1>1. L \in Nat /\ i \in 1..(L + 1) /\ L + 1 \in 1..(L + 1) /\ i < L + 1
  BY LaidOut
<1>2. /\ HeaderTyped(h) /\ Ordered(h) /\ z \in Nat /\ 0 < z /\ Extent(h) <= z
      /\ info.size[i] = z /\ info.nso[i] = info.base + f
  BY LaidOut
<1>3. f \in Nat /\ At(L + 1) \in Nat /\ info.total = At(L + 1) /\ program.args \in Nat
  BY <1>1, LaidOut
<1>4. f + z + (IF i = 1 THEN program.args ELSE 0) <= At(L + 1)
  BY <1>1, LaidOut
<1>5. info.base \in Nat
  BY DEF Laid
<1>6. f + z <= info.total /\ info.nso[i] - info.base = f
  <2> HIDE DEF f, z, L
  <2> QED BY <1>2, <1>3, <1>4, <1>5
<1>7. z <= AlignUp(Extent(h))
  <2> DEFINE x == AlignUp(Extent(h))
  <2>1. Extent(h) \in Nat
    <3>1. "rw" \in Segments /\ h.bss \in Nat
      BY <1>2 DEF HeaderTyped, Segments
    <3>2. End(h, "rw") \in Nat /\ Extent(h) = End(h, "rw") + h.bss
      BY <1>2, <3>1, EndsOrdered
    <3> QED BY <3>1, <3>2
  <2>2. x \in Nat /\ ModuleSizeMax \in Nat \ {0}
    BY <2>1, AlignUpIs, CreationAssumption
  <2>3. z = x % ModuleSizeMax
    BY DEF SizeOf, NsoSize, Aligned, HeaderOf
  <2> HIDE DEF x, z
  <2>4. x % ModuleSizeMax <= x
    <3> DEFINE q == x \div ModuleSizeMax   r == x % ModuleSizeMax
    <3>1. q \in Nat /\ r \in Nat /\ x = ModuleSizeMax * q + r /\ ModuleSizeMax * q \in Nat
      BY <2>2
    <3> HIDE DEF q, r
    <3>2. r <= x
      <4> DEFINE y == ModuleSizeMax * q
      <4>1. y \in Nat /\ x = y + r
        BY <3>1
      <4> HIDE DEF y
      <4> QED BY <3>1, <4>1
    <3> QED BY <3>2 DEF r
  <2> QED BY <2>3, <2>4 DEF x
<1> QED BY <1>1, <1>2, <1>3, <1>6, <1>7

\* A module has the permissions of its segments, and what is before it keeps
\* its own.
PermissionsOf(perm, i) ==
    \A a \in 0..(SizeOf(i) - 1) :
        /\ Belongs(i, a) = <<i, "text">> => perm[At(i) + a] = "ReadExecute"
        /\ Belongs(i, a) = <<i, "ro">> => perm[At(i) + a] = "Read"
        /\ Belongs(i, a) = <<i, "rw">> \/ a >= End(HeaderOf(i), "rw") =>
              perm[At(i) + a] = "ReadWrite"

\* SetPermissions gives a module its own, and leaves what is before it alone.
LEMMA PermissionsSet ==
    ASSUME Laid, NEW perm, DOMAIN perm = 0..(info.total - 1), NEW i \in 1..Len(nsos)
    PROVE  /\ DOMAIN SetPermissions(perm, program, i) = DOMAIN perm
           /\ \A x \in DOMAIN perm : x < At(i) => SetPermissions(perm, program, i)[x] = perm[x]
           /\ PermissionsOf(SetPermissions(perm, program, i), i)
<1> DEFINE h == HeaderOf(i)   f == At(i)   z == SizeOf(i)
           t == h.size["text"]   r1 == h.dst["ro"]   r == h.size["ro"]
           w1 == h.dst["rw"]     w == h.size["rw"] + h.bss
           tt == AlignUp(t)      rr == AlignUp(r)    ww == AlignUp(w)
           o == h.dst["text"]
           p1 == Put(perm, f + o, tt, "ReadExecute")
           p2 == Put(p1, f + r1, rr, "Read")
           p3 == Put(p2, f + w1, ww, "ReadWrite")
           D == DOMAIN perm
<1>1. /\ f \in Nat /\ z \in Nat /\ info.total \in Nat /\ f + z <= info.total
      /\ info.nso[i] - info.base = f /\ HeaderTyped(h) /\ Ordered(h)
      /\ z <= AlignUp(Extent(h))
  BY ModulePlaced
<1>2. o = 0 /\ w1 % PageSize = 0
  BY <1>1 DEF Ordered
<1>3. SetPermissions(perm, program, i) = p3
  BY <1>1, <1>2 DEF SetPermissions, HeaderOf
<1>4. /\ t \in Nat /\ r1 \in Nat /\ r \in Nat /\ w1 \in Nat /\ w \in Nat
      /\ h.size["rw"] \in Nat /\ h.size["rw"] <= w
  <2>1. /\ t \in Nat /\ r1 \in Nat /\ r \in Nat /\ w1 \in Nat /\ h.size["rw"] \in Nat
        /\ h.bss \in Nat
    BY <1>1 DEF HeaderTyped, Segments
  <2> QED BY <2>1
<1>5. t <= r1 /\ r1 + r <= w1
  <2>1. 0 + t <= r1 /\ r1 + r <= w1
    BY <1>1, <1>2 DEF Ordered, End
  <2> HIDE DEF t
  <2> QED BY <1>4, <2>1
<1>6. /\ tt \in Nat /\ t <= tt /\ rr \in Nat /\ r <= rr /\ ww \in Nat
      /\ z <= w1 + ww
  <2>1. tt \in Nat /\ t <= tt /\ rr \in Nat /\ r <= rr /\ ww \in Nat
    BY <1>4, AlignUpIs
  <2>2. Extent(h) = w1 + w
    <3>1. Extent(h) = End(h, "rw") + h.bss
      BY <1>1, EndsOrdered
    <3>2. End(h, "rw") = w1 + h.size["rw"] /\ h.bss \in Nat
      BY <1>1 DEF End, HeaderTyped
    <3> DEFINE n == h.size["rw"]   b == h.bss   e == End(h, "rw")
    <3>3. n \in Nat /\ b \in Nat /\ e = w1 + n /\ w = n + b /\ w1 \in Nat
      BY <1>4, <3>2
    <3> HIDE DEF n, b, e, w, w1
    <3>4. e + b = w1 + w
      BY <3>3
    <3> QED BY <3>1, <3>4 DEF e, b
  <2>3. AlignUp(w1 + w) = w1 + ww
    BY <1>2, <1>4, AlignUpIs
  <2> QED BY <1>1, <2>1, <2>2, <2>3
<1> HIDE DEF f, z, o, t, r1, r, w1, w, tt, rr, ww
<1>7. /\ DOMAIN p1 = D
      /\ \A x \in D : p1[x] = IF x >= f /\ x < f + tt THEN "ReadExecute" ELSE perm[x]
  <2>1. \A x \in DOMAIN perm :
           p1[x] = IF x >= f + o /\ x < f + o + tt THEN "ReadExecute" ELSE perm[x]
    BY Zenon DEF Put
  <2>2. DOMAIN p1 = DOMAIN perm
    BY PutIs
  <2>3. f + o = f
    BY <1>1, <1>2
  <2> HIDE DEF p1
  <2> QED BY <2>1, <2>2, <2>3
<1> HIDE DEF p1
<1>8. /\ DOMAIN p2 = D
      /\ \A x \in D : p2[x] = IF x >= f + r1 /\ x < f + r1 + rr THEN "Read" ELSE p1[x]
  <2>1. \A x \in DOMAIN p1 : p2[x] = IF x >= f + r1 /\ x < f + r1 + rr THEN "Read" ELSE p1[x]
    BY PutIs
  <2>2. DOMAIN p2 = DOMAIN p1
    BY PutIs
  <2> HIDE DEF p2, D
  <2> QED BY <1>7, <2>1, <2>2
<1> HIDE DEF p2
<1>9. /\ DOMAIN p3 = D
      /\ \A x \in D : p3[x] = IF x >= f + w1 /\ x < f + w1 + ww THEN "ReadWrite" ELSE p2[x]
  <2>1. \A x \in DOMAIN p2 :
           p3[x] = IF x >= f + w1 /\ x < f + w1 + ww THEN "ReadWrite" ELSE p2[x]
    BY PutIs
  <2>2. DOMAIN p3 = DOMAIN p2
    BY PutIs
  <2> HIDE DEF p3, D
  <2> QED BY <1>8, <2>1, <2>2
<1> HIDE DEF p3
<1>10. ASSUME NEW x \in D, x < f PROVE p3[x] = perm[x]
  <2>1. x \in Nat
    BY <1>1
  <2> HIDE DEF D
  <2>2. ~(x >= f + w1) /\ ~(x >= f + r1) /\ ~(x >= f)
    BY <1>1, <1>4, <1>10, <2>1
  <2> QED BY <1>7, <1>8, <1>9, <2>2
<1>11. ASSUME NEW a \in 0..(z - 1)
       PROVE  /\ Belongs(i, a) = <<i, "text">> => p3[f + a] = "ReadExecute"
              /\ Belongs(i, a) = <<i, "ro">> => p3[f + a] = "Read"
              /\ Belongs(i, a) = <<i, "rw">> \/ a >= End(h, "rw") => p3[f + a] = "ReadWrite"
  <2> DEFINE x == f + a
  <2>1. x \in D /\ a \in Nat /\ a < z
    <3>1. a \in Nat /\ a < z
      BY <1>1
    <3>2. f + a \in 0..(info.total - 1)
      BY <1>1, <3>1
    <3> QED BY <3>1, <3>2
  <2>2. /\ \A s \in Segments : Covers(h, s, a) => Belongs(i, a) = <<i, s>>
        /\ (\A s \in Segments : ~Covers(h, s, a)) => Belongs(i, a) = Zero
    BY <1>1, <2>1, BelongsIs DEF h
  <2>3. Segments = {"text", "ro", "rw"}
    BY DEF Segments
  <2>4. /\ Covers(h, "text", a) <=> a >= 0 /\ a < 0 + t
        /\ Covers(h, "ro", a) <=> a >= r1 /\ a < r1 + r
        /\ Covers(h, "rw", a) <=> a >= w1 /\ a < w1 + h.size["rw"]
    BY <1>2 DEF Covers, o, t, r1, r, w1
  <2>5. ASSUME NEW s \in Segments, Belongs(i, a) = <<i, s>>
        PROVE  Covers(h, s, a)
    <3>1. \A u \in Segments : u # s => <<i, u>> # <<i, s>>
      OBVIOUS
    <3>2. Zero # <<i, s>>
      BY <2>3 DEF Zero
    <3> QED BY <2>2, <2>5, <3>1, <3>2
  <2> HIDE DEF D
  <2>6. ASSUME Belongs(i, a) = <<i, "text">> PROVE p3[x] = "ReadExecute"
    <3>1. Covers(h, "text", a)
      BY <2>3, <2>5, <2>6
    <3>2. a < t
      BY <1>4, <2>4, <3>1
    <3>3. ~(x >= f + w1) /\ ~(x >= f + r1) /\ x >= f /\ x < f + tt
      BY <1>1, <1>4, <1>5, <1>6, <2>1, <3>2
    <3> HIDE DEF x
    <3> QED BY <1>7, <1>8, <1>9, <2>1, <3>3
  <2>7. ASSUME Belongs(i, a) = <<i, "ro">> PROVE p3[x] = "Read"
    <3>1. Covers(h, "ro", a)
      BY <2>3, <2>5, <2>7
    <3>2. a >= r1 /\ a < r1 + r
      BY <2>4, <3>1
    <3>3. ~(x >= f + w1) /\ x >= f + r1 /\ x < f + r1 + rr
      BY <1>1, <1>4, <1>5, <1>6, <2>1, <3>2
    <3> HIDE DEF x
    <3> QED BY <1>8, <1>9, <2>1, <3>3
  <2>8. ASSUME Belongs(i, a) = <<i, "rw">> \/ a >= End(h, "rw") PROVE p3[x] = "ReadWrite"
    <3>1. a >= w1
      <4>1. CASE Belongs(i, a) = <<i, "rw">>
        <5>1. Covers(h, "rw", a)
          BY <2>3, <2>5, <4>1
        <5> QED BY <2>4, <5>1
      <4>2. CASE a >= End(h, "rw")
        <5> DEFINE n == h.size["rw"]
        <5>1. a >= w1 + n /\ n \in Nat
          BY <1>4, <4>2 DEF End, w1
        <5> HIDE DEF n
        <5> QED BY <1>4, <2>1, <5>1
      <4> QED BY <2>8, <4>1, <4>2
    <3>2. x >= f + w1 /\ x < f + w1 + ww
      BY <1>1, <1>4, <1>6, <2>1, <3>1
    <3> HIDE DEF x
    <3> QED BY <1>9, <2>1, <3>2
  <2> QED BY <2>6, <2>7, <2>8
<1> HIDE DEF D
<1> QED BY <1>3, <1>9, <1>10, <1>11 DEF PermissionsOf, D, f, z

\* The arguments lie behind the first module and before the second.
LEMMA ArgumentsApart ==
    ASSUME Laid, program.args # 0, NEW i \in 1..Len(nsos), NEW a \in 0..(SizeOf(i) - 1)
    PROVE  LET from == info.args - info.base
               x == At(i) + a
           IN  ~(x >= from /\ x < from + program.args)
<1> DEFINE L == Len(nsos)   z1 == SizeOf(1)   g == program.args   f == At(i)
<1>1. /\ L \in Nat /\ 1 \in 1..(L + 1) /\ i \in 1..(L + 1) /\ i \in Nat /\ 1 \in 1..L
  <2>1. L \in Nat /\ 1 <= L
    BY LaidOut
  <2> QED BY <2>1
<1>2. g \in Nat /\ At(1) = 0 /\ info.args = info.base + z1
  BY LaidOut
<1>3. f \in Nat /\ z1 \in Nat /\ SizeOf(i) \in Nat /\ info.base \in Nat
  BY <1>1, ModulePlaced DEF Laid
<1>4. info.args - info.base = z1
  <2> HIDE DEF z1
  <2> QED BY <1>2, <1>3
<1>5. CASE i = 1
  <2>1. f + a < z1
    <3>1. f = 0 /\ a \in 0..(z1 - 1)
      BY <1>2, <1>5
    <3> HIDE DEF f, z1
    <3> QED BY <1>3, <3>1
  <2> HIDE DEF f, z1, g
  <2>2. ~(f + a >= z1)
    BY <1>3, <2>1
  <2> QED BY <1>4, <2>2 DEF f
<1>6. CASE i # 1
  <2>1. At(1) + SizeOf(1) + (IF 1 = 1 THEN program.args ELSE 0) <= At(i)
    <3>1. 1 < i
      BY <1>1, <1>6
    <3> QED BY <1>1, <3>1, LaidOut
  <2>2. 0 + z1 + g <= f
    BY <1>2, <2>1
  <2> HIDE DEF f, z1, g
  <2>3. ~(f + a < z1 + g)
    BY <1>2, <1>3, <2>2
  <2> QED BY <1>4, <2>3 DEF f, g
<1> QED BY <1>5, <1>6

-----------------------------------------------------------------------------
(* The inductive invariant. *)

\* Which kind of process this is is known once its meta has been validated, and
\* every module so far went through its patchers.
Marked ==
    /\ stage \in {"headers", "create", "load", "register", "done"} =>
          /\ is_pcv = (program.id = "Pcv") /\ is_ptm = (program.id = "Ptm")
    /\ stage = "browser" => program.browser
    /\ \A i \in DOMAIN patched : patched[i] = {program.id} \cap {"Pcv", "Ptm"}

\* There is a process from its creation on, and its pin waits for it.
Kept ==
    /\ stage \in {"load", "register", "done"} <=> process = "open"
    /\ stage \in {"meta", "browser", "headers", "create", "load", "register", "failed"} =>
          pins[pin] = "pinned"
    /\ stage = "done" => pins[pin] = program.id

\* The modules are looked up, checked, and then loaded one by one.
Listed ==
    /\ nsos \in Seq(DOMAIN program.files)
    /\ stage \in {"idle", "meta", "browser", "headers"} => nsos = <<>>
    /\ stage \in {"idle", "meta", "browser", "headers", "create"} => patched = <<>>
    /\ stage = "create" => CheckAutoLoad(program, nsos)
    /\ stage \in {"register", "done"} => Len(patched) = Len(nsos)

\* Those that are loaded are right to the last unit.
ModuleRight(i) ==
    /\ \A a \in 0..(SizeOf(i) - 1) : memory[At(i) + a] = Belongs(i, a)
    /\ PermissionsOf(permission, i)

InMemory ==
    stage \in {"load", "register", "done"} =>
        /\ Laid
        /\ DOMAIN memory = 0..(info.total - 1) /\ DOMAIN permission = 0..(info.total - 1)
        /\ \A i \in 1..Len(patched) : ModuleRight(i)

CreationIInv == CreationTypeOK /\ Marked /\ Kept /\ Listed /\ InMemory

\* The initial state.
LEMMA CreationStarts == CreationInit => CreationIInv
<1> SUFFICES ASSUME CreationInit PROVE CreationIInv
  OBVIOUS
<1>1. stage = "idle" /\ process = "none" /\ patched = <<>> /\ nsos = <<>>
  BY DEF CreationInit
<1>2. program \in Programs /\ pin \in PinIds
  BY ProgramsAssumption DEF CreationInit
<1>3. CreationTypeOK
  <2>1. pins \in [PinIds -> {"free", "pinned"} \cup ProgramIds] /\ launches \in 0..MaxLaunches
    BY CreationAssumption DEF CreationInit
  <2>2. patched \in Seq(SUBSET {"Pcv", "Ptm"}) /\ Len(patched) <= Len(nsos)
    BY <1>1
  <2> QED BY <1>1, <1>2, <2>1, <2>2 DEF CreationInit, CreationTypeOK
<1>4. Marked
  BY <1>1 DEF Marked
<1>5. Kept
  BY <1>1 DEF Kept
<1>6. Listed
  BY <1>1 DEF Listed
<1>7. InMemory
  BY <1>1 DEF InMemory
<1> QED BY <1>3, <1>4, <1>5, <1>6, <1>7 DEF CreationIInv

\* What is as it was stays right.
LEMMA SameLayout ==
    ASSUME UNCHANGED <<program, nsos, info>>
    PROVE  /\ Laid' = Laid
           /\ \A i : At(i)' = At(i) /\ SizeOf(i)' = SizeOf(i)
           /\ \A i : HeaderOf(i)' = HeaderOf(i)
           /\ \A i, a : Belongs(i, a)' = Belongs(i, a)
<1>1. Laid' = Laid
  BY DEF Laid
<1>2. \A i : At(i)' = At(i) /\ SizeOf(i)' = SizeOf(i) /\ HeaderOf(i)' = HeaderOf(i)
  BY DEF At, SizeOf, HeaderOf
<1>3. \A i, a : Belongs(i, a)' = Belongs(i, a)
  BY DEF Belongs
<1> QED BY <1>1, <1>2, <1>3

\* What was loaded stays right when nothing is written.
LEMMA SameMemory ==
    ASSUME UNCHANGED <<program, nsos, info, memory, permission, patched>>,
           stage' \in {"load", "register", "done"} => stage \in {"load", "register", "done"},
           InMemory
    PROVE  InMemory'
<1> SUFFICES ASSUME stage' \in {"load", "register", "done"} PROVE InMemory'
  BY DEF InMemory
<1>1. /\ Laid
      /\ DOMAIN memory = 0..(info.total - 1) /\ DOMAIN permission = 0..(info.total - 1)
      /\ \A i \in 1..Len(patched) : ModuleRight(i)
  BY DEF InMemory
<1>2. Laid'
  BY <1>1, SameLayout
<1>3. ASSUME NEW i PROVE ModuleRight(i)' = ModuleRight(i)
  BY SameLayout DEF ModuleRight, PermissionsOf
<1>4. \A i \in 1..Len(patched') : ModuleRight(i)'
  BY <1>1, <1>3
<1> QED BY <1>1, <1>2, <1>4 DEF InMemory

\* Pins come and go between calls.
LEMMA PinsKept == CreationIInv /\ (PinProgram \/ UnpinProgram) => CreationIInv'
<1> SUFFICES ASSUME CreationIInv, PinProgram \/ UnpinProgram PROVE CreationIInv'
  OBVIOUS
<1>1. /\ stage = "idle" /\ UNCHANGED <<stage, call, made, launches>>
      /\ \E q \in PinIds, v \in {"free", "pinned"} : pins' = [pins EXCEPT ![q] = v]
  BY DEF PinProgram, UnpinProgram
<1>2. CreationTypeOK /\ Marked /\ Kept /\ Listed /\ InMemory
  BY DEF CreationIInv
<1>3. CreationTypeOK'
  BY <1>1, <1>2 DEF CreationTypeOK, call, made
<1>4. Marked'
  BY <1>1, <1>2 DEF Marked, call, made
<1>5. Kept'
  BY <1>1, <1>2 DEF Kept, call, made
<1>6. Listed'
  BY <1>1, <1>2 DEF Listed, call, made
<1>7. InMemory'
  BY <1>1 DEF InMemory
<1> QED BY <1>3, <1>4, <1>5, <1>6, <1>7 DEF CreationIInv

\* A call begins with nothing found and nothing made.
LEMMA CallBegins == CreationIInv /\ CreateProcess => CreationIInv'
<1> SUFFICES ASSUME CreationIInv, CreateProcess PROVE CreationIInv'
  OBVIOUS
<1>1. /\ stage = "idle" /\ stage' = "meta" /\ program' \in Programs
      /\ launches < MaxLaunches /\ launches' = launches + 1
      /\ flags' \in {{}, {"DisableAslr"}} /\ pins' = pins
      /\ pin' \in PinIds /\ pins[pin'] = "pinned"
      /\ UNCHANGED <<is_pcv, is_ptm, nsos, info, process, memory, permission, patched>>
  BY DEF CreateProcess, made
<1>2. CreationTypeOK /\ Marked /\ Kept /\ Listed /\ InMemory
  BY DEF CreationIInv
<1>3. nsos = <<>> /\ patched = <<>> /\ process # "open"
  BY <1>1, <1>2 DEF Listed, Kept
<1>4. CreationTypeOK'
  <2>1. launches' \in 0..MaxLaunches
    BY <1>1, <1>2, CreationAssumption DEF CreationTypeOK
  <2> QED BY <1>1, <1>2, <2>1 DEF CreationTypeOK
<1>5. Marked'
  BY <1>1, <1>3 DEF Marked
<1>6. Kept'
  BY <1>1, <1>3 DEF Kept
<1>7. Listed'
  BY <1>1, <1>3 DEF Listed
<1>8. InMemory'
  BY <1>1 DEF InMemory
<1> QED BY <1>4, <1>5, <1>6, <1>7, <1>8 DEF CreationIInv

\* A call that fails before it has a process, or with one it closes.
Failed ==
    /\ Fail /\ stage \notin {"idle", "failed", "done"}
    /\ UNCHANGED <<program, pin, flags, patched, pins, launches>>
    /\ is_pcv' \in BOOLEAN /\ is_ptm' \in BOOLEAN
    /\ nsos' \in Seq(DOMAIN program.files) /\ Len(patched) <= Len(nsos')

\* It leaves no process behind, and its pin waits.
LEMMA FailureKept == CreationIInv /\ Failed => CreationIInv'
<1> SUFFICES ASSUME CreationIInv, Failed PROVE CreationIInv'
  OBVIOUS
<1>1. CreationTypeOK /\ Marked /\ Kept /\ Listed /\ InMemory
  BY DEF CreationIInv
<1>2. /\ stage' = "failed" /\ process' = IF process = "open" THEN "closed" ELSE process
      /\ stage \notin {"idle", "failed", "done"}
      /\ UNCHANGED <<program, pin, flags, patched, pins, launches>>
      /\ is_pcv' \in BOOLEAN /\ is_ptm' \in BOOLEAN
      /\ nsos' \in Seq(DOMAIN program.files) /\ Len(patched) <= Len(nsos')
  BY DEF Failed, Fail
<1>3. CreationTypeOK'
  BY <1>1, <1>2 DEF CreationTypeOK
<1>4. Marked'
  BY <1>1, <1>2 DEF Marked
<1>5. Kept'
  <2>1. process' # "open"
    BY <1>2
  <2>2. pins[pin] = "pinned"
    BY <1>1, <1>2 DEF Kept, CreationTypeOK
  <2> QED BY <1>2, <2>1, <2>2 DEF Kept
<1>6. Listed'
  BY <1>2 DEF Listed
<1>7. InMemory'
  BY <1>2 DEF InMemory
<1> QED BY <1>3, <1>4, <1>5, <1>6, <1>7 DEF CreationIInv

\* A call into the operating system that fails is such a failure.
LEMMA GivingUpKept == CreationIInv /\ GiveUp => CreationIInv'
<1> SUFFICES ASSUME CreationIInv, GiveUp PROVE CreationIInv'
  OBVIOUS
<1>1. CreationTypeOK /\ Listed
  BY DEF CreationIInv
<1>2. Failed
  BY <1>1 DEF Failed, GiveUp, CreationTypeOK, Listed, call
<1> QED BY <1>2, FailureKept

\* The meta, and the browser's.
LEMMA MetaKept == CreationIInv /\ (ValidateMeta \/ ValidateBrowserMeta) => CreationIInv'
<1> SUFFICES ASSUME CreationIInv, ValidateMeta \/ ValidateBrowserMeta PROVE CreationIInv'
  OBVIOUS
<1>1. CreationTypeOK /\ Marked /\ Kept /\ Listed /\ InMemory
  BY DEF CreationIInv
<1>2. /\ stage \in {"meta", "browser"}
      /\ UNCHANGED <<program, pin, flags, nsos, info, memory, permission, patched, pins, launches>>
      /\ is_pcv' \in BOOLEAN /\ is_ptm' \in BOOLEAN
  BY <1>1 DEF ValidateMeta, ValidateBrowserMeta, NoteKind, CreationTypeOK
<1>3. nsos = <<>> /\ patched = <<>> /\ pins[pin] = "pinned" /\ process # "open"
  BY <1>1, <1>2 DEF Listed, Kept
<1>4. CASE Fail
  <2>1. Failed
    BY <1>1, <1>2, <1>4 DEF Failed, CreationTypeOK, Listed
  <2> QED BY <2>1, FailureKept
<1>5. CASE ~Fail
  <2>1. /\ stage' \in {"browser", "headers"} /\ process' = process
        /\ stage' = "browser" => program.browser
        /\ stage' = "headers" => /\ is_pcv' = (program.id = "Pcv")
                                 /\ is_ptm' = (program.id = "Ptm")
    <3>1. CASE ValidateMeta
      BY <1>5, <3>1 DEF ValidateMeta, NoteKind
    <3>2. CASE ValidateBrowserMeta
      <4>1. program.browser /\ program \in Programs
        BY <1>1, <3>2 DEF Marked, CreationTypeOK, ValidateBrowserMeta
      <4>2. program.id # "Pcv" /\ program.id # "Ptm"
        BY <4>1, CreationAssumption
      <4>3. is_pcv' = FALSE /\ is_ptm' = FALSE
        BY <3>2 DEF ValidateBrowserMeta, NoteKind
      <4> QED BY <1>5, <3>2, <4>2, <4>3 DEF ValidateBrowserMeta
    <3> QED BY <3>1, <3>2
  <2>2. CreationTypeOK'
    BY <1>1, <1>2, <2>1 DEF CreationTypeOK
  <2>3. Marked'
    BY <1>1, <1>2, <2>1 DEF Marked
  <2>4. Kept'
    BY <1>2, <1>3, <2>1 DEF Kept
  <2>5. Listed'
    BY <1>1, <1>2, <1>3, <2>1 DEF Listed
  <2>6. InMemory'
    BY <2>1 DEF InMemory
  <2> QED BY <2>2, <2>3, <2>4, <2>5, <2>6 DEF CreationIInv
<1> QED BY <1>4, <1>5

\* The headers.
LEMMA HeadersKept == CreationIInv /\ LoadHeaders => CreationIInv'
<1> SUFFICES ASSUME CreationIInv, LoadHeaders PROVE CreationIInv'
  OBVIOUS
<1>1. CreationTypeOK /\ Marked /\ Kept /\ Listed /\ InMemory
  BY DEF CreationIInv
<1>2. /\ stage = "headers" /\ nsos' = LoadAutoLoadHeaders(program)
      /\ UNCHANGED <<program, pin, flags, is_pcv, is_ptm, info, memory, permission, patched,
                     pins, launches>>
      /\ IF CheckAutoLoad(program, nsos') THEN stage' = "create" /\ UNCHANGED process ELSE Fail
  BY DEF LoadHeaders
<1>3. nsos' \in Seq(DOMAIN program.files)
  BY <1>2, HeadersAreFiles
<1>4. patched = <<>> /\ pins[pin] = "pinned" /\ process # "open" /\ Len(patched) <= Len(nsos')
  <2>1. patched = <<>> /\ pins[pin] = "pinned" /\ process # "open"
    BY <1>1, <1>2 DEF Listed, Kept
  <2>2. Len(nsos') \in Nat /\ Len(<<>>) = 0
    BY <1>3, LenProperties
  <2> QED BY <2>1, <2>2
<1>5. CASE ~CheckAutoLoad(program, nsos')
  <2>1. Failed
    BY <1>1, <1>2, <1>3, <1>4, <1>5 DEF Failed, CreationTypeOK
  <2> QED BY <2>1, FailureKept
<1>6. CASE CheckAutoLoad(program, nsos')
  <2>1. stage' = "create" /\ process' = process
    BY <1>2, <1>6
  <2>2. CreationTypeOK'
    BY <1>1, <1>2, <1>4, <2>1 DEF CreationTypeOK
  <2>3. Marked'
    BY <1>1, <1>2, <2>1 DEF Marked
  <2>4. Kept'
    BY <1>2, <1>4, <2>1 DEF Kept
  <2>5. Listed'
    BY <1>2, <1>3, <1>4, <1>6, <2>1 DEF Listed
  <2>6. InMemory'
    BY <2>1 DEF InMemory
  <2> QED BY <2>2, <2>3, <2>4, <2>5, <2>6 DEF CreationIInv
<1> QED BY <1>5, <1>6

\* Every base leaves room for the code inside the window.
LEMMA BasesFit ==
    ASSUME NEW m \in Programs, NEW names \in Seq(DOMAIN m.files), ParameterIsValid(m),
           LayoutFits(m, names), NEW ldr, NEW b \in BasesOf(m, names, ldr)
    PROVE  /\ WindowOf(m).start \in Nat /\ WindowOf(m).size \in Nat /\ b \in Nat
           /\ WindowOf(m).start <= b
           /\ b + TotalSize(m, names) <= WindowOf(m).start + WindowOf(m).size
           /\ TotalSize(m, names) \in Nat
<1> DEFINE st == WindowOf(m).start   sz == WindowOf(m).size   t == TotalSize(m, names)
           free == sz - t
<1>1. st \in Nat /\ sz \in Nat
  <2>1. m.space \in DOMAIN Window /\ "32Bit" \in DOMAIN Window
    BY ProgramsAssumption DEF ParameterIsValid
  <2>2. \A s \in DOMAIN Window : Window[s].start \in Nat /\ Window[s].size \in Nat
    BY ProgramsAssumption
  <2> QED BY <2>1, <2>2 DEF WindowOf
<1>2. t \in Nat /\ t <= sz
  <2>1. OffsetsTo(NsoOffset(m, names), m, names, Len(names) + 1)
    BY OffsetsAre
  <2>2. Len(names) \in Nat
    BY LenProperties
  <2>3. Len(names) + 1 \in 1..(Len(names) + 1)
    BY <2>2
  <2>4. t \in Nat
    BY <2>1, <2>3 DEF OffsetsTo, TotalSize
  <2> QED BY <2>4 DEF LayoutFits
<1>3. BlockSize \in Nat \ {0}
  BY CreationAssumption
<1>4. free \in Nat
  <2> HIDE DEF t, sz
  <2> QED BY <1>1, <1>2
<1>5. \E k \in 0..(free \div BlockSize) : b = st + k * BlockSize
  <2>1. 0 \in 0..(free \div BlockSize)
    <3> HIDE DEF free
    <3>1. free \div BlockSize \in Nat
      BY <1>3, <1>4
    <3> QED BY <3>1
  <2>2. {0} \subseteq 0..(free \div BlockSize)
    <3> HIDE DEF free
    <3> QED BY <2>1
  <2>3. PICK k \in IF "EnableAslr" \in CreateProcessFlags(m, ldr)
                   THEN 0..(free \div BlockSize) ELSE {0} : b = st + k * BlockSize
    BY DEF BasesOf
  <2> HIDE DEF free, st
  <2>4. k \in 0..(free \div BlockSize)
    BY <2>2, <2>3
  <2> QED BY <2>3, <2>4
<1>6. PICK k \in 0..(free \div BlockSize) : b = st + k * BlockSize
  BY <1>5
<1> HIDE DEF free
<1>7. k * BlockSize \in Nat /\ k * BlockSize <= free
  <2> DEFINE q == free \div BlockSize   r == free % BlockSize
  <2>1. q \in Nat /\ r \in Nat /\ free = BlockSize * q + r
    BY <1>3, <1>4
  <2> HIDE DEF q, r
  <2>2. k \in Nat /\ k <= q
    BY <1>6, <2>1 DEF q
  <2>3. PICK d \in Nat : q = k + d
    <3>1. q - k \in Nat /\ q = k + (q - k)
      BY <2>1, <2>2
    <3> QED BY <3>1
  <2>4. BlockSize * q = BlockSize * k + BlockSize * d
    BY <1>3, <2>2, <2>3
  <2>5. BlockSize * k \in Nat /\ BlockSize * d \in Nat /\ k * BlockSize = BlockSize * k
    BY <1>3, <2>2, <2>3
  <2> QED BY <2>1, <2>4, <2>5
<1>8. free = sz - t
  BY DEF free
<1> DEFINE o == k * BlockSize
<1>9. b = st + o /\ o \in Nat /\ o <= free
  BY <1>6, <1>7
<1> HIDE DEF o, st, sz, t
<1>10. b \in Nat /\ st <= b /\ b + t <= st + sz
  BY <1>1, <1>2, <1>8, <1>9
<1> QED BY <1>1, <1>2, <1>10 DEF st, sz, t

\* The new process.
LEMMA CreateKept == CreationIInv /\ Create => CreationIInv'
<1> SUFFICES ASSUME CreationIInv, Create PROVE CreationIInv'
  OBVIOUS
<1>1. CreationTypeOK /\ Marked /\ Kept /\ Listed /\ InMemory
  BY DEF CreationIInv
<1>2. /\ stage = "create"
      /\ UNCHANGED <<program, pin, flags, is_pcv, is_ptm, nsos, patched, pins, launches>>
  BY DEF Create
<1>3. /\ nsos \in Seq(DOMAIN program.files) /\ patched = <<>> /\ CheckAutoLoad(program, nsos)
      /\ pins[pin] = "pinned" /\ process # "open"
  BY <1>1, <1>2 DEF Listed, Kept
<1>4. CASE ~(ParameterIsValid(program) /\ LayoutFits(program, nsos))
  <2>1. Fail
    BY <1>4 DEF Create
  <2>2. Failed
    BY <1>1, <1>2, <1>3, <2>1 DEF Failed, CreationTypeOK
  <2> QED BY <2>2, FailureKept
<1>5. CASE ParameterIsValid(program) /\ LayoutFits(program, nsos)
  <2>1. /\ process' = "open" /\ stage' = "load"
        /\ memory' = [a \in 0..(info'.total - 1) |-> Zero]
        /\ permission' = [a \in 0..(info'.total - 1) |-> "none"]
    BY <1>5 DEF Create
  <2>2. PICK b \in BasesOf(program, nsos, flags) :
            info' = DecideAddressSpaceLayout(program, nsos, b)
    BY <1>5 DEF Create
  <2>3. program \in Programs
    BY <1>1 DEF CreationTypeOK
  <2>4. /\ WindowOf(program).start \in Nat /\ WindowOf(program).size \in Nat /\ b \in Nat
        /\ WindowOf(program).start <= b
        /\ b + TotalSize(program, nsos) <= WindowOf(program).start + WindowOf(program).size
    BY <1>3, <1>5, <2>3, BasesFit
  <2>5. info'.base = b
    BY <2>2 DEF DecideAddressSpaceLayout
  <2>6. Laid'
    BY <1>2, <1>3, <1>5, <2>2, <2>3, <2>4, <2>5 DEF Laid
  <2>7. CreationTypeOK'
    BY <1>1, <1>2, <2>1 DEF CreationTypeOK
  <2>8. Marked'
    BY <1>1, <1>2, <2>1 DEF Marked
  <2>9. Kept'
    BY <1>2, <1>3, <2>1 DEF Kept
  <2>10. Listed'
    BY <1>2, <1>3, <2>1 DEF Listed
  <2>11. InMemory'
    <3>1. 1..Len(patched') = {}
      BY <1>2, <1>3
    <3>2. DOMAIN memory' = 0..(info'.total - 1) /\ DOMAIN permission' = 0..(info'.total - 1)
      BY <2>1
    <3> QED BY <2>6, <3>1, <3>2 DEF InMemory
  <2> QED BY <2>7, <2>8, <2>9, <2>10, <2>11 DEF CreationIInv
<1> QED BY <1>4, <1>5

\* A module whose memory is left alone stays right.
LEMMA RightStays ==
    ASSUME NEW j, ModuleRight(j), UNCHANGED <<program, nsos, info>>,
           \A a \in 0..(SizeOf(j) - 1) : /\ memory'[At(j) + a] = memory[At(j) + a]
                                         /\ permission'[At(j) + a] = permission[At(j) + a]
    PROVE  ModuleRight(j)'
<1>1. At(j)' = At(j) /\ SizeOf(j)' = SizeOf(j) /\ HeaderOf(j)' = HeaderOf(j)
      /\ \A a : Belongs(j, a)' = Belongs(j, a)
  BY SameLayout
<1>2. \A a \in 0..(SizeOf(j) - 1) : memory'[At(j)' + a] = Belongs(j, a)'
  BY <1>1 DEF ModuleRight
<1>3. PermissionsOf(permission, j)'
  <2>1. PermissionsOf(permission, j)
    BY DEF ModuleRight
  <2> QED BY <1>1, <2>1 DEF PermissionsOf
<1> QED BY <1>1, <1>2, <1>3 DEF ModuleRight

\* One module more: those before it end where it begins.
LEMMA LoadKept == CreationIInv /\ LoadAutoLoadModule => CreationIInv'
<1> SUFFICES ASSUME CreationIInv, LoadAutoLoadModule PROVE CreationIInv'
  OBVIOUS
<1>0. PICK i : i = NextModule
  OBVIOUS
<1> DEFINE h == program.files[nsos[i]]
           mem == LoadModule(memory, program, i)
           fits == \A s \in Segments : PackedFits(h, s)
           holds == \A s \in Segments : HashHolds(mem, h, i, s)
<1>1. CreationTypeOK /\ Marked /\ Kept /\ Listed /\ InMemory
  BY DEF CreationIInv
<1>2. /\ stage = "load" /\ i <= Len(nsos)
      /\ UNCHANGED <<program, pin, flags, is_pcv, is_ptm, nsos, info, pins, launches>>
      /\ IF fits /\ holds
         THEN /\ memory' = mem /\ permission' = SetPermissions(permission, program, i)
              /\ patched' = Append(patched, PatchersCalled)
              /\ UNCHANGED <<stage, process>>
         ELSE Fail /\ UNCHANGED <<memory, permission, patched>>
  BY <1>0 DEF LoadAutoLoadModule, call
<1>3. /\ Laid /\ DOMAIN memory = 0..(info.total - 1) /\ DOMAIN permission = 0..(info.total - 1)
      /\ \A j \in 1..Len(patched) : ModuleRight(j)
  BY <1>1, <1>2 DEF InMemory
<1>4. patched \in Seq(SUBSET {"Pcv", "Ptm"}) /\ nsos \in Seq(DOMAIN program.files)
      /\ Len(patched) <= Len(nsos)
  BY <1>1 DEF CreationTypeOK, Listed
<1>5. Len(patched) \in Nat /\ Len(nsos) \in Nat /\ i = Len(patched) + 1 /\ i \in 1..Len(nsos)
  <2>1. Len(patched) \in Nat /\ Len(nsos) \in Nat /\ i = Len(patched) + 1
    BY <1>0, <1>4, LenProperties DEF NextModule
  <2> QED BY <1>2, <2>1
<1>6. CASE ~(fits /\ holds)
  <2>1. Fail /\ patched' = patched
    BY <1>2, <1>6
  <2>2. Failed
    BY <1>1, <1>2, <1>4, <2>1 DEF Failed, CreationTypeOK
  <2> QED BY <2>2, FailureKept
<1>7. CASE fits /\ holds
  <2>1. /\ memory' = mem /\ permission' = SetPermissions(permission, program, i)
        /\ patched' = Append(patched, PatchersCalled) /\ stage' = stage /\ process' = process
    BY <1>2, <1>7
  <2>2. PatchersCalled = {program.id} \cap {"Pcv", "Ptm"}
    <3>1. is_pcv = (program.id = "Pcv") /\ is_ptm = (program.id = "Ptm")
      BY <1>1, <1>2 DEF Marked
    <3> QED BY <3>1 DEF PatchersCalled
  <2>3. /\ patched' \in Seq(SUBSET {"Pcv", "Ptm"}) /\ Len(patched') = i
        /\ \A j \in 1..i : patched'[j] = {program.id} \cap {"Pcv", "Ptm"}
        /\ DOMAIN patched' = 1..i
    <3> DEFINE v == {program.id} \cap {"Pcv", "Ptm"}   T == SUBSET {"Pcv", "Ptm"}
    <3>1. v \in T
      OBVIOUS
    <3>2. \A j \in 1..Len(patched) : patched[j] = v
      <4>1. DOMAIN patched = 1..Len(patched)
        BY <1>4, LenProperties
      <4> QED BY <1>1, <4>1 DEF Marked
    <3>3. patched \in Seq(T) /\ patched' = Append(patched, v)
      BY <1>4, <2>1, <2>2
    <3> HIDE DEF v, T
    <3>4. /\ patched' \in Seq(T) /\ Len(patched') = Len(patched) + 1
          /\ \A j \in 1..Len(patched) : patched'[j] = patched[j]
          /\ patched'[Len(patched) + 1] = v
      BY <3>1, <3>3, AppendProperties
    <3>5. DOMAIN patched' = 1..i
      BY <1>5, <3>4, LenProperties
    <3>6. patched'[i] = v
      BY Zenon, <1>5, <3>4
    <3>7. ASSUME NEW j \in 1..i PROVE patched'[j] = v
      <4>1. j \in 1..Len(patched) \/ j = i
        BY <1>5
      <4>2. CASE j \in 1..Len(patched)
        BY <3>2, <3>4, <4>2
      <4>3. CASE j = i
        BY <3>6, <4>3
      <4> QED BY <4>1, <4>2, <4>3
    <3> QED BY <1>5, <3>4, <3>5, <3>7 DEF v, T
  <2>4. CreationTypeOK'
    <3>1. Len(patched') <= Len(nsos')
      BY <1>2, <1>5, <2>3
    <3> QED BY <1>1, <1>2, <2>1, <2>3, <3>1 DEF CreationTypeOK
  <2>5. Marked'
    BY <1>1, <1>2, <2>1, <2>3 DEF Marked
  <2>6. Kept'
    BY <1>1, <1>2, <2>1 DEF Kept
  <2>7. Listed'
    BY <1>1, <1>2, <2>1 DEF Listed
  <2>8. /\ DOMAIN mem = DOMAIN memory /\ \A x \in DOMAIN memory : x < At(i) => mem[x] = memory[x]
        /\ \A a \in 0..(SizeOf(i) - 1) : mem[At(i) + a] = Belongs(i, a)
    <3>1. \A s \in Segments : PackedFits(HeaderOf(i), s)
      BY <1>7 DEF HeaderOf
    <3> QED BY <1>3, <1>5, <3>1, ModuleLoaded
  <2>9. /\ DOMAIN permission' = DOMAIN permission
        /\ \A x \in DOMAIN permission : x < At(i) => permission'[x] = permission[x]
        /\ PermissionsOf(permission', i)
    BY <1>3, <1>5, <2>1, PermissionsSet
  <2> HIDE DEF mem
  <2>10. ASSUME NEW j \in 1..Len(patched) PROVE ModuleRight(j)'
    <3>1. j \in 1..Len(nsos) /\ j < i /\ ModuleRight(j)
      BY <1>3, <1>5
    <3>2. /\ At(j) \in Nat /\ SizeOf(j) \in Nat /\ At(j) + SizeOf(j) <= info.total
          /\ info.total \in Nat /\ At(i) \in Nat
      BY <1>3, <1>5, <3>1, ModulePlaced
    <3>3. At(j) + SizeOf(j) <= At(i)
      <4>1. /\ At(j) + SizeOf(j) + (IF j = 1 THEN program.args ELSE 0) <= At(i)
            /\ program.args \in Nat
        <5>1. i \in 1..(Len(nsos) + 1) /\ j \in 1..(Len(nsos) + 1)
          BY <1>5, <3>1
        <5> QED BY <1>3, <3>1, <5>1, LaidOut
      <4> QED BY <3>2, <4>1
    <3>4. ASSUME NEW a \in 0..(SizeOf(j) - 1)
          PROVE  /\ memory'[At(j) + a] = memory[At(j) + a]
                 /\ permission'[At(j) + a] = permission[At(j) + a]
      <4>1. At(j) + a \in 0..(info.total - 1) /\ At(j) + a < At(i)
        <5> DEFINE u == At(j)   v == At(i)   w == SizeOf(j)   t == info.total
        <5>1. u \in Nat /\ v \in Nat /\ w \in Nat /\ t \in Nat /\ u + w <= t /\ u + w <= v
              /\ a \in 0..(w - 1)
          BY <3>2, <3>3
        <5> HIDE DEF u, v, w, t
        <5>2. u + a \in 0..(t - 1) /\ u + a < v
          BY <5>1
        <5> QED BY <5>2 DEF u, v, t
      <4> QED BY <1>3, <2>1, <2>8, <2>9, <4>1
    <3> QED BY <1>2, <3>1, <3>4, RightStays
  <2>11. ModuleRight(i)'
    <3>1. At(i)' = At(i) /\ SizeOf(i)' = SizeOf(i) /\ HeaderOf(i)' = HeaderOf(i)
          /\ \A a : Belongs(i, a)' = Belongs(i, a)
      BY <1>2, SameLayout
    <3>2. \A a \in 0..(SizeOf(i)' - 1) : memory'[At(i)' + a] = Belongs(i, a)'
      BY <2>1, <2>8, <3>1
    <3>3. PermissionsOf(permission, i)'
      BY <2>9, <3>1 DEF PermissionsOf
    <3> QED BY <3>2, <3>3 DEF ModuleRight
  <2>12. InMemory'
    <3>1. Laid'
      BY <1>2, <1>3, SameLayout
    <3>2. \A j \in 1..Len(patched') : ModuleRight(j)'
      <4> SUFFICES ASSUME NEW j \in 1..i PROVE ModuleRight(j)'
        BY <2>3
      <4>1. j \in 1..Len(patched) \/ j = i
        BY <1>5
      <4>2. CASE j \in 1..Len(patched)
        BY <2>10, <4>2
      <4>3. CASE j = i
        BY <2>11, <4>3
      <4> QED BY <4>1, <4>2, <4>3
    <3> QED BY <1>2, <1>3, <2>1, <2>8, <2>9, <3>1, <3>2 DEF InMemory
  <2> QED BY <2>4, <2>5, <2>6, <2>7, <2>12 DEF CreationIInv
<1> QED BY <1>6, <1>7

\* The arguments lie apart from every module.
LEMMA ArgumentsKept == CreationIInv /\ LoadArguments => CreationIInv'
<1> SUFFICES ASSUME CreationIInv, LoadArguments PROVE CreationIInv'
  OBVIOUS
<1> DEFINE from == info.args - info.base   n == program.args
<1>1. CreationTypeOK /\ Marked /\ Kept /\ Listed /\ InMemory
  BY DEF CreationIInv
<1>2. /\ stage = "load" /\ stage' = "register" /\ NextModule > Len(nsos)
      /\ UNCHANGED <<program, pin, flags, is_pcv, is_ptm, nsos, info, process, patched, pins,
                     launches>>
      /\ IF n = 0 THEN UNCHANGED <<memory, permission>>
         ELSE /\ memory' = Put(memory, from, n, Arguments)
              /\ permission' = Put(permission, from, n, "ReadWrite")
  BY DEF LoadArguments, call
<1>3. /\ Laid /\ DOMAIN memory = 0..(info.total - 1) /\ DOMAIN permission = 0..(info.total - 1)
      /\ \A j \in 1..Len(patched) : ModuleRight(j)
  BY <1>1, <1>2 DEF InMemory
<1>4. Len(patched) \in Nat /\ Len(nsos) \in Nat /\ Len(patched) = Len(nsos)
  <2>1. Len(patched) \in Nat /\ Len(nsos) \in Nat /\ Len(patched) <= Len(nsos)
    BY <1>1, LenProperties DEF CreationTypeOK, Listed
  <2>2. Len(patched) + 1 > Len(nsos)
    BY <1>2 DEF NextModule
  <2> QED BY <2>1, <2>2
<1>5. CreationTypeOK'
  BY <1>1, <1>2 DEF CreationTypeOK
<1>6. Marked'
  BY <1>1, <1>2 DEF Marked
<1>7. Kept'
  BY <1>1, <1>2 DEF Kept
<1>8. Listed'
  BY <1>1, <1>2, <1>4 DEF Listed
<1>9. CASE n = 0
  <2>1. InMemory'
    <3>1. UNCHANGED <<program, nsos, info, memory, permission, patched>>
      BY <1>2, <1>9
    <3> QED BY <1>1, <1>2, <3>1, SameMemory
  <2> QED BY <1>5, <1>6, <1>7, <1>8, <2>1 DEF CreationIInv
<1>10. CASE n # 0
  <2>1. /\ memory' = Put(memory, from, n, Arguments)
        /\ permission' = Put(permission, from, n, "ReadWrite")
    BY <1>2, <1>10
  <2>2. /\ DOMAIN memory' = DOMAIN memory
        /\ \A x \in DOMAIN memory :
              memory'[x] = IF x >= from /\ x < from + n THEN Arguments ELSE memory[x]
    <3> HIDE DEF from, n
    <3> QED BY <2>1, PutIs
  <2>3. /\ DOMAIN permission' = DOMAIN permission
        /\ \A x \in DOMAIN permission :
              permission'[x] = IF x >= from /\ x < from + n THEN "ReadWrite" ELSE permission[x]
    <3> HIDE DEF from, n
    <3> QED BY <2>1, PutIs
  <2>4. ASSUME NEW j \in 1..Len(patched) PROVE ModuleRight(j)'
    <3>1. j \in 1..Len(nsos) /\ ModuleRight(j)
      BY <1>3, <1>4
    <3>2. ASSUME NEW a \in 0..(SizeOf(j) - 1)
          PROVE  /\ memory'[At(j) + a] = memory[At(j) + a]
                 /\ permission'[At(j) + a] = permission[At(j) + a]
      <4>1. At(j) + a \in 0..(info.total - 1)
        <5> DEFINE u == At(j)   w == SizeOf(j)   t == info.total
        <5>1. u \in Nat /\ w \in Nat /\ t \in Nat /\ u + w <= t /\ a \in 0..(w - 1)
          BY <1>3, <3>1, ModulePlaced
        <5> HIDE DEF u, w, t
        <5>2. u + a \in 0..(t - 1)
          BY <5>1
        <5> QED BY <5>2 DEF u, t
      <4>2. ~(At(j) + a >= from /\ At(j) + a < from + n)
        BY <1>3, <1>10, <3>1, ArgumentsApart
      <4> HIDE DEF from, n
      <4> QED BY <1>3, <2>2, <2>3, <4>1, <4>2
    <3> QED BY <1>2, <3>1, <3>2, RightStays
  <2>5. InMemory'
    <3>1. Laid'
      BY <1>2, <1>3, SameLayout
    <3> QED BY <1>2, <1>3, <2>2, <2>3, <2>4, <3>1 DEF InMemory
  <2> QED BY <1>5, <1>6, <1>7, <1>8, <2>5 DEF CreationIInv
<1> QED BY <1>9, <1>10

\* The pin of the call becomes the program's.
LEMMA RegisterKept == CreationIInv /\ RegisterProcess => CreationIInv'
<1> SUFFICES ASSUME CreationIInv, RegisterProcess PROVE CreationIInv'
  OBVIOUS
<1>1. CreationTypeOK /\ Marked /\ Kept /\ Listed /\ InMemory
  BY DEF CreationIInv
<1>2. /\ stage = "register" /\ stage' = "done" /\ pins' = [pins EXCEPT ![pin] = program.id]
      /\ UNCHANGED <<program, pin, flags, is_pcv, is_ptm, nsos, info, process, memory,
                     permission, patched, launches>>
  BY DEF RegisterProcess, call, made
<1>3. program.id \in ProgramIds /\ pin \in PinIds
  BY <1>1 DEF CreationTypeOK, ProgramIds
<1>4. CreationTypeOK'
  <2>1. pins' \in [PinIds -> {"free", "pinned"} \cup ProgramIds]
    BY <1>1, <1>2, <1>3 DEF CreationTypeOK
  <2> QED BY <1>1, <1>2, <2>1 DEF CreationTypeOK
<1>5. Marked'
  BY <1>1, <1>2 DEF Marked
<1>6. Kept'
  <2>1. pins'[pin] = program.id
    BY <1>1, <1>2, <1>3 DEF CreationTypeOK
  <2> QED BY <1>1, <1>2, <2>1 DEF Kept
<1>7. Listed'
  BY <1>1, <1>2 DEF Listed
<1>8. InMemory'
  BY <1>1, <1>2, SameMemory
<1> QED BY <1>4, <1>5, <1>6, <1>7, <1>8 DEF CreationIInv

\* Between calls there is nothing left but the marks and the pins.
LEMMA ReturnKept == CreationIInv /\ Return => CreationIInv'
<1> SUFFICES ASSUME CreationIInv, Return PROVE CreationIInv'
  OBVIOUS
<1>1. CreationTypeOK
  BY DEF CreationIInv
<1>2. /\ stage' = "idle" /\ program' = (CHOOSE m \in Programs : TRUE)
      /\ pin' = (CHOOSE q \in PinIds : TRUE)
      /\ flags' = {} /\ nsos' = <<>> /\ process' = "none" /\ patched' = <<>>
      /\ UNCHANGED <<is_pcv, is_ptm, pins, launches>>
  BY DEF Return
<1>3. program' \in Programs /\ pin' \in PinIds
  BY <1>2, ProgramsAssumption
<1>4. CreationTypeOK'
  <2>1. patched' \in Seq(SUBSET {"Pcv", "Ptm"}) /\ Len(patched') <= Len(nsos')
    BY <1>2
  <2> QED BY <1>1, <1>2, <1>3, <2>1 DEF CreationTypeOK
<1>5. Marked'
  BY <1>2 DEF Marked
<1>6. Kept'
  BY <1>2 DEF Kept
<1>7. Listed'
  BY <1>2 DEF Listed
<1>8. InMemory'
  BY <1>2 DEF InMemory
<1> QED BY <1>4, <1>5, <1>6, <1>7, <1>8 DEF CreationIInv

\* Nothing changes.
LEMMA CreationStutters == CreationIInv /\ UNCHANGED creation => CreationIInv'
<1> SUFFICES ASSUME CreationIInv, UNCHANGED creation PROVE CreationIInv'
  OBVIOUS
<1>1. CreationTypeOK /\ Marked /\ Kept /\ Listed /\ InMemory
  BY DEF CreationIInv
<1>2. UNCHANGED <<stage, program, pin, flags, is_pcv, is_ptm, nsos, info, process, memory,
                  permission, patched, pins, launches>>
  BY DEF creation, call, made
<1>3. CreationTypeOK' /\ Marked' /\ Kept' /\ Listed'
  BY <1>1, <1>2 DEF CreationTypeOK, Marked, Kept, Listed
<1>4. InMemory'
  BY <1>1, <1>2, SameMemory
<1> QED BY <1>3, <1>4 DEF CreationIInv

\* What the invariant says of a process.
LEMMA RightThen == CreationIInv => CreatedWhole
<1> SUFFICES ASSUME CreationIInv PROVE CreatedWhole
  OBVIOUS
<1>1. CreationTypeOK /\ Marked /\ Kept /\ Listed /\ InMemory
  BY DEF CreationIInv
<1>2. PatchedByKind
  BY <1>1 DEF Marked, Listed, PatchedByKind
<1>3. NothingLeft
  BY <1>1 DEF Kept, NothingLeft
<1>4. LayoutRight
  <2>1. CASE stage \in {"load", "register", "done"}
    BY <1>1, <2>1, LayoutIsRight DEF InMemory
  <2>2. CASE stage \notin {"load", "register", "done"}
    BY <2>2 DEF LayoutRight
  <2> QED BY <2>1, <2>2
<1>5. MemoryRight
  <2> SUFFICES ASSUME stage \in {"load", "register", "done"}, NEW i \in DOMAIN patched
      PROVE  /\ \A a \in 0..(info.size[i] - 1) :
                    memory[info.nso[i] - info.base + a] = Belongs(i, a)
             /\ \A a \in 0..(info.size[i] - 1) :
                    LET s == Belongs(i, a)
                    IN  /\ s = <<i, "text">> =>
                              permission[info.nso[i] - info.base + a] = "ReadExecute"
                        /\ s = <<i, "ro">> => permission[info.nso[i] - info.base + a] = "Read"
                        /\ s = <<i, "rw">> \/ a >= End(program.files[nsos[i]], "rw") =>
                              permission[info.nso[i] - info.base + a] = "ReadWrite"
    BY DEF MemoryRight
  <2>1. i \in 1..Len(patched) /\ i \in 1..Len(nsos)
    <3>1. /\ DOMAIN patched = 1..Len(patched) /\ Len(patched) \in Nat /\ Len(nsos) \in Nat
          /\ Len(patched) <= Len(nsos)
      BY <1>1, LenProperties DEF CreationTypeOK, Listed
    <3> QED BY <3>1
  <2>2. Laid /\ ModuleRight(i)
    BY <1>1, <2>1 DEF InMemory
  <2>3. info.nso[i] - info.base = At(i) /\ info.size[i] = SizeOf(i)
    BY <2>1, <2>2, ModulePlaced
  <2>4. \A a \in 0..(SizeOf(i) - 1) : memory[At(i) + a] = Belongs(i, a)
    BY <2>2 DEF ModuleRight
  <2>5. PermissionsOf(permission, i)
    BY <2>2 DEF ModuleRight
  <2> QED BY <2>3, <2>4, <2>5 DEF PermissionsOf, HeaderOf
<1> QED BY <1>1, <1>2, <1>3, <1>4, <1>5 DEF CreatedWhole

\* A process is created whole, in its own place and patched for what it is, or
\* not at all, for every program, window and order of calls: the invariant is
\* kept by every step of CreateProcess (ldr_process_creation.cpp).
THEOREM CreatedWholeHolds == CreationInit /\ [][CreationNext]_creation => []CreatedWhole
<1>1. CreationIInv /\ [CreationNext]_creation => CreationIInv'
  BY PinsKept, CallBegins, GivingUpKept, MetaKept, HeadersKept, CreateKept, LoadKept,
     ArgumentsKept, RegisterKept, ReturnKept, CreationStutters DEF CreationNext
<1> QED BY <1>1, CreationStarts, RightThen, PTL

===============================================================================
