--------------------------- MODULE MCClockManager ---------------------------
(***************************************************************************)
(* Instances of ClockManager for TLC: one Mariko console with short clock  *)
(* tables, two APM configurations in handheld mode (normal and boost, rows *)
(* 0x00020001 and 0x92220009 of hos/apm_profile_table.c) and a docked one. *)
(***************************************************************************)
EXTENDS ClockManager

\* The instances meet the conditions under which MemFloor is proved, unless the
\* voltage table cannot always be written.
ASSUME MCDvfsSetup == HijackMayFail \/ DvfsSetup

\* They keep their caps; those without steps of 38.4 MHz have plain clocks.
ASSUME MCCapsSetup == CapsSetup
ASSUME MCPlainClocks == PlainClocks \/ \E f \in Entries(Table["GPU"]) : IsMiddle(f)

MCTable ==
    [CPU |-> <<612000, 1020000, 1785000>>,
     GPU |-> <<76800, 307200, 614400, 768000>>,
     MEM |-> <<1331200, 1600000, 1862400, 2133000>>]

\* The same tables with a 38.4 MHz step GPU clock switched on.
MCMiddleTable ==
    [MCTable EXCEPT !.GPU = <<76800, 307200, 499200, 614400, 768000>>]

Hz(cpu, gpu, mem) == [CPU |-> cpu, GPU |-> gpu, MEM |-> mem]

Handheld == [docked |-> FALSE, boost |-> FALSE, hz |-> Hz(1020000, 307200, 1600000)]
Boost == [docked |-> FALSE, boost |-> TRUE, hz |-> Hz(1785000, 76800, 1600000)]
Docked == [docked |-> TRUE, boost |-> FALSE, hz |-> Hz(1020000, 768000, 1600000)]
MCApm == {Handheld, Boost, Docked}

Nothing == [hz |-> Hz(0, 0, 0), gov |-> NoGov]
Clocks(cpu, gpu, mem) == [hz |-> Hz(cpu, gpu, mem), gov |-> NoGov]
Governed(s, c, g) == [s EXCEPT !.gov = [CPU |-> c, GPU |-> g]]

MCOffset == -30

\* A setting for one profile.
NoProfile == [Handheld |-> Nothing, Charging |-> Nothing, USB |-> Nothing,
              Official |-> Nothing, Docked |-> Nothing]
OnlyHandheld(s) == [NoProfile EXCEPT !.Handheld = s]

\* config.ini: the profiles of the title "game" and of all titles, in whole MHz.
IniFile(game, all) ==
    [auto |-> [[t \in Titles0 |-> NoProfile] EXCEPT !["game"] = game,
                                                    ![GlobalTitle] = all],
     uncapped |-> FALSE, overwriteBoost |-> FALSE, hijack |-> TRUE]

\* Settings without a governor: stock, an overclock above the handheld GPU
\* cap, and RAM clocks on both sides of the DVFS threshold.
MCOverride ==
    [none    |-> Nothing,
     ram2133 |-> Clocks(1785000, 0, 2133000),
     gpu700  |-> Clocks(0, 700000, 0)]

\* Profiles of one title, and one with governors that overrides boost mode
\* beside a profile of all titles.
MCIni ==
    [game     |-> IniFile([OnlyHandheld(Clocks(0, 614000, 1862000))
                             EXCEPT !.Docked = Clocks(0, 0, 1331000)], NoProfile),
     governed |-> [IniFile(OnlyHandheld(Governed(Clocks(1785000, 614000, 0),
                                                 "Enabled", "Enabled")),
                           OnlyHandheld(Clocks(612000, 0, 0)))
                      EXCEPT !.overwriteBoost = TRUE]]

\* A profile with governors and one without, which overrides boost mode.
MCIniGoverned ==
    [governed |-> IniFile(OnlyHandheld(Governed(Clocks(1785000, 614000, 0),
                                                "Enabled", "Enabled")), NoProfile),
     fixed    |-> [IniFile(OnlyHandheld(Clocks(1785000, 614000, 2133000)), NoProfile)
                      EXCEPT !.overwriteBoost = TRUE]]
=============================================================================
