-------------------------------- MODULE Overlay -------------------------------
(***************************************************************************)
(* overlay/src: the pages of the overlay and the copies of the sysmodule's *)
(* state they edit.  A settings page (MiscGui and its submenus) changes    *)
(* one value of its own list and sends the whole list; the profile page    *)
(* does the same with the profiles of an application; the override page    *)
(* sends one clock, its governor submenu one packed word.  A page re-reads *)
(* its copies about once a second while it is on top.  The sysmodule is    *)
(* the state it keeps; any call to it may fail.                            *)
(***************************************************************************)
EXTENDS Integers, Sequences

CONSTANTS Keys,       \* config values with a control,
          KipKeys,    \* those that belong to the kip's table,
          Home,       \* the page each has its control on,
          Control,    \* and its kind: toggle, bar or button
          Clocks,     \* modules with a clock of their own
          GovBytes,   \* the bytes of the packed governor word
          Apps,       \* title ids
          GLOBAL_PROFILE_TID,
          MaxEdits    \* bound: changes made by the user

ASSUME OverlayAssumption ==
    /\ KipKeys \subseteq Keys /\ Clocks \cap GovBytes = {}
    /\ GLOBAL_PROFILE_TID \notin Apps /\ MaxEdits \in Nat
    /\ Control \in [Keys -> {"toggle", "bar", "button"}]

Values  == {0, 1}
Entries == Clocks \cup GovBytes
Titles  == Apps \cup {GLOBAL_PROFILE_TID}
ConfigList  == [Keys -> Values]
ProfileList == [Entries -> Values]
Packed      == [GovBytes -> Values]

\* The submenus of MiscGui, by the page they are opened from.
Submenus(kind) ==
    CASE kind = "Misc" -> {"General", "Governor", "Safety", "Ram", "Cpu", "Gpu",
                           "Display", "Experimental"}
      [] kind = "Ram" -> {"Latencies", "Timings"}
      [] kind = "Gpu" -> {"CustomTable"}
      [] OTHER -> {}

SettingsPages == {"Misc"} \cup Submenus("Misc") \cup Submenus("Ram") \cup Submenus("Gpu")

ASSUME HomeAssumption == Home \in [Keys -> SettingsPages]

VARIABLES
    stack,      \* the pages, the last one is shown
    config,     \* the sysmodule's config values,
    kip,        \* the kip's table,
    profiles,   \* the profiles of each title,
    overrides,  \* the overrides
    app,        \* and the application that runs
    wanted,     \* history: what the user set, [config, profiles, overrides],
    hasty,      \* whether a page was used before it had been read again,
    unsaved,    \* whether the last save of the kip failed,
    edits       \* and the number of changes

server == <<config, kip, profiles, overrides, app>>
history == <<wanted, hasty, unsaved, edits>>
vars == <<stack, server, history>>

Top       == stack[Len(stack)]
Shows(kinds) == stack # <<>> /\ Top.kind \in kinds
Push(p)   == Append(stack, p)
Fatal     == [kind |-> "Fatal"]
\* FatalGui::openWithResultCode
OpenFatal == Push(Fatal)

(***************************************************************************)
(* Opening pages.  changeTo builds a page before it pushes it, so that a   *)
(* FatalGui opened because a read failed lies under the page, which then   *)
(* has no items, or on a profile page those of the sections read before.   *)
(***************************************************************************)
Main(a) == [kind |-> "Main", app |-> a]

Start ==
    /\ stack = <<>>
    /\ \/ stack' = <<Main(app)>>
       \/ stack' = <<Fatal>>      \* not running, not connected, another API
    /\ UNCHANGED <<server, history>>

SettingsPage(kind, list, items) ==
    [kind |-> kind, list |-> list, save |-> FALSE, fresh |-> TRUE, items |-> items]

OpenSettings ==
    \E kind \in (IF Shows({"Main"}) THEN {"Misc"}
                 ELSE IF Shows(SettingsPages) /\ Top.items THEN Submenus(Top.kind) ELSE {}) :
        /\ \/ stack' = Push(SettingsPage(kind, config, TRUE))
           \/ stack' = OpenFatal \o <<SettingsPage(kind, [k \in Keys |-> 0], FALSE)>>
        /\ UNCHANGED <<server, history>>

OpenProfile ==
    /\ Shows({"Main"})
    /\ \E a \in {Top.app, GLOBAL_PROFILE_TID}, items \in BOOLEAN :
        LET page == [kind |-> "Profile", app |-> a, list |-> profiles[a], items |-> items]
        IN  \/ items /\ stack' = Push(page)
            \/ stack' = OpenFatal \o <<page>>
            \/ stack' = OpenFatal
    /\ UNCHANGED <<server, history>>

OpenOverride ==
    /\ Shows({"Main"})
    /\ \/ stack' = Push([kind |-> "Override", list |-> overrides, fresh |-> TRUE, items |-> TRUE])
       \/ \E garbage \in Values, items \in BOOLEAN :      \* the context as allocated
            stack' = OpenFatal \o <<[kind |-> "Override", list |-> [e \in Entries |-> garbage],
                                     fresh |-> FALSE, items |-> items]>>
    /\ UNCHANGED <<server, history>>

\* The governor submenus: the one of a profile page works on the page's own
\* list, the one of the override page on a word of its own.
OpenGovernorProfileAnyway ==
    /\ Shows({"Profile"}) /\ Top.items
    /\ \/ stack' = Push([kind |-> "GovernorProfile", items |-> TRUE])
       \/ stack' = OpenFatal \o <<[kind |-> "GovernorProfile", items |-> TRUE]>>
    /\ UNCHANGED <<server, history>>
OpenGovernorProfile ==
    /\ Shows({"Profile"}) /\ Top.items
    /\ \/ stack' = Push([kind |-> "GovernorProfile", items |-> TRUE])
       \/ stack' = OpenFatal \o <<[kind |-> "GovernorProfile", items |-> FALSE]>>
    /\ UNCHANGED <<server, history>>

OpenGovernorOverride ==
    /\ Shows({"Override"}) /\ Top.items
    /\ LET page(items) == [kind |-> "GovernorOverride", items |-> items,
                           packed |-> [b \in GovBytes |-> Top.list[b]]]
       IN  stack' = Push(page(TRUE)) \/ stack' = OpenFatal \o <<page(FALSE)>>
    /\ hasty' = (hasty \/ ~Top.fresh)
    /\ UNCHANGED <<server, wanted, unsaved, edits>>

\* FreqChoiceGui and ValueChoiceGui; the list of clocks may not be had.
OpenChoice ==
    /\ \E item \in (IF Shows({"Profile", "Override"}) THEN Clocks
                    ELSE IF Shows(SettingsPages)
                         THEN {k \in Keys : Home[k] = Top.kind /\ Control[k] = "button"}
                    ELSE {}) :
        /\ Top.items
        /\ \/ stack' = Push([kind |-> "Choice", item |-> item])
           \/ stack' = OpenFatal
    /\ UNCHANGED <<server, history>>

(***************************************************************************)
(* Editing.  Each listener works on the page that holds the list, stack[i],*)
(* from the page itself, from the choice above it or from its submenu.  A  *)
(* choice that took effect goes back; a call that failed opens a FatalGui. *)
(***************************************************************************)
EditsSettings(i, k) ==
    /\ i \in DOMAIN stack /\ stack[i].kind = Home[k] /\ stack[i].items
    /\ IF Control[k] = "button" THEN Shows({"Choice"}) /\ i = Len(stack) - 1 /\ Top.item = k
                                ELSE i = Len(stack)

SetsSaveFlagNotForBars(p, k, ok) == p.save \/ (k \in KipKeys /\ ok /\ Control[k] # "bar")
SetsSaveFlag(p, k, ok) == p.save \/ (k \in KipKeys /\ (ok \/ Control[k] = "bar"))

SetConfigValues(i, k, v) ==
    LET list     == [stack[i].list EXCEPT ![k] = v]
        page(ok) == [stack[i] EXCEPT !.list = list, !.save = SetsSaveFlag(stack[i], k, ok)]
    IN  \/ /\ stack' = Append(SubSeq(stack, 1, i - 1), page(TRUE))
           /\ config' = list
           /\ wanted' = [wanted EXCEPT !.config[k] = v]
           /\ hasty' = (hasty \/ ~stack[i].fresh)
        \/ /\ stack' = Append([stack EXCEPT ![i] = page(FALSE)], Fatal)
           /\ UNCHANGED <<config, wanted, hasty>>

EditSettings ==
    /\ edits < MaxEdits /\ edits' = edits + 1
    /\ \E i \in DOMAIN stack, k \in Keys, v \in Values :
        /\ stack[i].kind \in SettingsPages /\ EditsSettings(i, k) /\ SetConfigValues(i, k, v)
    /\ UNCHANGED <<kip, profiles, overrides, app, unsaved>>

\* What is left of the stack once a listener of stack[i] returned true.
After(i, page) ==
    IF Shows({"Choice"}) THEN Append(SubSeq(stack, 1, i - 1), page) ELSE [stack EXCEPT ![i] = page]

\* The entry of the list of stack[i] that the top page can change to v.
EditsClock(i, e, v) ==
    /\ e \in Clocks /\ stack[i].items
    /\ \/ Shows({"Choice"}) /\ i = Len(stack) - 1 /\ Top.item = e
       \/ i = Len(stack) /\ v = 0      \* Y resets

EditsGovernor(i, e, submenu) ==
    e \in GovBytes /\ Shows({submenu}) /\ Top.items /\ i = Len(stack) - 1

\* The list of the page, changed in place by its items and by the submenu.
EditOfCopy(i, e, v) ==
    [stack[i] EXCEPT !.list[e] = IF Shows({"GovernorProfile"}) THEN @ ELSE v]
EditOfList(i, e, v) == [stack[i] EXCEPT !.list[e] = v]

EditProfile ==
    /\ edits < MaxEdits /\ edits' = edits + 1
    /\ \E i \in DOMAIN stack, e \in Entries, v \in Values :
        /\ stack[i].kind = "Profile"
        /\ EditsClock(i, e, v) \/ EditsGovernor(i, e, "GovernorProfile")
        /\ LET page == EditOfList(i, e, v)
               a    == page.app
           IN  \/ /\ stack' = After(i, page)
                  /\ profiles' = [profiles EXCEPT ![a] = [page.list EXCEPT ![e] = v]]
                  /\ wanted' = [wanted EXCEPT !.profiles[a][e] = v]
               \/ /\ stack' = Append([stack EXCEPT ![i] = page], Fatal)
                  /\ UNCHANGED <<profiles, wanted>>
    /\ UNCHANGED <<config, kip, overrides, app, hasty, unsaved>>

EditOverride ==
    /\ edits < MaxEdits /\ edits' = edits + 1
    /\ \E i \in DOMAIN stack, e \in Clocks, v \in Values :
        /\ stack[i].kind = "Override" /\ EditsClock(i, e, v)
        /\ LET page == EditOfList(i, e, v)
           IN  \/ /\ stack' = After(i, page)
                  /\ overrides' = [overrides EXCEPT ![e] = v]
                  /\ wanted' = [wanted EXCEPT !.overrides[e] = v]
               \/ /\ stack' = Append(IF e = "Display" THEN [stack EXCEPT ![i] = page] ELSE stack, Fatal)
                  /\ UNCHANGED <<overrides, wanted>>
    /\ UNCHANGED <<config, kip, profiles, app, hasty, unsaved>>

EditGovernorOverride ==
    /\ edits < MaxEdits /\ edits' = edits + 1
    /\ Shows({"GovernorOverride"}) /\ Top.items
    /\ \E b \in GovBytes, v \in Values :
        LET page == [Top EXCEPT !.packed[b] = v]
            now  == [stack EXCEPT ![Len(stack)] = page]
        IN  \/ /\ stack' = now
               /\ overrides' = [e \in Entries |-> IF e \in GovBytes THEN page.packed[e] ELSE overrides[e]]
               /\ wanted' = [wanted EXCEPT !.overrides[b] = v]
            \/ /\ stack' = Append(now, Fatal)
               /\ UNCHANGED <<overrides, wanted>>
    /\ UNCHANGED <<config, kip, profiles, app, hasty, unsaved>>

(***************************************************************************)
(* Going back, with the save that ~MiscGui does, and the refresh.          *)
(***************************************************************************)
\* The pages after the first n are destroyed; one save stands for all of them.
Destroy(n) ==
    IF \E i \in (n + 1)..Len(stack) : stack[i].kind \in SettingsPages /\ stack[i].save
    THEN \/ kip' = [k \in KipKeys |-> config[k]] /\ unsaved' = FALSE
         \/ UNCHANGED kip /\ unsaved' = TRUE      \* no thread, or the call failed
    ELSE UNCHANGED <<kip, unsaved>>

\* A page that was covered has not been read again yet.
Uncovered(p) ==
    IF p.kind \in SettingsPages \cup {"Override"} THEN [p EXCEPT !.fresh = FALSE] ELSE p

Back ==
    /\ stack # <<>> /\ ~Shows({"Fatal"})
    /\ LET n == Len(stack) - 1
       IN  /\ Destroy(n)
           /\ stack' = IF n = 0 THEN <<>>
                       ELSE IF Shows({"Choice"}) THEN SubSeq(stack, 1, n)
                       ELSE Append(SubSeq(stack, 1, n - 1), Uncovered(stack[n]))
    /\ UNCHANGED <<config, profiles, overrides, app, wanted, hasty, edits>>

\* FatalGui::handleInput goes back until no page is left.
CloseFatal ==
    /\ Shows({"Fatal"})
    /\ Destroy(0)
    /\ stack' = <<>>
    /\ UNCHANGED <<config, profiles, overrides, app, wanted, hasty, edits>>

ReadAgainOnce(p) ==
    IF p.kind = "Main" THEN [p EXCEPT !.app = app]
    ELSE IF p.kind \in SettingsPages \cup {"Override"} THEN [p EXCEPT !.fresh = TRUE]
    ELSE p
ReadAgain(p) ==
    IF p.kind = "Main" THEN [p EXCEPT !.app = app]
    ELSE IF p.kind = "Override" THEN [p EXCEPT !.list = overrides, !.fresh = TRUE]
    ELSE IF p.kind \in SettingsPages THEN [p EXCEPT !.list = config, !.fresh = TRUE]
    ELSE p

OtherAppIgnored(p) == FALSE
\* AppProfileGui::update
OtherApp(p) == p.kind = "Profile" /\ p.app \notin {app, GLOBAL_PROFILE_TID}

\* BaseGui::update, once a second
Refresh ==
    /\ Shows({"Main", "Override", "Profile"} \cup SettingsPages)
    /\ LET now == [stack EXCEPT ![Len(stack)] = ReadAgain(Top)]
       IN  stack' = IF OtherApp(Top) THEN Append(now, Fatal) ELSE now
    /\ UNCHANGED <<server, history>>

RefreshFails ==
    /\ Shows({"Main", "Override", "Profile"} \cup SettingsPages)
    /\ stack' = OpenFatal
    /\ UNCHANGED <<server, history>>

AppChanges ==
    /\ app' \in Apps \ {app}
    /\ UNCHANGED <<stack, config, kip, profiles, overrides, history>>

-------------------------------------------------------------------------------
Init ==
    /\ stack = <<>>
    /\ config = [k \in Keys |-> 0] /\ kip = [k \in KipKeys |-> 0]
    /\ profiles = [a \in Titles |-> [e \in Entries |-> 0]]
    /\ overrides = [e \in Entries |-> 0]
    /\ app \in Apps
    /\ wanted = [config |-> config, profiles |-> profiles, overrides |-> overrides]
    /\ hasty = FALSE /\ unsaved = FALSE /\ edits = 0

Next ==
    \/ Start \/ OpenSettings \/ OpenProfile \/ OpenOverride \/ OpenChoice
    \/ OpenGovernorProfile \/ OpenGovernorOverride
    \/ EditSettings \/ EditProfile \/ EditOverride \/ EditGovernorOverride
    \/ Back \/ CloseFatal \/ Refresh \/ RefreshFails \/ AppChanges

Spec == Init /\ [][Next]_vars /\ WF_vars(Refresh)

-------------------------------------------------------------------------------
\* The lists of the sysmodule and of the pages stay lists of their kind, and a
\* choice or a submenu with items always lies on the page whose list it edits.
TypeOK ==
    /\ config \in ConfigList /\ profiles \in [Titles -> ProfileList]
    /\ kip \in [KipKeys -> Values] /\ overrides \in ProfileList
    /\ edits \in 0..MaxEdits /\ app \in Apps
    /\ \A i \in DOMAIN stack :
        /\ stack[i].kind \in SettingsPages => stack[i].list \in ConfigList
        /\ stack[i].kind \in {"Profile", "Override"} => stack[i].list \in ProfileList
        /\ stack[i].kind = "GovernorProfile" /\ stack[i].items => stack[i - 1].kind = "Profile"
        /\ stack[i].kind = "Choice" => stack[i - 1].kind \in SettingsPages \cup {"Profile", "Override"}

\* The profiles the sysmodule keeps are the ones the user set, whatever the
\* order of pages, submenus, resets, failing calls and changes of application:
\* a list sent as a whole never takes back what another control set, nor
\* carries a value whose own call failed.
ProfilesKept == profiles = wanted.profiles

\* A settings page sends its whole list: once it has been read again after a
\* submenu was left, no control undoes what was set on another page.
ConfigKept == ~hasty => config = wanted.config

\* The packed governor word goes out as a whole too, beside the single clocks.
OverridesKept == ~hasty => overrides = wanted.overrides

\* ~MiscGui: when no page with a change of the kip is left, by going back or
\* through an error, the kip holds the settings, or its last save had failed.
KipSaved ==
    \/ hasty \/ unsaved
    \/ \E i \in DOMAIN stack : stack[i].kind \in SettingsPages /\ stack[i].save
    \/ kip = [k \in KipKeys |-> config[k]]

\* AppProfileGui::update: a page for an application that no longer runs does
\* not stay on top.
WrongApp == Shows({"Profile"}) /\ Top.app \notin {app, GLOBAL_PROFILE_TID}
WrongAppNoticed == WrongApp ~> ~WrongApp

\* A settings page left alone comes to show what the sysmodule has.
StalePage == Shows(SettingsPages) /\ Top.list # config
PagesSettle == StalePage ~> ~StalePage

\* What the user set, and nothing else, is what the sysmodule holds and, once
\* the pages are left, what the kip holds: a page that sends a whole list takes
\* back nothing that was set on another one.
EditsKept == TypeOK /\ ProfilesKept /\ ConfigKept /\ OverridesKept /\ KipSaved
===============================================================================
