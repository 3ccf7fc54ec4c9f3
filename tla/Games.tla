-------------------------------- MODULE Games --------------------------------
(***************************************************************************)
(* What the sysmodule knows of the game in front: its focus, from the play *)
(* events of the PDM service behind a cache keyed by their number          *)
(* (hos/process_management.cpp), and its frame rate and resolution, from   *)
(* the block SaltyNX leaves in shared memory (hos/integrations.cpp).       *)
(* PDM, SaltyNX and the game are modelled from how these two use them      *)
(* (external): PDM logs a game's focus in order, SaltyNX clears its memory *)
(* when a game ends.                                                       *)
(***************************************************************************)
EXTENDS Integers, Sequences, FiniteSets

CONSTANTS Titles,      \* games
          Window,      \* how many events a query returns: 16 in the code
          MaxEvents,   \* bound: events logged
          Offsets      \* where in shared memory SaltyNX may put a block

VARIABLES game,    \* the running title, or "Qlaunch"
          events,  \* PDM's log: title ("other" for an applet) and kind
          focus,   \* last_total_entries, isOutOfFocus, and the answer given last
          missed,  \* a query failed after it had stored the number of events
          shared,  \* SaltyNX's memory: the block's offset and owner, calls asked for
          nxfps,   \* gNxFps, gPrevTid, resolutionLookup, and what was shown last
          unseen   \* a game ended and GetSaltyNXFPS has seen no other title since

gameVars == <<game, events, focus, missed, shared, nxfps, unseen>>

NoBlock == [offset |-> 0, owner |-> "none"]

GamesInit ==
    /\ game = "Qlaunch"
    /\ events = <<>>
    /\ focus = [total |-> 0, isOut |-> FALSE, answer |-> "none"]
    /\ missed = FALSE
    /\ shared = NoBlock
    /\ nxfps = [at |-> 0, tid |-> "none", lookup |-> 0, of |-> "none", height |-> 0]
    /\ unseen = FALSE

Log(t, k) == Append(events, [title |-> t, kind |-> k])

\* The user (external): a game starts in focus, loses and regains it, ends;
\* other applets log events of their own.
Launch ==
    /\ game = "Qlaunch" /\ Len(events) < MaxEvents
    /\ \E t \in Titles : game' = t /\ events' = Log(t, "InFocus")
    /\ UNCHANGED <<focus, missed, shared, nxfps, unseen>>

Out(log, t) ==
    LET mine == {i \in DOMAIN log : log[i].title = t}
    IN  mine # {} /\ log[CHOOSE i \in mine : \A j \in mine : j <= i].kind = "OutOfFocus"

ChangeFocus ==
    /\ game # "Qlaunch" /\ Len(events) < MaxEvents
    /\ events' = Log(game, IF Out(events, game) THEN "InFocus" ELSE "OutOfFocus")
    /\ UNCHANGED <<game, focus, missed, shared, nxfps, unseen>>

AppletEvent ==
    /\ Len(events) < MaxEvents
    /\ events' = Log("other", "InFocus")
    /\ UNCHANGED <<game, focus, missed, shared, nxfps, unseen>>

Quit ==
    /\ game # "Qlaunch"
    /\ game' = "Qlaunch" /\ shared' = NoBlock /\ unseen' = TRUE
    /\ UNCHANGED <<events, focus, missed, nxfps>>

\* SaltyNX places the running game's block (external).
PlaceBlock ==
    /\ game # "Qlaunch" /\ shared = NoBlock
    /\ \E o \in Offsets : shared' = [offset |-> o, owner |-> game]
    /\ UNCHANGED <<game, events, focus, missed, nxfps, unseen>>

---------------------------------------------------------------------------
(* isApplicationOutOfFocus. *)

\* The last of the Window newest events that is the game's, or 0.
FirstOf(log, t) ==
    LET from == IF Len(log) > Window THEN Len(log) - Window + 1 ELSE 1
        mine == {i \in from..Len(log) : log[i].title = t}
    IN  IF mine = {} THEN 0 ELSE CHOOSE i \in mine : \A j \in mine : i <= j

LastOf(log, t) ==
    LET from == IF Len(log) > Window THEN Len(log) - Window + 1 ELSE 1
        mine == {i \in from..Len(log) : log[i].title = t}
    IN  IF mine = {} THEN 0 ELSE CHOOSE i \in mine : \A j \in mine : j <= i

\* No new event: the cached answer.
CachedAnswer == [focus EXCEPT !.answer = IF focus.isOut THEN "out" ELSE "in"]

\* The number of events is stored before they are asked for; without an event
\* of the game the query fails.
AskFocus ==
    /\ game # "Qlaunch"
    /\ LET i   == LastOf(events, game)
           out == i # 0 /\ events[i].kind = "OutOfFocus"
       IN  IF Len(events) = focus.total
           THEN focus' = CachedAnswer /\ UNCHANGED missed
           ELSE IF i = 0
           THEN focus' = [focus EXCEPT !.total = Len(events), !.answer = "none"]
                /\ missed' = TRUE
           ELSE focus' = [total |-> Len(events), isOut |-> out,
                          answer |-> IF out THEN "out" ELSE "in"]
                /\ missed' = FALSE
    /\ UNCHANGED <<game, events, shared, nxfps, unseen>>

\* pdmqryQueryPlayEvent fails after the number was stored.
AskFocusFails ==
    /\ game # "Qlaunch" /\ Len(events) # focus.total
    /\ focus' = [focus EXCEPT !.total = Len(events), !.answer = "none"]
    /\ missed' = TRUE
    /\ UNCHANGED <<game, events, shared, nxfps, unseen>>

---------------------------------------------------------------------------
(* GetSaltyNXFPS, then GetSaltyNXResolutionHeight, in every RefreshContext. *)

\* SearchSharedMemoryBlock.
Found == shared.offset

KeepPointer(n) == IF n.at = 0 THEN Found ELSE n.at
Pointer(n) == IF n.tid # game \/ n.at = 0 THEN Found ELSE n.at

\* The height is asked for once (renderCalls[0].calls = 0xFFFF, lookup 1) and
\* read when the game has answered. GetSaltyNXFPS has already stored the title,
\* so that a new game does not start the lookup over.
GetSaltyNX ==
    LET p == Pointer(nxfps)
    IN  /\ \E answered \in BOOLEAN :
             nxfps' = [at |-> p, tid |-> game,
                       lookup |-> IF p = 0 THEN nxfps.lookup
                                  ELSE IF nxfps.lookup = 0 THEN 1
                                  ELSE IF nxfps.lookup = 1 /\ answered THEN 2
                                  ELSE nxfps.lookup,
                       of |-> IF p = 0 THEN "none"
                              ELSE IF p = shared.offset THEN shared.owner ELSE "stale",
                       height |-> IF p # 0 /\ (nxfps.lookup = 2 \/ (nxfps.lookup = 1 /\ answered))
                                  THEN 1 ELSE 0]
        /\ unseen' = (unseen /\ nxfps.tid = game /\ nxfps.at # 0)
        /\ UNCHANGED <<game, events, focus, missed, shared>>

GamesNext ==
    \/ Launch \/ ChangeFocus \/ AppletEvent \/ Quit \/ PlaceBlock
    \/ AskFocus \/ AskFocusFails \/ GetSaltyNX

GamesSpec == GamesInit /\ [][GamesNext]_gameVars

---------------------------------------------------------------------------

GamesTypeOK ==
    /\ game \in Titles \cup {"Qlaunch"}
    /\ Len(events) <= MaxEvents
    /\ focus.total \in 0..MaxEvents /\ focus.isOut \in BOOLEAN
    /\ shared.offset \in Offsets \cup {0} /\ nxfps.lookup \in 0..2

\* An answer about the focus is the running game's focus as of the last query,
\* unless a query since the last event failed after it had stored the number of
\* events: the answer of the one before is then repeated until the next event
\* (isApplicationOutOfFocus; the VRR governor resets the display by it).
FocusAnswerRight ==
    [][focus'.answer # "none" /\ ~missed' /\ focus' # focus =>
          (focus'.answer = "out") = Out(events', game')]_gameVars

\* The frame rate shown is the running game's, or none, unless the game ended
\* and the same title was started again between two refreshes
\* (GetSaltyNXFPS forgets the block when the title changes).
FpsOfThisGame ==
    [][nxfps' # nxfps /\ ~unseen' => nxfps'.of \in {"none", game}]_gameVars
=============================================================================
