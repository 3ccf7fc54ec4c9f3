----------------------------- MODULE BoardBringUp -----------------------------
(***************************************************************************)
(* How the board comes up (board/board.cpp, board_fuse.cpp, board_misc.cpp *)
(* and CacheGpuVoltTable of board_volt.cpp): the services Initialize opens *)
(* and Exit closes, what FetchHardwareInfos makes of the fuses, and the    *)
(* search of PCV's memory for the GPU voltage table, which holds a debug   *)
(* handle that stops the process it debugs.                                *)
(***************************************************************************)
EXTENDS Integers, Sequences, FiniteSets

CONSTANTS Speedos,     \* GPU speedo fuses
          RamClocks,   \* memory clocks in MHz
          ProcessCount,\* processes in the kernel's list
          RegionCount  \* memory regions of PCV

ASSUME BringUpAssumption ==
    /\ Speedos \subseteq Nat
    /\ RamClocks \subseteq Nat

VARIABLES phase,     \* "opening", "up", "exited" or "aborted"
          step,      \* the service Initialize opens next
          refs,      \* the service guards' counters
          console,   \* SoC and fuses, and what FetchHardwareInfos made of them
          fan,       \* the fan thread: the result it was handed, as it read it
          search,    \* GetPcvHandle and CacheGpuVoltTable: where they are
          open       \* the debug handles that are open

bringUp == <<phase, step, refs, console, fan, search, open>>

---------------------------------------------------------------------------
(* Services. *)

\* The services of Initialize in order; a failure of one of them throws. i2c is
\* opened twice, psm a second time by batteryInfoInitialize, whose failure is
\* ignored, as are those of nv and pwm.
Services == <<"clkrst", "apm", "psm", "tc", "i2c", "i2c", "pmdmnt", "rgltr",
              "nv", "psm", "pwm">>
Optional == {9, 10, 11}

Guard(svc, up) == [refs EXCEPT ![svc] = IF up THEN @ + 1 ELSE @]

ExitWithoutBattery == <<"clkrst", "apm", "psm", "rgltr", "tc", "i2c", "i2c", "pwm",
                        "pmdmnt", "nv">>

\* What Exit closes; serviceGuardExit ignores what is not open. Each of the two
\* I2C chips, and psm and the battery, close their own.
ExitOrder == <<"clkrst", "apm", "psm", "rgltr", "tc", "i2c", "i2c", "pwm", "psm",
               "pmdmnt", "nv">>

\* The counters after every exit of the list, in its order.
CloseAll(r, order) ==
    [s \in DOMAIN r |->
        LET n == Cardinality({i \in DOMAIN order : order[i] = s})
        IN  IF r[s] <= n THEN 0 ELSE r[s] - n]

---------------------------------------------------------------------------
(* Fuses. *)

\* The GPU's bracket; it depends on the SoC as known at the call.
SetGpuBracket(soc, speedo) ==
    IF soc = "Mariko"
    THEN IF speedo <= 1624 THEN 0 ELSE IF speedo <= 1689 THEN 1
         ELSE IF speedo <= 1753 THEN 2 ELSE 3
    ELSE IF speedo \in 1926..2025 THEN 1 ELSE IF speedo \in 2026..2100 THEN 2
         ELSE IF speedo \in 2101..2200 THEN 3 ELSE 0

\* FetchHardwareInfos sets the bracket first, while gSocType is still 0, which
\* is Erista; then SoC, console and DRAM id are read.
BestBracket(soc, speedo) == 3

FetchedBracket(soc, speedo) == SetGpuBracket("Erista", speedo)

ConsoleType(soc, model) ==
    IF soc = "Erista" THEN "Icosa"
    ELSE IF model = 2 THEN "Hoag" ELSE IF model = 4 THEN "Aula" ELSE "Iowa"

\* Five bits, and on Mariko three more above them.
DramId(soc, low, high) == IF soc = "Mariko" THEN low + 32 * high ELSE low

Vmin(s, b) == INSTANCE FreqTable WITH Soc <- s, Bracket <- b, GpuUV <- 0

---------------------------------------------------------------------------

BringUpInit ==
    /\ phase = "opening" /\ step = 1
    /\ refs = [s \in {Services[i] : i \in 1..Len(Services)} |-> 0]
    /\ console \in [soc: {"Mariko", "Erista"}, speedo: Speedos, model: {1, 2, 4},
                    dram: {9}, ext: {0, 1}, bracket: {-1}, type: {"Icosa"}, id: {0}]
    /\ fan = "unread"
    /\ search = [at |-> "none", i |-> 0]
    /\ open = {}

\* One service of Initialize; tc and pwm exist from some firmware on, clkrst
\* stands for PCV's interface of the firmwares before it.
OpenService ==
    /\ phase = "opening"
    /\ \E works \in BOOLEAN :
          /\ refs' = Guard(Services[step], works)
          /\ phase' = IF ~works /\ step \notin Optional THEN "aborted"
                      ELSE IF step = Len(Services) THEN "up" ELSE "opening"
          /\ step' = IF phase' = "opening" THEN step + 1 ELSE step
          /\ search' = IF phase' = "up" THEN [at |-> "process", i |-> 1] ELSE search
          /\ console' = IF works /\ step = 8
                        THEN [console EXCEPT
                                !.bracket = FetchedBracket(console.soc, console.speedo),
                                !.type = ConsoleType(console.soc, console.model),
                                !.id = DramId(console.soc, console.dram, console.ext)]
                        ELSE console
    /\ UNCHANGED <<fan, open>>

\* MiscThreadFunc copies the pwm result through a pointer to a parameter of
\* StartMiscThread: after that has returned the copy is whatever the stack holds.
FanThreadStarts ==
    /\ phase = "up" /\ fan = "unread"
    /\ fan' \in {"result", "garbage"}
    /\ UNCHANGED <<phase, step, refs, console, search, open>>

\* GetPcvHandle, one process of the list at a time: the handle of the one before
\* is closed; debugging it, and reading its first event, may fail.
TryProcess ==
    /\ search.at = "process" /\ search.i <= ProcessCount
    /\ \/ /\ open' = {}
          /\ search' = [search EXCEPT !.i = @ + 1]
       \/ /\ open' = {search.i}
          /\ search' = [search EXCEPT !.i = @ + 1]
       \/ /\ open' = {search.i}
          /\ search' = [at |-> "region", i |-> 1]
    /\ UNCHANGED <<phase, step, refs, console, fan>>

\* The list ends without PCV: INVALID_HANDLE, and the handle of the last process
\* that could be debugged stays open.
NotFound ==
    /\ search.at = "process" /\ search.i > ProcessCount
    /\ search' = [at |-> "lost", i |-> 0]
    /\ UNCHANGED <<phase, step, refs, console, fan, open>>

KeptWhenFound(o) == o

\* CacheGpuVoltTable, one region at a time: not heap, or read without finding
\* the regulator, or cut short by a failed read; the query fails at the end of
\* the address space, or the table is found: the handle is closed.
Released(o) == {}

NextRegion ==
    /\ search.at = "region" /\ search.i <= RegionCount
    /\ \/ /\ search' = [search EXCEPT !.i = @ + 1]
          /\ UNCHANGED open
       \/ /\ search' = [at |-> "done", i |-> 0]
          /\ open' = Released(open)
    /\ UNCHANGED <<phase, step, refs, console, fan>>

RegionsEnd ==
    /\ search.at = "region" /\ search.i > RegionCount
    /\ search' = [at |-> "done", i |-> 0]
    /\ open' = Released(open)
    /\ UNCHANGED <<phase, step, refs, console, fan>>

Exit ==
    /\ phase = "up" /\ search.at \in {"done", "lost"}
    /\ phase' = "exited"
    /\ refs' = CloseAll(refs, ExitOrder)
    /\ UNCHANGED <<step, console, fan, search, open>>

BringUpNext == OpenService \/ FanThreadStarts \/ TryProcess \/ NotFound
            \/ NextRegion \/ RegionsEnd \/ Exit

BringUpSpec == BringUpInit /\ [][BringUpNext]_bringUp

---------------------------------------------------------------------------

BringUpTypeOK ==
    /\ phase \in {"opening", "up", "exited", "aborted"}
    /\ step \in 1..Len(Services)
    /\ \A s \in DOMAIN refs : refs[s] \in 0..2
    /\ console.bracket \in -1..3
    /\ Cardinality(open) <= 1

\* Exit leaves no service open, whichever of the optional ones came up
\* (board.cpp Initialize and Exit, service_guard.h).
ServicesBalanced == phase = "exited" => \A s \in DOMAIN refs : refs[s] = 0

\* A debug handle stops the process it is for: once the search is over none is
\* open, unless PCV was not found, when the last process tried may be left
\* stopped (GetPcvHandle, CacheGpuVoltTable).
DebugHandleReleased == search.at = "done" => open = {}

\* The bracket is set before the SoC is known, so that a Mariko console gets
\* the bracket Erista's ranges give its speedo: the voltage floor of a memory
\* clock is then never below the one of its own bracket (FetchHardwareInfos,
\* GetMinimumGpuVmin).
BracketOnSafeSide ==
    console.bracket # -1 =>
        \A mhz \in RamClocks :
            Vmin(console.soc, console.bracket)!GpuVmin(mhz)
              >= Vmin(console.soc, SetGpuBracket(console.soc, console.speedo))!GpuVmin(mhz)

\* The board is left as it was found, and what was found of it is safe.
BringUpInv == ServicesBalanced /\ DebugHandleReleased /\ BracketOnSafeSide
=============================================================================
